------------------------------ MODULE Cassette ------------------------------
(***************************************************************************)
(* src/llm_client_kit/cassette.py under LLMClient.chat: sessions that      *)
(* record HTTP exchanges to a file or replay them from it, one after       *)
(* another, with the process allowed to die at any point.                  *)
(*                                                                         *)
(* Within a session concurrent calls run their retry loops.  An exchange   *)
(* over the wire takes time, so recordings are appended in the order the   *)
(* answers come; a replayed answer is given at once, so recordings are     *)
(* played in the order the requests are made.  What httpx and the file     *)
(* system do is external.                                                  *)
(*                                                                         *)
(* There is no clock here: how long an exchange or a sleep takes is not on *)
(* the tape.  So in either session a call may find that its Deadline has   *)
(* passed, at the head of its loop or after any attempt it would repeat.   *)
(*                                                                         *)
(* heard, told and fates are history: what the calls of the session got,   *)
(* and what those of the recording in the file had got when it was saved.  *)
(*                                                                         *)
(* Operators defined right before another one with the same parameters and *)
(* used nowhere are mutants of it: RetryOnceMore, FindUnplayed, FindFirst, *)
(* FindLast.                                                               *)
(***************************************************************************)
EXTENDS Integers, SequencesExt

CONSTANTS
  Calls,       \* the calls a session may make
  KeyOf,       \* request_key of each call's request
  Hurried,     \* calls that have a deadline
  Answers,     \* what a server may answer, see AnswerShape
  MaxRetries,  \* RetryPolicy.max_retries
  None,        \* Python's None, and a file that does not exist
  Unreadable,  \* a file that is torn, or of another version
  MaxOpened    \* bound: sessions that are opened

Keys == {KeyOf[c] : c \in Calls}

(* An answer succeeds, is refused for good, or is worth another attempt;   *)
(* its body may have come compressed.                                      *)
AnswerShape == [status : {"ok", "bad", "busy"}, zipped : BOOLEAN]

ASSUME CassetteAssumption ==
  /\ Hurried \subseteq Calls
  /\ Answers \subseteq AnswerShape
  /\ MaxRetries \in Nat
  /\ MaxOpened \in Nat
  /\ None \notin {"record", "replay", "ok", "failed", "expired", "miss"}

VARIABLES
  file,     \* the file at Cassette.path
  mode,     \* Cassette.mode, None while no session is open
  tape,     \* Cassette.interactions
  played,   \* Cassette._played
  pc,       \* where each call is
  attempt,  \* chat(): attempt
  outcome,  \* how each call ended, None until then
  heard,    \* answers the session's calls got, by request
  told,     \* heard, as it was when the file was saved
  fates,    \* outcome, as it was when the file was saved
  opened    \* sessions opened so far

cassetteVars == <<mode, tape, played>>
callVars     == <<pc, attempt, outcome>>
fileVars     == <<file, told, fates>>
vars         == <<cassetteVars, callVars, fileVars, heard, opened>>

Silence == [k \in Keys |-> <<>>]

Init ==
  /\ file \in {None, Unreadable}
  /\ mode = None
  /\ tape = <<>>
  /\ played = {}
  /\ pc = [c \in Calls |-> "idle"]
  /\ attempt = [c \in Calls |-> 0]
  /\ outcome = [c \in Calls |-> None]
  /\ heard = Silence
  /\ told = Silence
  /\ fates = [c \in Calls |-> None]
  /\ opened = 0

-----------------------------------------------------------------------------
(* Cassette(path, mode): auto replays what exists and records otherwise.   *)
Resolved(m) ==
  IF m # "auto" THEN m ELSE IF file # None THEN "replay" ELSE "record"

Open(m) ==
  /\ mode = None
  /\ opened < MaxOpened
  /\ opened' = opened + 1
  /\ \/ /\ Resolved(m) = "record"
        /\ tape' = <<>>
     \/ /\ Resolved(m) = "replay"
        /\ file \notin {None, Unreadable}
        /\ tape' = file
  /\ mode' = Resolved(m)
  /\ UNCHANGED <<played, callVars, fileVars, heard>>

(* _load raises: there is no file, or not one that it can read.            *)
OpenRaises(m) ==
  /\ mode = None
  /\ opened < MaxOpened
  /\ Resolved(m) = "replay"
  /\ file \in {None, Unreadable}
  /\ opened' = opened + 1
  /\ UNCHANGED <<cassetteVars, callVars, fileVars, heard>>

-----------------------------------------------------------------------------
(* The rest of chat's loop: an attempt of call c ended like this.          *)
Conclude(c, o) ==
  /\ pc' = [pc EXCEPT ![c] = "ended"]
  /\ outcome' = [outcome EXCEPT ![c] = o]
  /\ UNCHANGED attempt

RetryOnceMore(c) == attempt[c] <= MaxRetries
MayRetry(c) == attempt[c] < MaxRetries

(* The policy and the Deadline say whether there is another attempt.       *)
Repeat(c) ==
  /\ MayRetry(c)
  /\ pc' = [pc EXCEPT ![c] = "sleeping"]
  /\ attempt' = [attempt EXCEPT ![c] = @ + 1]
  /\ UNCHANGED outcome

Retry(c) ==
  \/ Repeat(c)
  \/ MayRetry(c) /\ c \in Hurried /\ Conclude(c, "expired")
  \/ ~MayRetry(c) /\ Conclude(c, "failed")

(* The cassette hands httpx a body that is no longer compressed under the  *)
(* headers of one that was: httpx raises a DecodingError, and nobody       *)
(* retries that.                                                           *)
Hear(c, answer) ==
  /\ heard' = [heard EXCEPT ![KeyOf[c]] = Append(@, answer)]
  /\ IF answer.zipped \/ answer.status = "bad" THEN Conclude(c, "failed")
     ELSE IF answer.status = "busy" THEN Retry(c)
     ELSE Conclude(c, "ok")

(* A call has a request to make: its first, or the next attempt.           *)
Asks(c) == pc[c] \in {"idle", "sleeping"}

(* The check at the head of the loop finds no time left for it.            *)
GiveUp(c) ==
  /\ mode # None
  /\ Asks(c) /\ c \in Hurried
  /\ Conclude(c, "expired")
  /\ UNCHANGED <<cassetteVars, fileVars, heard, opened>>

-----------------------------------------------------------------------------
(* Recording: handle_async_request up to the wire, and from it.  What the  *)
(* calls of a session do after its end is not saved and left out.          *)
Send(c) ==
  /\ mode = "record"
  /\ Asks(c)
  /\ pc' = [pc EXCEPT ![c] = "wire"]
  /\ UNCHANGED <<cassetteVars, attempt, outcome, fileVars, heard, opened>>

Interaction(c, answer) == [key |-> KeyOf[c], answer |-> answer]

Receive(c, answer) ==
  /\ mode = "record"
  /\ pc[c] = "wire"
  /\ tape' = Append(tape, Interaction(c, answer))
  /\ Hear(c, answer)
  /\ UNCHANGED <<mode, played, fileVars, opened>>

(* The exchange breaks; there is nothing to record.                        *)
Lose(c) ==
  /\ mode = "record"
  /\ pc[c] = "wire"
  /\ Retry(c)
  /\ UNCHANGED <<cassetteVars, fileVars, heard, opened>>

-----------------------------------------------------------------------------
(* find: the first match that has not been played, else the first match.   *)
Matches(k) == {i \in DOMAIN tape : tape[i].key = k}

FindUnplayed(k) ==
  IF Matches(k) \ played # {} THEN {Min(Matches(k) \ played)} ELSE {}

FindFirst(k) == IF Matches(k) # {} THEN {Min(Matches(k))} ELSE {}

FindLast(k) ==
  IF Matches(k) \ played # {} THEN {Max(Matches(k) \ played)}
  ELSE IF Matches(k) # {} THEN {Min(Matches(k))} ELSE {}

find(k) ==
  IF Matches(k) \ played # {} THEN {Min(Matches(k) \ played)}
  ELSE IF Matches(k) # {} THEN {Min(Matches(k))} ELSE {}

(* play: no await between the request and its answer.                      *)
Play(c) ==
  /\ mode = "replay"
  /\ Asks(c)
  /\ \E i \in find(KeyOf[c]) :
        /\ played' = played \cup {i}
        /\ Hear(c, tape[i].answer)
  /\ UNCHANGED <<mode, tape, fileVars, opened>>

(* CassetteMiss, which is not retried.                                     *)
Miss(c) ==
  /\ mode = "replay"
  /\ Asks(c)
  /\ find(KeyOf[c]) = {}
  /\ Conclude(c, "miss")
  /\ UNCHANGED <<cassetteVars, fileVars, heard, opened>>

-----------------------------------------------------------------------------
(* The session is over: its cassette and its calls are gone.               *)
Close ==
  /\ mode' = None
  /\ tape' = <<>>
  /\ played' = {}
  /\ pc' = [c \in Calls |-> "idle"]
  /\ attempt' = [c \in Calls |-> 0]
  /\ outcome' = [c \in Calls |-> None]
  /\ heard' = Silence
  /\ UNCHANGED opened

Write ==
  /\ file' = tape
  /\ told' = heard
  /\ fates' = outcome

(* save, called in a session that records                                  *)
save ==
  /\ mode = "record"
  /\ Write
  /\ UNCHANGED <<cassetteVars, callVars, heard, opened>>

(* __exit__, also when the block raises with calls still under way         *)
Exit ==
  /\ mode # None
  /\ \/ mode = "record" /\ Write
     \/ mode = "replay" /\ UNCHANGED fileVars
  /\ Close

(* The process dies, and if it was about to save, in the middle of it:     *)
(* write_text truncates the file before it writes.                         *)
Crash ==
  /\ mode # None
  /\ \/ UNCHANGED fileVars
     \/ /\ mode = "record"
        /\ file' = Unreadable
        /\ told' = Silence
        /\ fates' = [c \in Calls |-> None]
  /\ Close

Terminated ==
  /\ mode = None
  /\ opened = MaxOpened
  /\ UNCHANGED vars

Next ==
  \/ \E m \in {"record", "replay", "auto"} : Open(m) \/ OpenRaises(m)
  \/ \E c \in Calls :
        \/ GiveUp(c)
        \/ Send(c)
        \/ \E answer \in Answers : Receive(c, answer)
        \/ Lose(c)
        \/ Play(c)
        \/ Miss(c)
  \/ save
  \/ Exit
  \/ Crash
  \/ Terminated

Spec == Init /\ [][Next]_vars

-----------------------------------------------------------------------------
Interactions == [key : Keys, answer : Answers]
Tapes        == Seq(Interactions)
Outcomes     == {"ok", "failed", "expired", "miss"}

(* Every variable stays in its range; no attempt beyond max_retries, and   *)
(* nothing is marked as played that is not on the tape.                    *)
TypeOK ==
  /\ file \in Tapes \cup {None, Unreadable}
  /\ mode \in {None, "record", "replay"}
  /\ tape \in Tapes
  /\ played \subseteq DOMAIN tape
  /\ pc \in [Calls -> {"idle", "wire", "sleeping", "ended"}]
  /\ attempt \in [Calls -> 0 .. MaxRetries]
  /\ outcome \in [Calls -> Outcomes \cup {None}]
  /\ {heard, told} \subseteq [Keys -> Seq(Answers)]
  /\ fates \in [Calls -> Outcomes \cup {None}]
  /\ opened \in 0 .. MaxOpened

(* A session that replays hears, request by request, the answers that the  *)
(* recording in the file heard and in the order it heard them, whatever    *)
(* calls interleave, and after the last one the first one.                 *)
ReplaysRecording ==
  mode = "replay" =>
    \A k \in Keys : \A n \in DOMAIN heard[k] :
       heard[k][n] = IF n <= Len(told[k]) THEN told[k][n] ELSE told[k][1]

(* "repeated identical calls in a run should not need N copies on disk":   *)
(* only a request that was never answered while recording can miss.        *)
KnownNeverMisses ==
  \A c \in Calls : outcome[c] = "miss" => told[KeyOf[c]] = <<>>

(* A call that has its request to itself ends in replay as it ended when   *)
(* it was recorded, the retries it needed included, unless its Deadline    *)
(* ends it in one session or the other.                                    *)
Alone(c) == \A d \in Calls \ {c} : KeyOf[d] # KeyOf[c]

SameEnd ==
  mode = "replay" =>
    \A c \in Calls :
       (/\ Alone(c)
        /\ told[KeyOf[c]] # <<>>
        /\ {None, "expired"} \cap {outcome[c], fates[c]} = {})
          => outcome[c] = fates[c]

(* find "replays that sequence rather than returning the first response    *)
(* forever": where every call with a request succeeded in the recording,   *)
(* if need be after retries, no call with that request fails in replay.    *)
SequenceReplayed ==
  mode = "replay" =>
    \A c \in Calls :
       (\A d \in Calls : KeyOf[d] = KeyOf[c] => fates[d] = "ok")
          => outcome[c] # "failed"

(* "a cassette replays bytes a real server actually sent": an answer that  *)
(* succeeds completes the call that hears it.                              *)
AnswersUsed ==
  [][\A c \in Calls :
       (/\ pc[c] # pc'[c]
        /\ Len(heard'[KeyOf[c]]) > Len(heard[KeyOf[c]])
        /\ Last(heard'[KeyOf[c]]).status = "ok")
          => outcome'[c] = "ok"]_vars
=============================================================================
