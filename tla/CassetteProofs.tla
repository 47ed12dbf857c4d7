--------------------------- MODULE CassetteProofs ---------------------------
(***************************************************************************)
(* Theorems about Cassette for any number of calls, requests, answers and  *)
(* sessions.                                                               *)
(*                                                                         *)
(* The argument is that a tape transcribes what was heard when it was      *)
(* recorded: for each request, the positions of its interactions in order  *)
(* are an index of its answers in order.  A session that replays has, at   *)
(* any moment, played exactly the positions that index what it has heard.  *)
(* A call that is alone with its request then makes of those answers what  *)
(* it made of them when they were recorded.                                *)
(***************************************************************************)
EXTENDS Cassette, WellFoundedInduction, TLAPS

(* g[n] is the position on tape t of the n-th of the answers h to request k*)
Indexes(g, t, k, h) ==
  /\ \A m, n \in 1 .. Len(h) : m < n => g[m] < g[n]
  /\ \A n \in 1 .. Len(h) : t[g[n]].key = k /\ t[g[n]].answer = h[n]
  /\ \A i \in DOMAIN t : t[i].key = k => \E n \in 1 .. Len(h) : g[n] = i

Transcribes(t, h) ==
  \A k \in Keys : \E g \in [1 .. Len(h[k]) -> DOMAIN t] : Indexes(g, t, k, h[k])

(* What has been played is what has been heard.                            *)
PlayedInOrder ==
  \A k \in Keys : \A g \in [1 .. Len(told[k]) -> DOMAIN tape] :
     Indexes(g, tape, k, told[k]) =>
       \A n \in 1 .. Len(told[k]) : g[n] \in played <=> n <= Len(heard[k])

Recording == mode = "record" => Transcribes(tape, heard)

Saved == file \notin {None, Unreadable} => Transcribes(file, told)

Replaying ==
  mode = "replay" => tape = file /\ file \notin {None, Unreadable} /\ PlayedInOrder

(* Between sessions nothing is left of the last one.                       *)
Rest == mode = None => played = {} /\ heard = Silence

OnlyReplayMisses ==
  \A c \in Calls : outcome[c] = "miss" => mode = "replay"

IInv ==
  /\ TypeOK
  /\ Recording /\ Saved /\ Replaying /\ Rest
  /\ OnlyReplayMisses
  /\ KnownNeverMisses
  /\ ReplaysRecording

-----------------------------------------------------------------------------
(* A nonempty set of positions has a first one.                            *)
LEMMA FirstPosition ==
  ASSUME NEW S \in SUBSET Nat, S # {}
  PROVE  Min(S) \in S
<1>1. \E i \in S : \A j \in S : ~(<<j, i>> \in OpToRel(<, Nat))
  BY NatLessThanWellFounded, WFMin
<1>2. \E i \in S : \A j \in S : i <= j
  <2>1. PICK i \in S : \A j \in S : ~(<<j, i>> \in OpToRel(<, Nat))
    BY <1>1
  <2>2. ASSUME NEW j \in S PROVE i <= j
    <3>1. ~(j < i)
      BY <2>1 DEF OpToRel
    <3> QED
      BY <3>1
  <2> QED
    BY <2>2
<1> QED
  BY <1>2 DEF Min

(* find finds a position of the tape, and none only if there is none.      *)
LEMMA Finds ==
  ASSUME TypeOK, NEW k
  PROVE  /\ find(k) \subseteq DOMAIN tape
         /\ find(k) = {} => Matches(k) = {}
<1>1. DOMAIN tape \in SUBSET Nat /\ Matches(k) \in SUBSET DOMAIN tape
  BY DEF TypeOK, Tapes, Matches
<1>2. Matches(k) \ played # {} => Min(Matches(k) \ played) \in DOMAIN tape
  BY <1>1, FirstPosition
<1>3. Matches(k) # {} => Min(Matches(k)) \in DOMAIN tape
  BY <1>1, FirstPosition
<1>4. find(k) \subseteq DOMAIN tape
  BY <1>2, <1>3 DEF find
<1>5. find(k) = {} => Matches(k) = {}
  BY DEF find
<1> QED
  BY <1>4, <1>5

(* What an attempt that ends does to its call, retried or not.             *)
LEMMA ConcludeTypes ==
  ASSUME TypeOK, NEW c \in Calls, NEW o \in Outcomes \ {"miss"}, Conclude(c, o)
  PROVE  /\ pc' \in [Calls -> {"idle", "wire", "sleeping", "ended"}]
         /\ attempt' \in [Calls -> 0 .. MaxRetries]
         /\ outcome' \in [Calls -> Outcomes \cup {None}]
         /\ \A d \in Calls : outcome'[d] = "miss" => outcome[d] = "miss"
  BY DEF Conclude, TypeOK, Outcomes

LEMMA RetryTypes ==
  ASSUME TypeOK, NEW c \in Calls, Retry(c)
  PROVE  /\ pc' \in [Calls -> {"idle", "wire", "sleeping", "ended"}]
         /\ attempt' \in [Calls -> 0 .. MaxRetries]
         /\ outcome' \in [Calls -> Outcomes \cup {None}]
         /\ \A d \in Calls : outcome'[d] = "miss" => outcome[d] = "miss"
<1>1. CASE Repeat(c)
  <2>1. attempt[c] + 1 \in 0 .. MaxRetries
    BY <1>1, CassetteAssumption DEF Repeat, MayRetry, TypeOK
  <2> QED
    BY <1>1, <2>1 DEF Repeat, TypeOK
<1>2. CASE Conclude(c, "expired") \/ Conclude(c, "failed")
  BY <1>2, ConcludeTypes DEF Outcomes
<1> QED
  BY <1>1, <1>2 DEF Retry

(* What an answer does to a call, and to what its request has heard.       *)
LEMMA HearTypes ==
  ASSUME TypeOK, NEW c \in Calls, NEW answer \in Answers, Hear(c, answer)
  PROVE  /\ pc' \in [Calls -> {"idle", "wire", "sleeping", "ended"}]
         /\ attempt' \in [Calls -> 0 .. MaxRetries]
         /\ outcome' \in [Calls -> Outcomes \cup {None}]
         /\ heard' \in [Keys -> Seq(Answers)]
         /\ \A d \in Calls : outcome'[d] = "miss" => outcome[d] = "miss"
         /\ \A k \in Keys \ {KeyOf[c]} : heard'[k] = heard[k]
<1>1. KeyOf[c] \in Keys /\ heard \in [Keys -> Seq(Answers)]
  BY DEF Keys, TypeOK
<1>2. heard' = [heard EXCEPT ![KeyOf[c]] = Append(@, answer)]
  BY DEF Hear
<1>3. heard' \in [Keys -> Seq(Answers)]
  <2>1. Append(heard[KeyOf[c]], answer) \in Seq(Answers)
    BY <1>1
  <2> QED
    BY <1>1, <1>2, <2>1
<1>4. Conclude(c, "ok") \/ Conclude(c, "failed") \/ Retry(c)
  BY DEF Hear
<1>5. CASE Conclude(c, "ok") \/ Conclude(c, "failed")
  BY <1>1, <1>2, <1>3, <1>5, ConcludeTypes DEF Outcomes
<1>6. CASE Retry(c)
  BY <1>1, <1>2, <1>3, <1>6, RetryTypes
<1> QED
  BY <1>4, <1>5, <1>6

-----------------------------------------------------------------------------
(* The smallest of a set                                                   *)
LEMMA MinIs ==
  ASSUME NEW S \in SUBSET Nat, NEW x \in S, \A y \in S : x <= y
  PROVE  Min(S) = x
<1>1. \E z \in S : \A y \in S : z <= y
  OBVIOUS
<1>2. Min(S) \in S /\ \A y \in S : Min(S) <= y
  BY <1>1 DEF Min
<1>3. Min(S) \in Nat /\ x \in Nat /\ Min(S) <= x /\ x <= Min(S)
  BY <1>2
<1> QED
  BY <1>3

(* An interaction that is appended transcribes the answer that is heard.   *)
LEMMA AppendTranscribes ==
  ASSUME NEW t \in Tapes, NEW h \in [Keys -> Seq(Answers)], Transcribes(t, h),
         NEW k0 \in Keys, NEW a \in Answers
  PROVE  Transcribes(Append(t, [key |-> k0, answer |-> a]),
                     [h EXCEPT ![k0] = Append(@, a)])
<1> DEFINE x == [key |-> k0, answer |-> a]
           u == Append(t, x)
           i == [h EXCEPT ![k0] = Append(@, a)]
<1>1. /\ t \in Seq(Interactions) /\ x \in Interactions
      /\ x.key = k0 /\ x.answer = a
  BY DEF Tapes, Interactions
<1>2. /\ Len(u) = Len(t) + 1 /\ Len(t) \in Nat
      /\ DOMAIN t = 1 .. Len(t) /\ DOMAIN u = 1 .. (Len(t) + 1)
      /\ \A j \in 1 .. Len(t) : u[j] = t[j]
      /\ u[Len(t) + 1] = x
  BY <1>1
<1> HIDE DEF x, u
<1> SUFFICES ASSUME NEW k \in Keys
             PROVE  \E g \in [1 .. Len(i[k]) -> DOMAIN u] : Indexes(g, u, k, i[k])
  BY DEF Transcribes, u, x
<1>3. PICK g \in [1 .. Len(h[k]) -> DOMAIN t] : Indexes(g, t, k, h[k])
  BY DEF Transcribes
<1>4. CASE k # k0
  <2>1. i[k] = h[k]
    BY <1>4
  <2>2. g \in [1 .. Len(i[k]) -> DOMAIN u]
    BY <1>2, <2>1
  <2>3. Indexes(g, u, k, i[k])
    <3>1. \A n \in 1 .. Len(h[k]) : u[g[n]] = t[g[n]]
      BY <1>2
    <3>2. \A j \in DOMAIN u : u[j].key = k => j \in DOMAIN t /\ t[j].key = k
      BY <1>1, <1>2, <1>4
    <3> QED
      BY <1>3, <2>1, <3>1, <3>2 DEF Indexes
  <2> QED
    BY <2>2, <2>3
<1>5. CASE k = k0
  <2> DEFINE L == Len(h[k])
             f == [n \in 1 .. (L + 1) |-> IF n <= L THEN g[n] ELSE Len(t) + 1]
  <2>1. h[k] \in Seq(Answers) /\ i[k] = Append(h[k], a)
    BY <1>5
  <2>2. /\ L \in Nat /\ Len(i[k]) = L + 1
        /\ \A n \in 1 .. L : i[k][n] = h[k][n]
        /\ i[k][L + 1] = a
    BY <2>1
  <2> HIDE DEF L, i
  <2>3. /\ g \in [1 .. L -> 1 .. Len(t)]
        /\ \A n \in 1 .. L : f[n] = g[n]
        /\ f[L + 1] = Len(t) + 1
    BY <1>2, <2>2 DEF L
  <2>4. f \in [1 .. (L + 1) -> 1 .. (Len(t) + 1)]
    BY <1>2, <2>2, <2>3
  <2>5. Indexes(f, u, k, i[k])
    <3> HIDE DEF f
    <3>1. ASSUME NEW m \in 1 .. (L + 1), NEW n \in 1 .. (L + 1), m < n
          PROVE  f[m] < f[n]
      <4>1. m \in 1 .. L /\ (n \in 1 .. L \/ n = L + 1)
        BY <2>2, <3>1
      <4>2. f[m] \in 1 .. Len(t)
        BY <2>3, <4>1
      <4>3. CASE n \in 1 .. L
        BY <1>3, <2>3, <3>1, <4>1, <4>3 DEF Indexes, L
      <4>4. CASE n = L + 1
        BY <1>2, <2>3, <4>2, <4>4
      <4> QED
        BY <4>1, <4>3, <4>4
    <3>2. ASSUME NEW n \in 1 .. (L + 1)
          PROVE  u[f[n]].key = k /\ u[f[n]].answer = i[k][n]
      <4>1. n \in 1 .. L \/ n = L + 1
        BY <2>2
      <4>2. CASE n \in 1 .. L
        BY <1>2, <1>3, <2>2, <2>3, <4>2 DEF Indexes, L
      <4>3. CASE n = L + 1
        BY <1>1, <1>2, <1>5, <2>2, <2>3, <4>3
      <4> QED
        BY <4>1, <4>2, <4>3
    <3>3. ASSUME NEW j \in DOMAIN u, u[j].key = k
          PROVE  \E n \in 1 .. (L + 1) : f[n] = j
      <4>1. CASE j \in 1 .. Len(t)
        <5>1. PICK n \in 1 .. L : g[n] = j
          BY <1>2, <1>3, <3>3, <4>1 DEF Indexes, L
        <5>2. n \in 1 .. (L + 1) /\ f[n] = j
          BY <2>2, <2>3, <5>1
        <5> QED
          BY <5>2
      <4>2. CASE j = Len(t) + 1
        BY <2>2, <2>3, <4>2
      <4> QED
        BY <1>2, <4>1, <4>2
    <3> QED
      BY <2>2, <3>1, <3>2, <3>3 DEF Indexes
  <2> QED
    BY <1>2, <2>2, <2>4, <2>5
<1> QED
  BY <1>4, <1>5

-----------------------------------------------------------------------------
(* find returns the next position of the index, and after the last one the *)
(* first one.                                                              *)
LEMMA FindByIndex ==
  ASSUME IInv, mode = "replay", NEW k \in Keys,
         NEW g \in [1 .. Len(told[k]) -> DOMAIN tape], Indexes(g, tape, k, told[k]),
         NEW i \in find(k)
  PROVE  \/ Len(heard[k]) < Len(told[k]) /\ i = g[Len(heard[k]) + 1]
         \/ Len(told[k]) <= Len(heard[k]) /\ Len(told[k]) >= 1 /\ i = g[1]
<1> DEFINE L == Len(told[k])
           H == Len(heard[k])
<1>1. /\ L \in Nat /\ H \in Nat /\ DOMAIN tape \in SUBSET Nat
      /\ told[k] \in Seq(Answers) /\ heard[k] \in Seq(Answers)
  BY DEF IInv, TypeOK, Tapes
<1>2. \A n \in 1 .. L : g[n] \in played <=> n <= H
  BY DEF IInv, Replaying, PlayedInOrder
<1>3. /\ \A n \in 1 .. L : g[n] \in Matches(k) /\ g[n] \in Nat
      /\ \A j \in Matches(k) : \E n \in 1 .. L : g[n] = j
      /\ \A m, n \in 1 .. L : m < n => g[m] < g[n]
  BY <1>1 DEF Indexes, Matches
<1> HIDE DEF L, H
<1>4. \A m, n \in 1 .. L : m <= n => g[m] <= g[n]
  BY <1>1, <1>3
<1>5. CASE H < L
  <2>1. H + 1 \in 1 .. L
    BY <1>1, <1>5
  <2>2. g[H + 1] \in Matches(k) \ played
    BY <1>1, <1>2, <1>3, <2>1
  <2>3. ASSUME NEW j \in Matches(k) \ played PROVE g[H + 1] <= j
    <3>1. PICK n \in 1 .. L : g[n] = j
      BY <1>3
    <3>2. H + 1 <= n
      BY <1>1, <1>2, <3>1
    <3> QED
      BY <1>4, <2>1, <3>1, <3>2
  <2>4. Matches(k) \ played \in SUBSET Nat
    BY <1>1 DEF Matches
  <2>5. Min(Matches(k) \ played) = g[H + 1]
    BY <2>2, <2>3, <2>4, MinIs
  <2>6. i = g[H + 1]
    BY <2>2, <2>5 DEF find
  <2> QED
    BY <1>5, <2>6 DEF L, H
<1>6. CASE ~(H < L)
  <2>1. Matches(k) \ played = {}
    BY <1>1, <1>2, <1>3, <1>6
  <2>2. i \in {Min(Matches(k))} /\ Matches(k) # {}
    BY <2>1 DEF find
  <2>3. 1 \in 1 .. L
    BY <1>1, <1>3, <2>2
  <2>4. \A j \in Matches(k) : g[1] <= j
    BY <1>3, <1>4, <2>3
  <2>5. Matches(k) \in SUBSET Nat /\ g[1] \in Matches(k)
    BY <1>1, <1>3, <2>3 DEF Matches
  <2>6. i = g[1]
    BY <2>2, <2>4, <2>5, MinIs
  <2> QED
    BY <1>1, <1>6, <2>3, <2>6 DEF L, H
<1> QED
  BY <1>5, <1>6

LEMMA PlayKeepsOrder ==
  ASSUME IInv, NEW c \in Calls, Play(c)
  PROVE  PlayedInOrder' /\ ReplaysRecording'
<1> DEFINE k == KeyOf[c]
           L == Len(told[k])
           H == Len(heard[k])
<1>1. PICK i \in find(k) : played' = played \cup {i} /\ Hear(c, tape[i].answer)
  BY DEF Play
<1>2. /\ mode = "replay" /\ mode' = mode /\ tape' = tape /\ told' = told
      /\ k \in Keys /\ tape = file /\ file \notin {None, Unreadable}
  BY DEF Play, fileVars, IInv, Replaying, Keys
<1>3. /\ i \in DOMAIN tape /\ tape[i].key = k /\ tape[i].answer \in Answers
  <2>1. i \in DOMAIN tape
    BY <1>1, Finds DEF IInv
  <2>2. tape[i].key = k
    <3>1. PICK g \in [1 .. L -> DOMAIN tape] : Indexes(g, tape, k, told[k])
      BY <1>2 DEF IInv, Saved, Transcribes
    <3>2. \E n \in 1 .. L : i = g[n]
      <4>1. L \in Nat /\ H \in Nat
        BY <1>2 DEF IInv, TypeOK
      <4>2. \/ H < L /\ i = g[H + 1]
            \/ L <= H /\ L >= 1 /\ i = g[1]
        BY <1>1, <1>2, <3>1, FindByIndex
      <4>3. (H < L => H + 1 \in 1 .. L) /\ (L >= 1 => 1 \in 1 .. L)
        BY <4>1
      <4> QED
        BY <4>2, <4>3
    <3> QED
      BY <3>1, <3>2 DEF Indexes
  <2>3. tape[i] \in Interactions
    BY <2>1 DEF IInv, TypeOK, Tapes
  <2> QED
    BY <2>1, <2>2, <2>3 DEF Interactions
<1>4. /\ heard'[k] = Append(heard[k], tape[i].answer)
      /\ \A j \in Keys \ {k} : heard'[j] = heard[j]
      /\ heard[k] \in Seq(Answers) /\ told[k] \in Seq(Answers)
      /\ L \in Nat /\ H \in Nat
  BY <1>1, <1>2, <1>3, HearTypes DEF IInv, TypeOK, Hear
<1>5. Len(heard'[k]) = H + 1 /\ heard'[k][H + 1] = tape[i].answer
      /\ \A n \in 1 .. H : heard'[k][n] = heard[k][n]
  BY <1>3, <1>4
<1>6. ASSUME NEW g \in [1 .. L -> DOMAIN tape], Indexes(g, tape, k, told[k])
      PROVE  \/ H < L /\ i = g[H + 1]
             \/ L <= H /\ L >= 1 /\ i = g[1]
  BY <1>1, <1>2, <1>6, FindByIndex
<1> HIDE DEF k, L, H
<1>7. ReplaysRecording'
  <2> SUFFICES ASSUME NEW j \in Keys, NEW n \in DOMAIN heard'[j]
               PROVE  heard'[j][n] = IF n <= Len(told[j]) THEN told[j][n] ELSE told[j][1]
    BY <1>2 DEF ReplaysRecording
  <2>1. CASE j # k \/ n \in 1 .. H
    <3>1. n \in DOMAIN heard[j] /\ heard'[j][n] = heard[j][n]
      BY <1>4, <1>5, <2>1 DEF H
    <3> QED
      BY <1>2, <3>1 DEF IInv, ReplaysRecording
  <2>2. CASE j = k /\ n \notin 1 .. H
    <3>1. n = H + 1
      <4>1. DOMAIN heard'[k] = 1 .. (H + 1)
        BY <1>3, <1>4, <1>5
      <4> QED
        BY <1>4, <2>2, <4>1
    <3>2. PICK g \in [1 .. L -> DOMAIN tape] : Indexes(g, tape, k, told[k])
      BY <1>2 DEF IInv, Saved, Transcribes, L
    <3>3. \A m \in 1 .. L : tape[g[m]].answer = told[k][m]
      BY <3>2 DEF Indexes, L
    <3>4. CASE H < L /\ i = g[H + 1]
      <4>1. H + 1 \in 1 .. L
        BY <1>4, <3>4
      <4> QED
        BY <1>4, <1>5, <2>2, <3>1, <3>3, <3>4, <4>1 DEF L
    <3>5. CASE L <= H /\ L >= 1 /\ i = g[1]
      <4>1. 1 \in 1 .. L /\ ~(H + 1 <= L)
        BY <1>4, <3>5
      <4> QED
        BY <1>4, <1>5, <2>2, <3>1, <3>3, <3>5, <4>1 DEF L
    <3> QED
      BY <1>6, <3>2, <3>4, <3>5
  <2> QED
    BY <2>1, <2>2
<1>8. PlayedInOrder'
  <2> SUFFICES ASSUME NEW j \in Keys, NEW g \in [1 .. Len(told[j]) -> DOMAIN tape],
                      Indexes(g, tape, j, told[j]), NEW n \in 1 .. Len(told[j])
               PROVE  g[n] \in played' <=> n <= Len(heard'[j])
    BY <1>2 DEF PlayedInOrder
  <2>1. g[n] \in played <=> n <= Len(heard[j])
    BY <1>2 DEF IInv, Replaying, PlayedInOrder
  <2>2. CASE j # k
    <3>1. g[n] # i
      BY <1>3, <2>2 DEF Indexes
    <3> QED
      BY <1>1, <1>4, <2>1, <2>2, <3>1
  <2>3. CASE j = k
    <3>1. n \in 1 .. L /\ (g[n] \in played <=> n <= H)
      BY <2>1, <2>3 DEF L, H
    <3>2. CASE H < L /\ i = g[H + 1]
      <4>1. H + 1 \in 1 .. L
        BY <1>4, <3>2
      <4>2. g[n] = g[H + 1] <=> n = H + 1
        <5>0. DOMAIN tape \in SUBSET Nat
          BY DEF IInv, TypeOK, Tapes
        <5>1. \A m \in 1 .. L : g[m] \in Nat
          BY <2>3, <5>0 DEF L
        <5>2. /\ n < H + 1 => g[n] < g[H + 1]
              /\ H + 1 < n => g[H + 1] < g[n]
          BY <2>3, <3>1, <4>1 DEF Indexes, L
        <5> QED
          BY <1>4, <3>1, <4>1, <5>1, <5>2
      <4> QED
        BY <1>1, <1>4, <1>5, <2>3, <3>1, <3>2, <4>2
    <3>3. CASE L <= H
      BY <1>1, <1>4, <1>5, <2>3, <3>1, <3>3
    <3> QED
      BY <1>6, <2>3, <3>2, <3>3 DEF L
  <2> QED
    BY <2>2, <2>3
<1> QED
  BY <1>7, <1>8

-----------------------------------------------------------------------------
(* The invariant holds initially and is preserved by every action.         *)
LEMMA InitInvariant == Init => IInv
<1> SUFFICES ASSUME Init PROVE IInv
  OBVIOUS
<1>1. Silence \in [Keys -> Seq(Answers)] /\ <<>> \in Tapes
  BY DEF Silence, Tapes
<1>2. TypeOK
  BY <1>1, CassetteAssumption DEF Init, TypeOK
<1>3. Recording /\ Saved /\ Replaying /\ Rest
  BY CassetteAssumption DEF Init, Recording, Saved, Replaying, Rest
<1>4. OnlyReplayMisses /\ KnownNeverMisses /\ ReplaysRecording
  BY CassetteAssumption
     DEF Init, OnlyReplayMisses, KnownNeverMisses, ReplaysRecording
<1> QED
  BY <1>2, <1>3, <1>4 DEF IInv

(* An empty tape transcribes silence.                                      *)
LEMMA NothingHeard == Transcribes(<<>>, Silence)
<1> SUFFICES ASSUME NEW k \in Keys
             PROVE  \E g \in [1 .. Len(Silence[k]) -> DOMAIN <<>>] :
                       Indexes(g, <<>>, k, Silence[k])
  BY DEF Transcribes
<1> DEFINE g == [n \in {} |-> n]
<1>1. Silence[k] = <<>> /\ Len(Silence[k]) = 0 /\ 1 .. 0 = {} /\ DOMAIN <<>> = {}
  BY DEF Silence
<1>2. g \in [1 .. Len(Silence[k]) -> DOMAIN <<>>]
  BY <1>1
<1>3. Indexes(g, <<>>, k, Silence[k])
  BY <1>1 DEF Indexes
<1> QED
  BY <1>2, <1>3

LEMMA OpenPreserves ==
  ASSUME IInv, NEW m \in {"record", "replay", "auto"}, Open(m)
  PROVE  IInv'
<1> USE DEF callVars, fileVars
<1>1. /\ mode = None /\ played = {} /\ heard = Silence
      /\ mode' \in {"record", "replay"} /\ opened' \in 0 .. MaxOpened
      /\ mode' = "record" => tape' = <<>>
      /\ mode' = "replay" => tape' = file /\ file \notin {None, Unreadable}
  BY CassetteAssumption DEF Open, Resolved, IInv, Rest, TypeOK
<1>2. /\ UNCHANGED <<file, told, fates, played, pc, attempt, outcome, heard>>
      /\ \A c \in Calls : outcome[c] # "miss"
  BY <1>1, CassetteAssumption DEF Open, IInv, OnlyReplayMisses
<1>3. tape' \in Tapes
  <2>1. <<>> \in Tapes /\ file \in Tapes \cup {None, Unreadable}
    BY DEF IInv, TypeOK, Tapes
  <2> QED
    BY <1>1, <2>1
<1>4. TypeOK'
  BY <1>1, <1>2, <1>3 DEF IInv, TypeOK
<1>5. Recording' /\ Saved'
  BY <1>1, <1>2, NothingHeard DEF IInv, Recording, Saved, Transcribes, Indexes
<1>6. Replaying'
  <2>1. \A k \in Keys : Len(heard'[k]) = 0 /\ Len(told'[k]) \in Nat
    BY <1>1, <1>2 DEF Silence, IInv, TypeOK
  <2>2. PlayedInOrder'
    BY <1>1, <1>2, <2>1 DEF PlayedInOrder
  <2> QED
    BY <1>1, <1>2, <2>2 DEF Replaying
<1>7. Rest' /\ OnlyReplayMisses' /\ KnownNeverMisses'
  BY <1>1, <1>2, CassetteAssumption
     DEF Rest, OnlyReplayMisses, KnownNeverMisses
<1>8. ReplaysRecording'
  BY <1>1, <1>2 DEF ReplaysRecording, Silence
<1> QED
  BY <1>4, <1>5, <1>6, <1>7, <1>8 DEF IInv

(* A step of a session that records keeps the tape a transcript.           *)
LEMMA RecordPreserves ==
  ASSUME IInv, NEW c \in Calls,
         Send(c) \/ (\E answer \in Answers : Receive(c, answer)) \/ Lose(c)
  PROVE  IInv'
<1> USE DEF cassetteVars, fileVars
<1>1. /\ mode = "record" /\ mode' = mode
      /\ UNCHANGED <<file, told, fates, played, opened>>
      /\ \A d \in Calls : outcome[d] # "miss"
      /\ "record" # "replay" /\ "record" # None /\ KeyOf[c] \in Keys
  BY CassetteAssumption
     DEF Send, Receive, Lose, IInv, OnlyReplayMisses, Keys
<1>2. /\ TypeOK' /\ Transcribes(tape, heard)'
      /\ \A d \in Calls : outcome'[d] # "miss"
  <2>1. CASE Send(c)
    <3>1. UNCHANGED <<tape, attempt, outcome, heard>>
      BY <2>1 DEF Send
    <3>2. pc' \in [Calls -> {"idle", "wire", "sleeping", "ended"}]
      BY <2>1 DEF Send, IInv, TypeOK
    <3>3. TypeOK'
      BY <1>1, <3>1, <3>2 DEF IInv, TypeOK
    <3> QED
      BY <1>1, <3>1, <3>3 DEF IInv, Recording
  <2>2. ASSUME NEW answer \in Answers, Receive(c, answer)
        PROVE  /\ TypeOK' /\ Transcribes(tape, heard)'
               /\ \A d \in Calls : outcome'[d] # "miss"
    <3>1. /\ pc' \in [Calls -> {"idle", "wire", "sleeping", "ended"}]
          /\ attempt' \in [Calls -> 0 .. MaxRetries]
          /\ outcome' \in [Calls -> Outcomes \cup {None}]
          /\ heard' \in [Keys -> Seq(Answers)]
          /\ \A d \in Calls : outcome'[d] # "miss"
      BY <1>1, <2>2, HearTypes DEF IInv, Receive
    <3>2. /\ tape' = Append(tape, Interaction(c, answer))
          /\ heard' = [heard EXCEPT ![KeyOf[c]] = Append(@, answer)]
      BY <2>2 DEF Receive, Hear
    <3>3. Transcribes(tape', heard')
      BY <1>1, <3>2, AppendTranscribes DEF IInv, TypeOK, Recording, Interaction
    <3>4. tape' \in Tapes /\ DOMAIN tape \subseteq DOMAIN tape'
      <4>1. Interaction(c, answer) \in Interactions /\ tape \in Seq(Interactions)
        BY <1>1 DEF Interaction, Interactions, IInv, TypeOK, Tapes
      <4> QED
        BY <3>2, <4>1 DEF Tapes
    <3>5. TypeOK'
      BY <1>1, <3>1, <3>4 DEF IInv, TypeOK
    <3> QED
      BY <3>1, <3>3, <3>5
  <2>3. CASE Lose(c)
    <3>1. UNCHANGED <<tape, heard>> /\ Retry(c)
      BY <2>3 DEF Lose
    <3>2. /\ pc' \in [Calls -> {"idle", "wire", "sleeping", "ended"}]
          /\ attempt' \in [Calls -> 0 .. MaxRetries]
          /\ outcome' \in [Calls -> Outcomes \cup {None}]
          /\ \A d \in Calls : outcome'[d] # "miss"
      BY <1>1, <3>1, RetryTypes DEF IInv
    <3>3. TypeOK'
      BY <1>1, <3>1, <3>2 DEF IInv, TypeOK
    <3> QED
      BY <1>1, <3>1, <3>2, <3>3 DEF IInv, Recording
  <2> QED
    BY <2>1, <2>2, <2>3
<1>3. Recording' /\ Saved'
  BY <1>1, <1>2 DEF IInv, Recording, Saved
<1>4. Replaying' /\ Rest'
  BY <1>1, <1>2 DEF Replaying, Rest
<1>5. OnlyReplayMisses' /\ KnownNeverMisses' /\ ReplaysRecording'
  BY <1>1, <1>2 DEF OnlyReplayMisses, KnownNeverMisses, ReplaysRecording
<1> QED
  BY <1>2, <1>3, <1>4, <1>5 DEF IInv

(* A call that gives up leaves the tape and what was heard as they are.    *)
LEMMA GiveUpPreserves ==
  ASSUME IInv, NEW c \in Calls, GiveUp(c)
  PROVE  IInv'
<1>1. /\ UNCHANGED <<file, told, fates, mode, tape, played, heard, opened>>
      /\ Conclude(c, "expired")
  BY DEF GiveUp, cassetteVars, fileVars
<1>2. /\ pc' \in [Calls -> {"idle", "wire", "sleeping", "ended"}]
      /\ attempt' \in [Calls -> 0 .. MaxRetries]
      /\ outcome' \in [Calls -> Outcomes \cup {None}]
      /\ \A d \in Calls : outcome'[d] = "miss" => outcome[d] = "miss"
  BY <1>1, ConcludeTypes DEF IInv, Outcomes
<1>3. TypeOK'
  BY <1>1, <1>2 DEF IInv, TypeOK
<1>4. Recording' /\ Rest' /\ Saved' /\ Replaying'
  BY <1>1 DEF IInv, Recording, Rest, Saved, Replaying, PlayedInOrder
<1>5. OnlyReplayMisses' /\ KnownNeverMisses' /\ ReplaysRecording'
  BY <1>1, <1>2 DEF IInv, OnlyReplayMisses, KnownNeverMisses, ReplaysRecording
<1> QED
  BY <1>3, <1>4, <1>5 DEF IInv

(* A step of a session that replays.                                       *)
LEMMA PlayPreserves ==
  ASSUME IInv, NEW c \in Calls, Play(c)
  PROVE  IInv'
<1>1. PICK i \in find(KeyOf[c]) :
         played' = played \cup {i} /\ Hear(c, tape[i].answer)
  BY DEF Play
<1>2. /\ mode = "replay" /\ mode' = mode
      /\ UNCHANGED <<file, told, fates, tape, opened>>
      /\ "record" # "replay" /\ "replay" # None
  BY CassetteAssumption DEF Play, fileVars
<1>3. i \in DOMAIN tape /\ tape[i].answer \in Answers
  <2>1. i \in DOMAIN tape
    BY <1>1, Finds DEF IInv
  <2>2. tape[i] \in Interactions
    BY <2>1 DEF IInv, TypeOK, Tapes
  <2> QED
    BY <2>1, <2>2 DEF Interactions
<1>4. /\ pc' \in [Calls -> {"idle", "wire", "sleeping", "ended"}]
      /\ attempt' \in [Calls -> 0 .. MaxRetries]
      /\ outcome' \in [Calls -> Outcomes \cup {None}]
      /\ heard' \in [Keys -> Seq(Answers)]
      /\ \A d \in Calls : outcome'[d] = "miss" => outcome[d] = "miss"
  BY <1>1, <1>3, HearTypes DEF IInv
<1>5. TypeOK'
  <2>1. played' \subseteq DOMAIN tape'
    BY <1>1, <1>2, <1>3 DEF IInv, TypeOK
  <2> QED
    BY <1>2, <1>4, <2>1 DEF IInv, TypeOK
<1>6. Recording' /\ Rest' /\ Saved'
  BY <1>2 DEF IInv, Recording, Rest, Saved
<1>7. Replaying'
  BY <1>2, PlayKeepsOrder DEF IInv, Replaying
<1>8. OnlyReplayMisses' /\ KnownNeverMisses'
  BY <1>2, <1>4 DEF IInv, OnlyReplayMisses, KnownNeverMisses
<1> QED
  BY <1>5, <1>6, <1>7, <1>8, PlayKeepsOrder DEF IInv

LEMMA MissPreserves ==
  ASSUME IInv, NEW c \in Calls, Miss(c)
  PROVE  IInv'
<1>1. /\ mode = "replay" /\ mode' = mode
      /\ UNCHANGED <<file, told, fates, tape, played, attempt, heard, opened>>
      /\ "record" # "replay" /\ "replay" # None
      /\ pc' = [pc EXCEPT ![c] = "ended"]
      /\ outcome' = [outcome EXCEPT ![c] = "miss"]
  BY CassetteAssumption DEF Miss, Conclude, cassetteVars, fileVars
<1>2. TypeOK'
  BY <1>1 DEF IInv, TypeOK, Outcomes
<1>3. told[KeyOf[c]] = <<>>
  <2> DEFINE k == KeyOf[c]
  <2>1. k \in Keys /\ told[k] \in Seq(Answers) /\ Matches(k) = {}
    BY Finds DEF Miss, IInv, TypeOK, Keys
  <2>2. PICK g \in [1 .. Len(told[k]) -> DOMAIN tape] : Indexes(g, tape, k, told[k])
    BY <1>1, <2>1 DEF IInv, Replaying, Saved, Transcribes
  <2>3. ~(1 \in 1 .. Len(told[k]))
    BY <2>1, <2>2 DEF Indexes, Matches
  <2>4. Len(told[k]) = 0
    BY <2>1, <2>3
  <2> QED
    BY <2>1, <2>4
<1>4. Recording' /\ Rest' /\ Saved' /\ Replaying'
  BY <1>1 DEF IInv, Recording, Rest, Saved, Replaying, PlayedInOrder
<1>5. OnlyReplayMisses' /\ KnownNeverMisses' /\ ReplaysRecording'
  BY <1>1, <1>3 DEF IInv, TypeOK, OnlyReplayMisses, KnownNeverMisses, ReplaysRecording
<1> QED
  BY <1>2, <1>4, <1>5 DEF IInv

(* The file gets the transcript of the session that records, or is torn.   *)
LEMMA SavePreserves ==
  ASSUME IInv, save
  PROVE  IInv'
<1>1. /\ mode = "record" /\ "record" # "replay" /\ "record" # None
      /\ UNCHANGED <<mode, tape, played, pc, attempt, outcome, heard, opened>>
      /\ file' = tape /\ told' = heard /\ fates' = outcome
  BY CassetteAssumption DEF save, Write, cassetteVars, callVars
<1>2. TypeOK'
  BY <1>1 DEF IInv, TypeOK
<1>3. Recording' /\ Rest' /\ Saved' /\ Replaying'
  BY <1>1 DEF IInv, Recording, Rest, Saved, Replaying
<1>4. OnlyReplayMisses' /\ KnownNeverMisses' /\ ReplaysRecording'
  BY <1>1 DEF IInv, OnlyReplayMisses, KnownNeverMisses, ReplaysRecording
<1> QED
  BY <1>2, <1>3, <1>4 DEF IInv

LEMMA ClosePreserves ==
  ASSUME IInv, Exit \/ Crash
  PROVE  IInv'
<1>1. /\ mode' = None /\ tape' = <<>> /\ played' = {} /\ heard' = Silence
      /\ pc' = [c \in Calls |-> "idle"] /\ attempt' = [c \in Calls |-> 0]
      /\ outcome' = [c \in Calls |-> None] /\ opened' = opened
      /\ "record" # None /\ "replay" # None /\ "miss" # None
  BY CassetteAssumption DEF Exit, Crash, Close
<1>2. \/ mode = "record" /\ file' = tape /\ told' = heard /\ fates' = outcome
      \/ UNCHANGED <<file, told, fates>>
      \/ file' = Unreadable /\ told' = Silence /\ fates' = [c \in Calls |-> None]
  BY DEF Exit, Crash, Write, fileVars
<1>3. Silence \in [Keys -> Seq(Answers)] /\ <<>> \in Tapes /\ 0 \in 0 .. MaxRetries
  BY CassetteAssumption DEF Silence, Tapes
<1>4. /\ file' \in Tapes \cup {None, Unreadable}
      /\ told' \in [Keys -> Seq(Answers)]
      /\ fates' \in [Calls -> Outcomes \cup {None}]
  BY <1>2, <1>3 DEF IInv, TypeOK
<1>5. TypeOK'
  BY <1>1, <1>3, <1>4 DEF IInv, TypeOK
<1>6. Saved'
  BY <1>2 DEF IInv, Recording, Saved
<1>7. Recording' /\ Rest' /\ Replaying'
  BY <1>1 DEF Recording, Rest, Replaying
<1>8. OnlyReplayMisses' /\ KnownNeverMisses' /\ ReplaysRecording'
  BY <1>1 DEF OnlyReplayMisses, KnownNeverMisses, ReplaysRecording
<1> QED
  BY <1>5, <1>6, <1>7, <1>8 DEF IInv

LEMMA StutterPreserves ==
  ASSUME IInv, UNCHANGED vars
  PROVE  IInv'
<1>1. UNCHANGED <<file, mode, tape, played, pc, attempt, outcome, heard, told,
                  fates, opened>>
  BY DEF vars, cassetteVars, callVars, fileVars
<1>2. TypeOK'
  BY <1>1 DEF IInv, TypeOK
<1>3. Recording' /\ Rest' /\ Saved' /\ Replaying'
  BY <1>1 DEF IInv, Recording, Rest, Saved, Replaying, PlayedInOrder
<1>4. OnlyReplayMisses' /\ KnownNeverMisses' /\ ReplaysRecording'
  BY <1>1 DEF IInv, OnlyReplayMisses, KnownNeverMisses, ReplaysRecording
<1> QED
  BY <1>2, <1>3, <1>4 DEF IInv

LEMMA NextInvariant == IInv /\ [Next]_vars => IInv'
<1> SUFFICES ASSUME IInv, [Next]_vars PROVE IInv'
  OBVIOUS
<1>1. ASSUME NEW m \in {"record", "replay", "auto"}, Open(m) PROVE IInv'
  BY <1>1, OpenPreserves
<1>2. ASSUME NEW m \in {"record", "replay", "auto"}, OpenRaises(m) PROVE IInv'
  <2>1. /\ opened' \in 0 .. MaxOpened
        /\ UNCHANGED <<file, mode, tape, played, pc, attempt, outcome, heard,
                       told, fates>>
    BY <1>2, CassetteAssumption
       DEF OpenRaises, IInv, TypeOK, cassetteVars, callVars, fileVars
  <2>2. TypeOK'
    BY <2>1 DEF IInv, TypeOK
  <2>3. Recording' /\ Rest' /\ Saved' /\ Replaying'
    BY <2>1 DEF IInv, Recording, Rest, Saved, Replaying, PlayedInOrder
  <2>4. OnlyReplayMisses' /\ KnownNeverMisses' /\ ReplaysRecording'
    BY <2>1 DEF IInv, OnlyReplayMisses, KnownNeverMisses, ReplaysRecording
  <2> QED
    BY <2>2, <2>3, <2>4 DEF IInv
<1>3. ASSUME NEW c \in Calls,
             Send(c) \/ (\E answer \in Answers : Receive(c, answer)) \/ Lose(c)
      PROVE  IInv'
  BY <1>3, RecordPreserves
<1>4. ASSUME NEW c \in Calls, Play(c) PROVE IInv'
  BY <1>4, PlayPreserves
<1>5. ASSUME NEW c \in Calls, Miss(c) PROVE IInv'
  BY <1>5, MissPreserves
<1>6. ASSUME NEW c \in Calls, GiveUp(c) PROVE IInv'
  BY <1>6, GiveUpPreserves
<1>7. CASE save
  BY <1>7, SavePreserves
<1>8. CASE Exit \/ Crash
  BY <1>8, ClosePreserves
<1>9. CASE Terminated \/ UNCHANGED vars
  BY <1>9, StutterPreserves DEF Terminated
<1> QED
  BY <1>1, <1>2, <1>3, <1>4, <1>5, <1>6, <1>7, <1>8, <1>9 DEF Next

(* The inductive invariant holds in every state of every behaviour.        *)
THEOREM Invariance == Spec => []IInv
BY InitInvariant, NextInvariant, PTL DEF Spec

(* Every variable stays in its range: no call attempts more often than     *)
(* max_retries allows, and _played names recordings that are on the tape.  *)
THEOREM TypeCorrect == Spec => []TypeOK
<1>1. IInv => TypeOK
  BY DEF IInv
<1> QED
  BY <1>1, Invariance, PTL

(* However calls interleave and sessions die, a session that replays hears *)
(* for each request what the recording heard, in that order.               *)
THEOREM AnswersReplayed == Spec => []ReplaysRecording
<1>1. IInv => ReplaysRecording
  BY DEF IInv
<1> QED
  BY <1>1, Invariance, PTL

(* CassetteMiss is raised only for a request the recording holds no answer *)
(* to, however often the request is repeated.                              *)
THEOREM KnownFound == Spec => []KnownNeverMisses
<1>1. IInv => KnownNeverMisses
  BY DEF IInv
<1> QED
  BY <1>1, Invariance, PTL

-----------------------------------------------------------------------------
(* What a call makes of an answer                                          *)
Busy(a) == ~a.zipped /\ a.status = "busy"
Good(a) == ~a.zipped /\ a.status = "ok"

(* A call that heard h and ended with o, or has not ended if o is None: it *)
(* goes on only while it is asked to, and it is the last answer that lets  *)
(* it succeed.                                                             *)
Ending(h, o) ==
  /\ \A n \in 1 .. Len(h) : n < Len(h) \/ o = None => Busy(h[n])
  /\ o = "ok" => Len(h) > 0 /\ Good(h[Len(h)])
  /\ o = "failed" => Len(h) = 0 \/ ~Good(h[Len(h)])

(* A replayed attempt always hears an answer, so a call gives up only at   *)
(* an answer that refuses it or when its attempts are used up.             *)
RunsOut(h) == Len(h) = MaxRetries + 1 \/ (Len(h) > 0 /\ ~Busy(h[Len(h)]))

(* The course of a call that has its request to itself                     *)
Course(c) ==
  /\ Ending(heard[KeyOf[c]], outcome[c])
  /\ outcome[c] = None <=> pc[c] # "ended"
  /\ mode = None => outcome[c] = None /\ attempt[c] = 0
  /\ mode = "record" => Len(heard[KeyOf[c]]) <= MaxRetries + 1
  /\ mode = "record" /\ outcome[c] = None => Len(heard[KeyOf[c]]) <= attempt[c]
  /\ mode = "replay" /\ outcome[c] = None => Len(heard[KeyOf[c]]) = attempt[c]
  /\ mode = "replay" /\ outcome[c] = "failed" => RunsOut(heard[KeyOf[c]])

(* What the file keeps of it                                               *)
Kept(c) ==
  /\ Ending(told[KeyOf[c]], fates[c])
  /\ Len(told[KeyOf[c]]) <= MaxRetries + 1
  /\ fates[c] # "miss"

EndInv == \A c \in Calls : Alone(c) => Course(c) /\ Kept(c)

LEMMA NothingEnds ==
  ASSUME NEW k \in Keys
  PROVE  Silence[k] = <<>> /\ Len(Silence[k]) = 0 /\ Ending(Silence[k], None)
<1>1. Silence[k] = <<>> /\ Len(Silence[k]) = 0
  BY DEF Silence
<1> QED
  BY <1>1, CassetteAssumption DEF Ending

LEMMA InitEnds == Init => EndInv
<1> SUFFICES ASSUME Init, NEW c \in Calls PROVE Course(c) /\ Kept(c)
  BY DEF EndInv
<1>1. /\ KeyOf[c] \in Keys /\ heard = Silence /\ told = Silence /\ mode = None
      /\ pc[c] = "idle" /\ attempt[c] = 0 /\ outcome[c] = None /\ fates[c] = None
  BY DEF Init, Keys
<1> QED
  BY <1>1, NothingEnds, CassetteAssumption DEF Course, Kept

(* A call is no concern of one with another request.                       *)
LEMMA OthersCourse ==
  ASSUME NEW c \in Calls, Course(c) /\ Kept(c), UNCHANGED <<mode, told, fates>>,
         heard'[KeyOf[c]] = heard[KeyOf[c]], outcome'[c] = outcome[c],
         attempt'[c] = attempt[c], pc'[c] = "ended" <=> pc[c] = "ended"
  PROVE  Course(c)' /\ Kept(c)'
  BY DEF Course, Kept

(* A call whose time is up ends with what it has heard until then.         *)
LEMMA ExpireCourse ==
  ASSUME TypeOK, NEW c \in Calls, Course(c), pc[c] # "ended", mode # None,
         Conclude(c, "expired"), heard' = heard, mode' = mode
  PROVE  Course(c)'
<1>1. outcome'[c] = "expired" /\ pc'[c] = "ended" /\ outcome[c] = None
  BY DEF Conclude, TypeOK, Course
<1>2. Ending(heard[KeyOf[c]], "expired")
  BY <1>1, CassetteAssumption DEF Course, Ending
<1> QED
  BY <1>1, <1>2, CassetteAssumption DEF Course

(* An answer ends the call or lets it go on as Ending says.                *)
LEMMA HearCourse ==
  ASSUME TypeOK, NEW c \in Calls, Course(c), pc[c] # "ended", mode # None,
         NEW a \in Answers, Hear(c, a), mode' = mode
  PROVE  Course(c)'
<1> DEFINE k == KeyOf[c]
           h == heard[k]
           g == heard'[k]
           H == Len(h)
<1>1. /\ k \in Keys /\ h \in Seq(Answers) /\ H \in Nat /\ attempt[c] \in 0 .. MaxRetries
      /\ MaxRetries \in Nat /\ a \in AnswerShape
      /\ pc \in [Calls -> {"idle", "wire", "sleeping", "ended"}]
      /\ outcome \in [Calls -> Outcomes \cup {None}] /\ attempt \in [Calls -> 0 .. MaxRetries]
  BY CassetteAssumption DEF TypeOK, Keys
<1>2. /\ outcome[c] = None /\ \A n \in 1 .. H : Busy(h[n])
      /\ mode = "record" => H <= attempt[c]
      /\ mode = "replay" => H = attempt[c]
  BY DEF Course, Ending
<1>3. g = Append(h, a)
  BY <1>1 DEF Hear, TypeOK
<1>4. Len(g) = H + 1 /\ g[H + 1] = a /\ \A n \in 1 .. H : g[n] = h[n]
  BY <1>1, <1>3
<1> HIDE DEF k, h, g, H
<1>5. \A n \in 1 .. Len(g) : n < Len(g) => Busy(g[n])
  BY <1>1, <1>2, <1>4
<1>6. /\ mode = "record" => Len(g) <= MaxRetries + 1
      /\ mode = "replay" => Len(g) = attempt[c] + 1
  BY <1>1, <1>2, <1>4
<1>7. ASSUME NEW o \in {"ok", "failed", "expired"}, Conclude(c, o),
             o = "ok" => Good(a),
             o = "failed" => ~Good(a) /\ (~Busy(a) \/ attempt[c] = MaxRetries)
      PROVE  Course(c)'
  <2>1. outcome'[c] = o /\ pc'[c] = "ended" /\ o # None
    BY <1>1, <1>7, CassetteAssumption DEF Conclude
  <2>2. Len(g) > 0 /\ g[Len(g)] = a
    BY <1>1, <1>4
  <2>3. Ending(g, o)
    BY <1>5, <1>7, <2>1, <2>2 DEF Ending
  <2>4. mode = "replay" /\ o = "failed" => RunsOut(g)
    BY <1>1, <1>6, <1>7, <2>2 DEF RunsOut
  <2> QED
    BY <1>6, <2>1, <2>3, <2>4, CassetteAssumption DEF Course, RunsOut, g, k
<1>8. ASSUME Busy(a), Retry(c) PROVE Course(c)'
  <2>1. CASE Repeat(c)
    <3>1. /\ outcome'[c] = None /\ pc'[c] = "sleeping" /\ attempt'[c] = attempt[c] + 1
      BY <1>1, <1>2, <2>1 DEF Repeat
    <3>2. Ending(g, None)
      <4>1. \A n \in 1 .. Len(g) : Busy(g[n])
        BY <1>1, <1>2, <1>4, <1>8
      <4> QED
        BY <4>1, CassetteAssumption DEF Ending
    <3>3. mode = "record" => Len(g) <= attempt[c] + 1
      BY <1>1, <1>2, <1>4
    <3> QED
      BY <1>6, <3>1, <3>2, <3>3, CassetteAssumption DEF Course, g, k
  <2>2. CASE ~MayRetry(c) /\ Conclude(c, "failed")
    <3>1. attempt[c] = MaxRetries
      BY <1>1, <2>2 DEF MayRetry
    <3>2. ~Good(a)
      BY <1>8 DEF Busy, Good
    <3> QED
      BY <1>7, <2>2, <3>1, <3>2
  <2>3. CASE Conclude(c, "expired")
    BY <1>7, <2>3
  <2> QED
    BY <1>8, <2>1, <2>2, <2>3 DEF Retry
<1>9. \/ ~Good(a) /\ ~Busy(a) /\ Conclude(c, "failed")
      \/ Busy(a) /\ Retry(c)
      \/ Good(a) /\ Conclude(c, "ok")
  BY <1>1 DEF Hear, Good, Busy, AnswerShape
<1> QED
  BY <1>7, <1>8, <1>9

(* An attempt whose exchange breaks adds nothing to what was heard.        *)
LEMMA LoseCourse ==
  ASSUME TypeOK, NEW c \in Calls, Course(c), Lose(c)
  PROVE  Course(c)'
<1> DEFINE h == heard[KeyOf[c]]
<1>1. /\ mode = "record" /\ mode' = mode /\ heard' = heard /\ pc[c] = "wire" /\ Retry(c)
      /\ "record" # "replay" /\ mode # None /\ attempt[c] \in 0 .. MaxRetries /\ MaxRetries \in Nat
      /\ pc \in [Calls -> {"idle", "wire", "sleeping", "ended"}]
      /\ outcome \in [Calls -> Outcomes \cup {None}] /\ attempt \in [Calls -> 0 .. MaxRetries]
      /\ Len(h) \in Nat
  BY CassetteAssumption DEF Lose, TypeOK, cassetteVars, Keys
<1>2. outcome[c] = None /\ (\A n \in 1 .. Len(h) : Busy(h[n])) /\ Len(h) <= attempt[c]
  BY <1>1 DEF Course, Ending
<1> HIDE DEF h
<1>3. CASE Repeat(c)
  <2>1. outcome'[c] = None /\ pc'[c] = "sleeping" /\ attempt'[c] = attempt[c] + 1
    BY <1>1, <1>2, <1>3 DEF Repeat
  <2>2. Len(h) <= attempt[c] + 1 /\ Len(h) <= MaxRetries + 1
    BY <1>1, <1>2
  <2> QED
    BY <1>1, <1>2, <2>1, <2>2, CassetteAssumption DEF Course, Ending, h
<1>4. CASE Conclude(c, "failed")
  <2>1. outcome'[c] = "failed" /\ pc'[c] = "ended"
    BY <1>1, <1>4 DEF Conclude
  <2>2. Len(h) = 0 \/ ~Good(h[Len(h)])
    <3>1. ASSUME Len(h) # 0 PROVE Busy(h[Len(h)])
      BY <1>1, <1>2, <3>1
    <3> QED
      BY <3>1 DEF Busy, Good
  <2>3. Len(h) <= MaxRetries + 1
    BY <1>1, <1>2
  <2>4. Ending(h, "failed")
    BY <1>2, <2>2, CassetteAssumption DEF Ending
  <2> QED
    BY <1>1, <2>1, <2>3, <2>4, CassetteAssumption DEF Course, h
<1>5. CASE Conclude(c, "expired")
  BY <1>1, <1>5, ExpireCourse
<1> QED
  BY <1>1, <1>3, <1>4, <1>5 DEF Retry

(* The steps of one call                                                   *)
LEMMA CallEnds ==
  ASSUME IInv, EndInv, NEW d \in Calls,
         \/ Send(d) \/ (\E answer \in Answers : Receive(d, answer)) \/ Lose(d)
         \/ Play(d) \/ Miss(d) \/ GiveUp(d)
  PROVE  EndInv'
<1> SUFFICES ASSUME NEW c \in Calls, Alone(c) PROVE Course(c)' /\ Kept(c)'
  BY DEF EndInv, Alone
<1>1. /\ mode' = mode /\ mode # None /\ told' = told /\ fates' = fates
      /\ Course(c) /\ Kept(c) /\ TypeOK /\ KeyOf[c] \in Keys
      /\ pc \in [Calls -> {"idle", "wire", "sleeping", "ended"}]
      /\ outcome \in [Calls -> Outcomes \cup {None}] /\ attempt \in [Calls -> 0 .. MaxRetries]
      /\ heard \in [Keys -> Seq(Answers)]
  BY CassetteAssumption
     DEF Send, Receive, Lose, Play, Miss, GiveUp, cassetteVars, fileVars, EndInv, IInv, TypeOK,
     Keys
<1>2. Kept(c)'
  BY <1>1 DEF Kept
<1> SUFFICES Course(c)'
  BY <1>2
<1>3. ASSUME NEW a, Hear(d, a), d # c PROVE Course(c)'
  <2>1. KeyOf[d] # KeyOf[c]
    BY <1>3 DEF Alone
  <2>2. heard'[KeyOf[c]] = heard[KeyOf[c]]
    BY <1>1, <1>3, <2>1 DEF Hear
  <2>3. pc'[c] = pc[c] /\ outcome'[c] = outcome[c] /\ attempt'[c] = attempt[c]
    BY <1>1, <1>3 DEF Hear, Retry, Repeat, Conclude
  <2> QED
    BY <1>1, <2>2, <2>3, OthersCourse
<1>4. CASE Send(d)
  <2>1. UNCHANGED <<heard, attempt, outcome>> /\ pc' = [pc EXCEPT ![d] = "wire"] /\ pc[d] # "ended"
    BY <1>4 DEF Send, Asks
  <2>2. pc'[c] = "ended" <=> pc[c] = "ended"
    BY <1>1, <2>1
  <2> QED
    BY <1>1, <2>1, <2>2, OthersCourse
<1>5. ASSUME NEW a \in Answers, Hear(d, a), pc[d] # "ended" PROVE Course(c)'
  BY <1>1, <1>3, <1>5, HearCourse
<1>6. ASSUME NEW a \in Answers, Receive(d, a) PROVE Course(c)'
  <2>1. Hear(d, a) /\ pc[d] # "ended"
    BY <1>6 DEF Receive
  <2> QED
    BY <1>5, <2>1
<1>7. CASE Play(d)
  <2>1. PICK i \in find(KeyOf[d]) : Hear(d, tape[i].answer)
    BY <1>7 DEF Play
  <2>2. i \in DOMAIN tape
    BY <1>1, Finds
  <2>3. tape[i].answer \in Answers
    <3>1. tape \in Seq(Interactions)
      BY <1>1 DEF TypeOK, Tapes
    <3>2. tape[i] \in Interactions
      BY <2>2, <3>1
    <3> QED
      BY <3>2 DEF Interactions
  <2>4. pc[d] # "ended"
    BY <1>7 DEF Play, Asks
  <2> QED
    BY <1>5, <2>1, <2>3, <2>4
<1>8. CASE Lose(d)
  <2>1. CASE d = c
    BY <1>1, <1>8, <2>1, LoseCourse
  <2>2. CASE d # c
    <3>1. heard' = heard /\ pc'[c] = pc[c] /\ outcome'[c] = outcome[c] /\ attempt'[c] = attempt[c]
      BY <1>1, <1>8, <2>2 DEF Lose, Retry, Repeat, Conclude
    <3> QED
      BY <1>1, <3>1, OthersCourse
  <2> QED
    BY <2>1, <2>2
<1>9. CASE Miss(d)
  <2>1. /\ UNCHANGED <<heard, attempt>> /\ pc[d] # "ended" /\ mode = "replay"
        /\ pc' = [pc EXCEPT ![d] = "ended"] /\ outcome' = [outcome EXCEPT ![d] = "miss"]
    BY <1>9 DEF Miss, Asks, Conclude
  <2>2. CASE d = c
    <3>1. outcome'[c] = "miss" /\ pc'[c] = "ended" /\ outcome[c] = None
      BY <1>1, <2>1, <2>2 DEF Course
    <3>2. Ending(heard[KeyOf[c]], "miss")
      BY <1>1, <3>1, CassetteAssumption DEF Course, Ending
    <3>3. /\ mode' = "replay" /\ heard' = heard
          /\ outcome'[c] # None /\ outcome'[c] # "failed" /\ mode' # None /\ mode' # "record"
      BY <1>1, <2>1, <3>1, CassetteAssumption
    <3> QED
      BY <3>1, <3>2, <3>3 DEF Course
  <2>3. CASE d # c
    <3>1. pc'[c] = pc[c] /\ outcome'[c] = outcome[c]
      BY <1>1, <2>1, <2>3
    <3> QED
      BY <1>1, <2>1, <3>1, OthersCourse
  <2> QED
    BY <2>2, <2>3
<1>10. CASE GiveUp(d)
  <2>1. /\ Conclude(d, "expired") /\ heard' = heard /\ pc[d] # "ended"
    BY <1>10 DEF GiveUp, Asks
  <2>2. CASE d = c
    BY <1>1, <2>1, <2>2, ExpireCourse
  <2>3. CASE d # c
    <3>1. pc'[c] = pc[c] /\ outcome'[c] = outcome[c] /\ attempt'[c] = attempt[c]
      BY <1>1, <2>1, <2>3 DEF Conclude
    <3> QED
      BY <1>1, <2>1, <3>1, OthersCourse
  <2> QED
    BY <2>2, <2>3
<1> QED
  BY <1>4, <1>6, <1>7, <1>8, <1>9, <1>10

(* A session begins with nothing heard, and ends with it.                  *)
LEMMA SessionEnds ==
  ASSUME IInv, EndInv,
         \/ \E m \in {"record", "replay", "auto"} : Open(m) \/ OpenRaises(m)
         \/ save \/ Exit \/ Crash
  PROVE  EndInv'
<1> SUFFICES ASSUME NEW c \in Calls, Alone(c) PROVE Course(c)' /\ Kept(c)'
  BY DEF EndInv, Alone
<1>1. /\ Course(c) /\ Kept(c) /\ KeyOf[c] \in Keys /\ MaxRetries \in Nat
      /\ Len(heard[KeyOf[c]]) \in Nat /\ "record" # "replay"
  BY CassetteAssumption DEF EndInv, Keys, IInv, TypeOK
<1>2. ASSUME NEW m \in {"record", "replay", "auto"}, Open(m) PROVE Course(c)' /\ Kept(c)'
  <2>1. /\ mode = None /\ mode' # None
        /\ UNCHANGED <<pc, attempt, outcome, told, fates, heard>>
    BY <1>2, CassetteAssumption DEF Open, Resolved, callVars, fileVars
  <2>2. heard = Silence /\ outcome[c] = None /\ attempt[c] = 0
    BY <1>1, <2>1 DEF IInv, Rest, Course
  <2> QED
    BY <1>1, <2>1, <2>2, NothingEnds, CassetteAssumption DEF Course, Kept
<1>3. ASSUME NEW m \in {"record", "replay", "auto"}, OpenRaises(m) PROVE Course(c)' /\ Kept(c)'
  BY <1>1, <1>3 DEF OpenRaises, cassetteVars, callVars, fileVars, Course, Kept
<1>4. ASSUME mode = "record", Write PROVE Kept(c)'
  <2>1. outcome[c] # "miss"
    BY <1>4 DEF IInv, OnlyReplayMisses
  <2> QED
    BY <1>1, <1>4, <2>1 DEF Write, Course, Kept
<1>5. CASE save
  BY <1>1, <1>4, <1>5 DEF save, cassetteVars, callVars, Course
<1>6. ASSUME Close PROVE Course(c)'
  <2>1. /\ mode' = None /\ heard' = Silence /\ pc'[c] = "idle" /\ attempt'[c] = 0
        /\ outcome'[c] = None
    BY <1>6 DEF Close
  <2> QED
    BY <1>1, <2>1, NothingEnds, CassetteAssumption DEF Course
<1>7. CASE Exit
  <2>1. Kept(c)'
    BY <1>1, <1>4, <1>7 DEF Exit, fileVars, Kept
  <2> QED
    BY <1>6, <1>7, <2>1 DEF Exit
<1>8. CASE Crash
  <2>1. CASE told' = Silence /\ fates' = [d \in Calls |-> None]
    <3>1. fates'[c] = None
      BY <2>1
    <3> QED
      BY <1>1, <1>6, <1>8, <2>1, <3>1, NothingEnds, CassetteAssumption DEF Crash, Kept
  <2>2. CASE UNCHANGED fileVars
    BY <1>1, <1>6, <1>8, <2>2 DEF Crash, fileVars, Kept
  <2> QED
    BY <1>8, <2>1, <2>2 DEF Crash
<1> QED
  BY <1>2, <1>3, <1>5, <1>7, <1>8

LEMMA NextEnds == IInv /\ EndInv /\ [Next]_vars => EndInv'
<1> SUFFICES ASSUME IInv, EndInv, [Next]_vars PROVE EndInv'
  OBVIOUS
<1>1. CASE Terminated \/ UNCHANGED vars
  BY <1>1 DEF Terminated, vars, cassetteVars, callVars, fileVars, EndInv, Alone, Course, Kept
<1> QED
  BY <1>1, CallEnds, SessionEnds DEF Next

(* Where the replay stops, the recording had stopped too: at the first     *)
(* answer that is not busy, which is the last one told, or at the end of   *)
(* the attempts, which the recording had no more of.                       *)
LEMMA EndsTheSame == IInv /\ EndInv => SameEnd
<1> SUFFICES ASSUME IInv, EndInv, mode = "replay", NEW c \in Calls, Alone(c),
                    told[KeyOf[c]] # <<>>, outcome[c] \notin {None, "expired"},
                    fates[c] \notin {None, "expired"}
             PROVE  outcome[c] = fates[c]
  BY DEF SameEnd
<1> DEFINE k == KeyOf[c]
           t == told[k]
           h == heard[k]
<1>1. /\ k \in Keys /\ t \in Seq(Answers) /\ h \in Seq(Answers)
      /\ Len(h) \in Nat /\ Len(t) \in Nat /\ MaxRetries \in Nat
      /\ outcome[c] \in {"ok", "failed", "miss"} /\ fates[c] \in {"ok", "failed", "miss"}
  BY CassetteAssumption DEF IInv, TypeOK, Keys, Outcomes
<1>2. Len(t) >= 1
  <2>1. Len(t) # 0
    BY <1>1
  <2> QED
    BY <1>1, <2>1
<1>3. outcome[c] \in {"ok", "failed"} /\ fates[c] \in {"ok", "failed"}
  BY <1>1 DEF IInv, KnownNeverMisses, EndInv, Kept
<1>4. \A n \in 1 .. Len(h) : h[n] = IF n <= Len(t) THEN t[n] ELSE t[1]
  BY <1>1 DEF IInv, ReplaysRecording
<1>5. /\ Ending(t, fates[c]) /\ Len(t) <= MaxRetries + 1
      /\ Ending(h, outcome[c])
      /\ outcome[c] = "failed" => RunsOut(h)
  BY DEF EndInv, Course, Kept
<1>6. \A a : ~(Busy(a) /\ Good(a))
  BY DEF Busy, Good
<1> HIDE DEF k, t, h
<1>7. /\ \A n \in 1 .. Len(t) : n < Len(t) => Busy(t[n])
      /\ \A n \in 1 .. Len(h) : n < Len(h) => Busy(h[n])
  BY <1>5 DEF Ending
<1>8. ASSUME outcome[c] = "ok" PROVE fates[c] # "failed"
  <2> DEFINE n == Len(h)
  <2>1. n >= 1 /\ n \in 1 .. Len(h) /\ Good(h[n])
    BY <1>1, <1>5, <1>8 DEF Ending
  <2>2. n <= Len(t)
    <3>1. ASSUME ~(n <= Len(t)) PROVE FALSE
      <4>1. 1 \in 1 .. Len(h) /\ 1 < Len(h) /\ h[1] = t[1] /\ h[n] = t[1]
        BY <1>1, <1>2, <1>4, <2>1, <3>1
      <4>2. Busy(h[1])
        BY <1>7, <4>1
      <4> QED
        BY <1>6, <2>1, <4>1, <4>2
    <3> QED
      BY <3>1
  <2>3. n = Len(t) /\ Good(t[Len(t)])
    <3>1. h[n] = t[n] /\ n \in 1 .. Len(t)
      BY <1>1, <1>4, <2>1, <2>2
    <3>2. ~(n < Len(t))
      BY <1>6, <1>7, <2>1, <3>1
    <3>3. n = Len(t)
      BY <1>1, <2>2, <3>2
    <3> QED
      BY <2>1, <3>1, <3>3
  <2> QED
    BY <1>2, <1>5, <2>3 DEF Ending
<1>9. ASSUME outcome[c] = "failed" PROVE fates[c] # "ok"
  <2> SUFFICES ASSUME fates[c] = "ok" PROVE FALSE
    OBVIOUS
  <2>1. Len(t) \in 1 .. Len(t) /\ Good(t[Len(t)])
    BY <1>1, <1>2, <1>5 DEF Ending
  <2>2. ASSUME Len(t) < Len(h) PROVE FALSE
    <3>1. Len(t) \in 1 .. Len(h) /\ h[Len(t)] = t[Len(t)]
      BY <1>1, <1>2, <1>4, <2>2
    <3> QED
      BY <1>6, <1>7, <2>1, <2>2, <3>1
  <2>3. RunsOut(h)
    BY <1>5, <1>9
  <2>4. Len(h) <= Len(t) /\ Len(h) >= 1
    BY <1>1, <2>2, <2>3 DEF RunsOut
  <2>5. Len(h) \in 1 .. Len(h) /\ Len(h) \in 1 .. Len(t) /\ h[Len(h)] = t[Len(h)]
    BY <1>1, <1>4, <2>4
  <2>6. ~Good(h[Len(h)])
    BY <1>1, <1>5, <1>9, <2>4 DEF Ending
  <2>7. Len(h) < Len(t)
    BY <1>1, <2>1, <2>4, <2>5, <2>6
  <2>8. Busy(h[Len(h)])
    BY <1>7, <2>5, <2>7
  <2> QED
    BY <1>1, <1>5, <2>3, <2>7, <2>8 DEF RunsOut
<1> QED
  BY <1>3, <1>8, <1>9

(* Any call that has its request to itself and that neither session cuts   *)
(* off at a deadline ends in replay as it ended when it was recorded,      *)
(* however often it was retried, whatever exchanges broke while recording, *)
(* and whatever the other calls of either session did.                     *)
THEOREM SameEnds == Spec => []SameEnd
  BY EndsTheSame, InitInvariant, NextInvariant, InitEnds, NextEnds, PTL DEF Spec
=============================================================================
