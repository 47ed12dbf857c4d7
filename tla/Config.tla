------------------------------- MODULE Config -------------------------------
(***************************************************************************)
(* ClientConfig.from_env of src/llm_client_kit/config.py: the settings of  *)
(* a client, gathered from the arguments, the process environment and two  *)
(* files.                                                                  *)
(*                                                                         *)
(* A file is the sequence of its assignments; comments and lines without a *)
(* "=" are left out of it.  A mapping is a function on the names it sets.  *)
(*                                                                         *)
(* Mutants, each before what it mutates: EnvUnderFiles, Truthy.            *)
(***************************************************************************)
EXTENDS Functions, Sequences

CONSTANTS
  None,     \* Python's None
  Default,  \* the defaults of base_url and model; api_key's is ""
  Slashed   \* URLs that end in "/", each with what rstrip leaves of it

Settings == {"base_url", "api_key", "model"}

VariableOf ==
  [base_url |-> "OPENAI_BASE_URL", api_key |-> "OPENAI_API_KEY",
   model |-> "OPENAI_MODEL"]

VARIABLES
  shared,    \* assignments in $MAWORKS_SECRETS/.env.shared, None if there is none
  secrets,   \* MAWORKS_SECRETS in the process environment, or None
  dotenv,    \* assignments in ./.env, None if there is none
  environ,   \* the rest of the process environment
  overrides  \* explicit arguments; None is not given

sources == <<shared, secrets, dotenv, environ, overrides>>

-----------------------------------------------------------------------------
(* dict.update                                                             *)
Updated(f, g) ==
  [x \in DOMAIN f \cup DOMAIN g |-> IF x \in DOMAIN g THEN g[x] ELSE f[x]]

Empty == [x \in {} |-> ""]

(* Line by line, so that the last assignment to a name counts              *)
Lines(lines) ==
  [x \in {lines[i].name : i \in DOMAIN lines} |->
     lines[CHOOSE i \in DOMAIN lines :
             /\ lines[i].name = x
             /\ \A j \in DOMAIN lines : lines[j].name = x => j <= i].value]

_load_env_file(file) == IF file = None THEN Empty ELSE Lines(file)

SharedSettings == IF secrets \in {None, ""} THEN Empty ELSE _load_env_file(shared)

EnvUnderFiles == Updated(environ, Updated(SharedSettings, _load_env_file(dotenv)))
Env == Updated(Updated(SharedSettings, _load_env_file(dotenv)), environ)

Get(name, default) == IF name \in DOMAIN Env THEN Env[name] ELSE default

rstrip(url) == IF url \in DOMAIN Slashed THEN Slashed[url] ELSE url

FromEnvironment ==
  [base_url |-> rstrip(Get("OPENAI_BASE_URL", Default.base_url)),
   api_key  |-> Get("OPENAI_API_KEY", ""),
   model    |-> Get("OPENAI_MODEL", Default.model)]

Truthy(value) == value \notin {None, ""}
Given(value) == value # None

from_env ==
  Updated(FromEnvironment,
          [s \in {x \in Settings : Given(overrides[x])} |-> overrides[s]])

-----------------------------------------------------------------------------
(* "Resolution order, first hit wins": explicit arguments, the process     *)
(* environment, ./.env, the shared file -- a name that is set to nothing   *)
(* is a hit -- and a URL loses its slashes unless it is an argument.       *)
SetBy(file, s) ==
  IF file = None THEN {} ELSE {i \in DOMAIN file : file[i].name = VariableOf[s]}

LastOf(file, s) ==
  file[CHOOSE i \in SetBy(file, s) : \A j \in SetBy(file, s) : j <= i].value

FirstHit(s) ==
  LET found == IF VariableOf[s] \in DOMAIN environ THEN environ[VariableOf[s]]
               ELSE IF SetBy(dotenv, s) # {} THEN LastOf(dotenv, s)
               ELSE IF secrets \notin {None, ""} /\ SetBy(shared, s) # {}
               THEN LastOf(shared, s)
               ELSE IF s = "api_key" THEN "" ELSE Default[s]
  IN IF overrides[s] # None THEN overrides[s]
     ELSE IF s = "base_url" THEN rstrip(found) ELSE found

FirstHitWins == \A s \in Settings : from_env[s] = FirstHit(s)
=============================================================================
