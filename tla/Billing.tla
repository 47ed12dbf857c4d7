------------------------------- MODULE Billing -------------------------------
(***************************************************************************)
(* What a response costs: the parts of src/llm_client_kit/transport.py     *)
(* that read a response (Usage, Completion) and of cost.py that price it   *)
(* (ModelPrice, CostLedger.record).                                        *)
(*                                                                         *)
(* A response is a record.  choices is "some" when it has a list of        *)
(* objects, "none" when the body is no JSON object with a nonempty list of *)
(* choices, and "odd" when it has one that from_payload trips over; model  *)
(* and usage are None when the server left them out.                       *)
(*                                                                         *)
(* Money is exact, as Decimal keeps it: prices are whole micro-dollars a   *)
(* token, which is dollars per million tokens.                             *)
(*                                                                         *)
(* Mutants: RecordAsReported, ConfiguredModel, each before what it mutates.*)
(***************************************************************************)
EXTENDS Integers

CONSTANTS
  Prices,  \* [model -> price record, or None for an unpriced model]
  Strict,  \* CostLedger.strict
  None     \* Python's None

Models == DOMAIN Prices

PriceShape    == [input : Nat, output : Nat, cached : Nat \cup {None}]
UsageShape    == [prompt : Int, completion : Int, cached : Int]
ResponseShape == [choices : {"some", "none", "odd"}, model : Models \cup {None},
                  usage : UsageShape \cup {None}]

Tokens(p, c, k) == [prompt |-> p, completion |-> c, cached |-> k]

RecordAsReported(model, u) ==
  IF Prices[model] = None /\ Strict THEN "KeyError" ELSE None

(* What record raises: the counts are checked first, then the price, then  *)
(* the counts against each other -- a model costed at zero skips the last. *)
RecordError(model, u) ==
  IF \E n \in {u.prompt, u.completion, u.cached} : n < 0 THEN "ValueError"
  ELSE IF Prices[model] = None
  THEN IF Strict THEN "KeyError" ELSE None
  ELSE IF u.cached > u.prompt THEN "ValueError" ELSE None

CachedRate(price) == IF price.cached = None THEN price.input ELSE price.cached

cost_usd(price, u) ==
  price.input * (u.prompt - u.cached)
    + CachedRate(price) * u.cached
    + price.output * u.completion

Cost(model, u) ==
  IF Prices[model] = None THEN 0 ELSE cost_usd(Prices[model], u)

-----------------------------------------------------------------------------
(* Completion.from_payload raises before anything is recorded.             *)
ShapeError(r) ==
  IF r.choices = "none" THEN "ResponseShapeError"
  ELSE IF r.choices = "odd" THEN "ParseError" ELSE None

(* Usage.from_payload: what is left out counts as zero.                    *)
UsageOf(r) == IF r.usage = None THEN Tokens(0, 0, 0) ELSE r.usage

ConfiguredModel(r, configured) == configured

(* completion.model or self.config.model                                   *)
ChargedModel(r, configured) == IF r.model = None THEN configured ELSE r.model
=============================================================================
