----------------------------- MODULE MCChatMany -----------------------------
(* Instances of ChatMany for TLC: a server that answers from a cheap or a  *)
(* dear model, may leave out the model or the usage, may answer from a     *)
(* model without a price, and may answer with something else altogether.   *)
EXTENDS ChatMany

MCPrices ==
  [mini  |-> [input |-> 1, output |-> 1, cached |-> None],
   large |-> [input |-> 2, output |-> 3, cached |-> 1],
   local |-> None]

Answer(model, usage) == [choices |-> "some", model |-> model, usage |-> usage]
NoAnswer(choices) == [choices |-> choices, model |-> None, usage |-> None]

MCResponses ==
  {Answer("large", Tokens(2, 0, 1)), Answer(None, Tokens(1, 0, 0)),
   Answer("local", None), NoAnswer("odd")}

Paid == {Answer("mini", Tokens(2, 0, 0))}

MCDeadlines == {2}
NoDeadline  == {None}
NoHeader    == {None}
=============================================================================
