------------------------------ MODULE MCLedger ------------------------------
(* Instances of Ledger for TLC: a cheap model, one with cached input at a  *)
(* discount, and one without a price.                                      *)
EXTENDS Ledger

MCPrices ==
  [mini  |-> [input |-> 1, output |-> 1, cached |-> None],
   large |-> [input |-> 2, output |-> 3, cached |-> 1],
   local |-> None]

(* Two reports a server may send, no report at all, which counts as one of *)
(* no tokens, and two reports it should not send.                          *)
MCUsages ==
  {Tokens(1, 0, 0), Tokens(1, 1, 1), Tokens(0, 0, 0), Tokens(0, 0, 1), Tokens(-1, 1, 0)}
=============================================================================
