----------------------------- MODULE MCCassette -----------------------------
(* Instances of Cassette for TLC: a server that may ask for another        *)
(* attempt, succeed, or succeed with a compressed body, which fails a call *)
(* as an answer does that refuses for good.                                *)
EXTENDS Cassette, TLC

CONSTANTS c1, c2, c3, k1, k2

Answer(s, z) == [status |-> s, zipped |-> z]

PlainAnswers == {Answer("ok", FALSE), Answer("busy", FALSE)}
MCAnswers    == PlainAnswers \cup {Answer("ok", TRUE)}

(* Two calls make the same request and a third one another.                *)
MCKeyOf == [c \in {c1, c2, c3} |-> IF c = c3 THEN k2 ELSE k1]

Symmetry == Permutations({c1, c2})

(* Two calls make the same request.                                        *)
SameKeyOf == [c \in {c1, c2} |-> k1]
=============================================================================
