------------------------------- MODULE MCChat -------------------------------
(* Instances of Chat for TLC.                                              *)
EXTENDS Chat

CONSTANTS Date  \* a Retry-After header in HTTP-date form

MCDeadlines == {None, 0, 2, 3, 5}
MCHeaders   == {None, Date, -1, 1, 4}
=============================================================================
