---------------------------- MODULE MCBoundedMap ----------------------------
(* Instances of BoundedMap for TLC; the .cfg files give the constants.     *)
EXTENDS BoundedMap
=============================================================================
