----------------------------- MODULE MCSnapshot -----------------------------
(* Two keys, so that a snapshot can miss one and mix moments of the two.     *)
EXTENDS Snapshot, TLC

Symmetric == Permutations(Keys)
============================================================================
