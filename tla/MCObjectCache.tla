---------------------------- MODULE MCObjectCache ----------------------------
(***************************************************************************)
(* Instances of ObjectCache for TLC: threads and objects are alike.        *)
(***************************************************************************)
EXTENDS ObjectCache, TLC

Alike == Permutations(Threads) \cup Permutations(Objects)
=============================================================================
