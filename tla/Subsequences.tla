---------------------------- MODULE Subsequences ----------------------------
(***************************************************************************)
(* What is left of a sequence when only some of its positions are kept.    *)
(* Several loops of the pipeline framework copy the elements they keep, in *)
(* order, to a new list: this module says what such a loop produces.  It   *)
(* is written without recursion so that facts about it can be proved.      *)
(***************************************************************************)
EXTENDS Integers, Sequences, FiniteSets

(***************************************************************************)
(* The members of a finite set of numbers, in increasing order.            *)
(***************************************************************************)
IsEnumeration(f, S) ==
  /\ f \in [1 .. Cardinality(S) -> S]
  /\ \A i, j \in 1 .. Cardinality(S) : i < j => f[i] < f[j]

Enumeration(S) ==
  CHOOSE f \in [1 .. Cardinality(S) -> S] : IsEnumeration(f, S)

(***************************************************************************)
(* The elements of the sequence q at the positions in S, in order.         *)
(***************************************************************************)
Subsequence(q, S) ==
  LET position == Enumeration(S)
  IN  [k \in 1 .. Cardinality(S) |-> q[position[k]]]
=============================================================================
