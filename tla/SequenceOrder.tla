--------------------------- MODULE SequenceOrder ---------------------------
(***************************************************************************)
(* What SequenceAnalysis (sequence.h, sequence.cc) promises to the passes   *)
(* that edit a program while they hold the analysis: the compute operations *)
(* of the program are totally ordered, inserting an operation fits it into  *)
(* one gap of that order, erasing one takes it out, and neither ever        *)
(* reorders the operations that stay.  The order is a set of pairs, so that *)
(* nothing here speaks of vectors, indices or sequence numbers.             *)
(***************************************************************************)
CONSTANT ComputeOps

VARIABLES
  live,     \* the compute operations the analysis knows
  before    \* {<<a, b>>: a is sequenced before b}

vars == <<live, before>>

IsStrictTotalOrder(S, R) ==
  /\ R \subseteq S \X S
  /\ \A a \in S : <<a, a>> \notin R
  /\ \A a, b \in S : a # b => (<<a, b>> \in R \/ <<b, a>> \in R)
  /\ \A a, b, c \in S : <<a, b>> \in R /\ <<b, c>> \in R => <<a, c>> \in R

(* A gap of the order: the operations on its left.                         *)
IsCut(D) ==
  /\ D \subseteq live
  /\ \A a \in D, b \in live : <<b, a>> \in before => b \in D

Init == live \subseteq ComputeOps /\ IsStrictTotalOrder(live, before)

Insert(op) ==
  /\ op \notin live
  /\ live' = live \union {op}
  /\ \E D \in SUBSET live :
       /\ IsCut(D)
       /\ before' = before \union (D \X {op}) \union ({op} \X (live \ D))

Erase(op) ==
  /\ op \in live
  /\ live' = live \ {op}
  /\ before' = before \intersect (live' \X live')

Next == \E op \in ComputeOps : Insert(op) \/ Erase(op)

Spec == Init /\ [][Next]_vars
=============================================================================
