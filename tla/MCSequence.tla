----------------------------- MODULE MCSequence -----------------------------
(* SequenceAnalysis over four compute operations, of which up to three exist *)
(* at the start, and one implicitly sequenced operation.                    *)
EXTENDS Sequence, FiniteSets, TLC

CONSTANTS MaxInitial

MCInitialSequences ==
  {s \in UNION {[1 .. n -> ComputeOps] : n \in 0 .. MaxInitial} :
     Cardinality({s[i] : i \in DOMAIN s}) = Len(s)}


(* Operations are interchangeable: no action names one.                     *)
MCSymmetry == Permutations(ComputeOps)
=============================================================================
