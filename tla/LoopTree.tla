------------------------------ MODULE LoopTree ------------------------------
(***************************************************************************)
(* What a loop structure is.  A loop nest is the sequence of the names in a *)
(* `loop_nest` attribute, outermost first; a program lists the nests of its *)
(* compute operations in execution order.  The analyses and passes of       *)
(* loop_nest.cc, sequence.cc and transforms/ rely on the nests of a program *)
(* being those of a tree of loops.                                          *)
(***************************************************************************)
EXTENDS Integers, Sequences

(* Loop nest b starts with the first n loops of loop nest a.                *)
SharesLoops(a, b, n) ==
  /\ n <= Len(a) /\ n <= Len(b)
  /\ \A k \in 1 .. n : a[k] = b[k]

(* A loop is open from its first operation to its last, always at the same  *)
(* place inside the same loops.                                             *)
IsTree(nests) ==
  \A i, j \in DOMAIN nests :
    \A p \in DOMAIN nests[i], q \in DOMAIN nests[j] :
      nests[i][p] = nests[j][q] =>
        /\ p = q
        /\ \A k \in i .. j : SharesLoops(nests[i], nests[k], p)
=============================================================================
