----------------------------- MODULE MCLoopNest -----------------------------
(* Every way to put NumOps operations into loops of up to MaxDepth nested    *)
(* loops, one name of which collides with a generated one.                  *)
EXTENDS LoopNest

CONSTANTS NumOps, MaxDepth, UserNames, MaxRank

MCLoopNames == UserNames \union {FreshNames[i] : i \in DOMAIN FreshNames}

MCFreshNames == <<"loop_0", "loop_1", "loop_2", "loop_3", "loop_4", "loop_5", "loop_6">>

MCNests ==
  {nest \in UNION {[1 .. n -> UserNames] : n \in 0 .. MaxDepth} :
     \A p, q \in DOMAIN nest : nest[p] = nest[q] => p = q}

(* Operations without a nest have the rank of their place in the program;   *)
(* the second may read an fby whose value is the first or the last one.      *)
MCOps(i) ==
  [nest : MCNests \union {NullNest}, rank : {i % (MaxRank + 1)},
   carried : {<<>>} \union (IF i = 2 THEN {1, NumOps} \X (1 .. MaxDepth) ELSE {})]

MCPrograms == MCOps(1) \X MCOps(2) \X MCOps(3) \X MCOps(4)
=============================================================================
