-------------------------- MODULE MCIntroduceLoops --------------------------
(* Every tree of loops over NumOps operations with up to MaxDepth nested     *)
(* loops, with reads and a loop-carried value between the operations.        *)
EXTENDS IntroduceLoops

CONSTANTS
  NumOps, MaxDepth,
  InnerUsers,      \* may an operation in an inner loop read an fby of an outer one?
  AnyIter          \* may a loop iterate on any dimension, as before normalization?

NameOrder == <<"A", "B", "C">>
MCLoopNames == Range(NameOrder)

MCOps == 1 .. NumOps

Iters(n) == IF AnyIter THEN {p \in [1 .. n -> 0 .. n - 1] : \A i, j \in 1 .. n : p[i] = p[j] => i = j}
            ELSE {[k \in 1 .. n |-> k - 1]}

MCNests ==
  UNION {{[k \in 1 .. n |-> [name |-> names[k], iter |-> iters[k]]] :
            names \in {f \in [1 .. n -> LoopNames] : \A p, q \in 1 .. n : f[p] = f[q] => p = q},
            iters \in Iters(n)} : n \in 0 .. MaxDepth}

Trees == {t \in [MCOps -> MCNests] : IsTree([i \in MCOps |-> Names(t[i])])}

Inside(t, u, v) == SharesLoops(Names(t[v]), Names(t[u]), Len(t[v]))

(* An operation reads earlier ones.  At most two reads are enough to have a *)
(* reader queued by each of its producers and a producer by its readers.    *)
MCReads == {{}, {<<2, 1>>}, {<<3, 2>>, <<2, 1>>}}

MCFbys(t) ==
  {{}} \union
  {{[value |-> v, user |-> u, init |-> i, projected |-> p]} :
     v \in {v \in MCOps : t[v] # <<>>}, u \in MCOps, i \in {NullOp, 1}, p \in BOOLEAN}

IsFby(t, f) ==
  /\ f.user <= f.value
  /\ IF InnerUsers THEN Inside(t, f.user, f.value) ELSE Names(t[f.user]) = Names(t[f.value])
  /\ f.init # NullOp =>
       /\ f.init < f.user /\ ~ f.projected
       /\ ~ SharesLoops(Names(t[f.value]), Names(t[f.init]), Len(t[f.value]))

(* Renaming loops changes nothing: the names come in order.                 *)
IsCanonical(t) ==
  LET uses == [i \in MCOps |-> {t[i][k].name : k \in DOMAIN t[i]}]
  IN  \A n \in DOMAIN NameOrder \ {1} : \A i \in MCOps :
        NameOrder[n] \in uses[i] =>
          \/ \E j \in 1 .. i - 1 : NameOrder[n - 1] \in uses[j]
          \/ t[i][1].name = NameOrder[n - 1]

MCPrograms ==
  UNION {[order : {[i \in MCOps |-> i]}, nests : {t}, reads : MCReads, fbys : {{}},
          unlowerable : {{}}, supported : {TRUE}]
         \union
         [order : {[i \in MCOps |-> i]}, nests : {t}, reads : {{}},
          fbys : {s \in MCFbys(t) : \A f \in s : IsFby(t, f)},
          unlowerable : {{}}, supported : {TRUE}]
         \union
         [order : {[i \in MCOps |-> i]}, nests : {t}, reads : {{}}, fbys : {{}},
          unlowerable : {{NameOrder[2]}}, supported : BOOLEAN]
         : t \in {t \in Trees : IsCanonical(t)}}

ASSUME NormalPrograms == ~ AnyIter /\ ~ InnerUsers => \A p \in Programs : IsNormal(p)
=============================================================================
