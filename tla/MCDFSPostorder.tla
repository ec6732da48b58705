--------------------------- MODULE MCDFSPostorder ---------------------------
(* Every graph of NumNodes nodes in which a node has up to MaxPredecessors   *)
(* predecessors, itself included, in any order.  The keys come in one order: *)
(* another order is another naming of the nodes.                            *)
EXTENDS DFSPostorder

CONSTANTS NumNodes, MaxPredecessors

MCNodes == 1 .. NumNodes

MCLists ==
  {s \in UNION {[1 .. n -> MCNodes] : n \in 0 .. MaxPredecessors} :
     \A i, j \in DOMAIN s : s[i] = s[j] => i = j}

MCGraphs ==
  [keys : {[k \in MCNodes |-> k]}, adjacency : [MCNodes -> MCLists]]
    \union {[keys |-> <<>>, adjacency |-> [n \in MCNodes |-> <<>>]]}
=============================================================================
