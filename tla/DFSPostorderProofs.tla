------------------------- MODULE DFSPostorderProofs -------------------------
(***************************************************************************)
(* Proofs about DFSPostorderTraversal, for any graph.  The stack being a    *)
(* path of unvisited nodes and the visited nodes being closed under         *)
(* predecessors carry each other: a node leaves the stack only when its     *)
(* predecessors are visited, and a child found unvisited is either new to   *)
(* the path or closes a cycle on it.                                        *)
(***************************************************************************)
EXTENDS DFSPostorder, VectorLemmas

(* The visited nodes hold no cycle: each was visited after its predecessors. *)
VisitedAcyclic == \A S \in SUBSET visited : ~ Cyclic(S)

(* What the status of the iterator says about the rest of its state.        *)
StatusAgrees ==
  /\ status # "end" => root \in Nodes
  /\ status = "at" /\ current # NullNode => current \in visited
  /\ AtCycle =>
       /\ stack # <<>>
       /\ \E i \in DOMAIN graph.adjacency[Top] :
            IsFirstUnvisited(Top, i) /\ OnStack(Child(Top, i))
  /\ status = "end" => \A k \in DOMAIN graph.keys : graph.keys[k] \in visited

IInv ==
  /\ DFSTypeOK
  /\ StackIsPath
  /\ PredecessorsFirst
  /\ RootComesLast
  /\ VisitedAcyclic
  /\ StatusAgrees

-----------------------------------------------------------------------------
(* The keys and the adjacency lists of the graph hold nodes only.           *)
LEMMA GraphTyped ==
  ASSUME DFSTypeOK
  PROVE  /\ graph.keys \in Seq(Nodes)
         /\ graph.adjacency \in [Nodes -> Seq(Nodes)]
         /\ \A n \in Nodes : graph.adjacency[n] \in Seq(Nodes)
         /\ \A n \in Nodes : \A i \in DOMAIN graph.adjacency[n] : Child(n, i) \in Nodes
         /\ \A k \in DOMAIN graph.keys : graph.keys[k] \in Nodes
<1>1. /\ graph.keys \in Seq(Nodes)
      /\ graph.adjacency \in [Nodes -> Seq(Nodes)]
  BY DEF DFSTypeOK, IsGraph
<1>2. \A n \in Nodes : graph.adjacency[n] \in Seq(Nodes)
  BY <1>1
<1>3. QED
  BY <1>1, <1>2 DEF Child

(* The top of a non-empty stack is a node.                                  *)
LEMMA TopTyped ==
  ASSUME DFSTypeOK, stack # <<>>
  PROVE  /\ Len(stack) \in Nat \ {0}
         /\ DOMAIN stack = 1 .. Len(stack)
         /\ Top = stack[Len(stack)]
         /\ Top \in Nodes
         /\ OnStack(Top)
BY DEF DFSTypeOK, Top, OnStack

(* The constructor of the iterator establishes the invariant.               *)
LEMMA InitIInv == DFSInit => IInv
<1> SUFFICES ASSUME NEW g \in Graphs, Begin(g) PROVE IInv
  BY DEF DFSInit
<1>1. IsGraph(g) /\ g.keys \in Seq(Nodes)
  BY GraphsAssumption DEF IsGraph
<1>2. g.keys # <<>> => g.keys[1] \in Nodes
  BY <1>1
<1>3. DFSTypeOK
  <2>1. CASE g.keys = <<>>
    BY <1>1, <2>1 DEF Begin, DFSTypeOK
  <2>2. CASE g.keys # <<>>
    <3>1. stack = <<g.keys[1]>> /\ root = g.keys[1] /\ status = "visiting"
      BY <2>2 DEF Begin
    <3>2. stack \in Seq(Nodes)
      BY <1>2, <2>2, <3>1
    <3>3. QED
      BY <1>1, <1>2, <2>2, <3>1, <3>2 DEF Begin, DFSTypeOK
  <2>3. QED
    BY <2>1, <2>2
<1>4. StackIsPath
  <2>1. CASE g.keys = <<>>
    BY <2>1 DEF Begin, StackIsPath
  <2>2. CASE g.keys # <<>>
    <3>1. stack = <<root>> /\ visited = {}
      BY <2>2 DEF Begin
    <3>2. Len(stack) = 1 /\ stack[1] = root /\ DOMAIN stack = {1}
      BY <3>1
    <3>3. QED
      BY <3>1, <3>2 DEF StackIsPath
  <2>3. QED
    BY <2>1, <2>2
<1>5. PredecessorsFirst /\ VisitedAcyclic
  BY DEF Begin, PredecessorsFirst, VisitedAcyclic, Cyclic
<1>6. RootComesLast
  BY DEF Begin, RootComesLast
<1>7. StatusAgrees
  BY <1>2 DEF Begin, StatusAgrees, AtCycle
<1>8. QED
  BY <1>3, <1>4, <1>5, <1>6, <1>7 DEF IInv

(* Popping the top of the stack.                                            *)
LEMMA FrontElements ==
  ASSUME NEW S, NEW s \in Seq(S), s # <<>>
  PROVE  /\ SubSeq(s, 1, Len(s) - 1) \in Seq(S)
         /\ Len(SubSeq(s, 1, Len(s) - 1)) = Len(s) - 1
         /\ \A k \in 1 .. Len(s) - 1 : SubSeq(s, 1, Len(s) - 1)[k] = s[k]
<1>1. Len(s) \in Nat \ {0}
  OBVIOUS
<1> DEFINE n == Len(s) - 1
<1>2. n \in 0 .. Len(s)
  BY <1>1
<1> HIDE DEF n
<1>3. /\ SubSeq(s, 1, n) \in Seq(S) /\ Len(SubSeq(s, 1, n)) = n
      /\ \A k \in 1 .. n : SubSeq(s, 1, n)[k] = s[k]
  BY <1>2, SubSeqProperties, ElementOfSeq
<1>4. QED
  BY <1>3 DEF n

(* Stopping at the top of the stack, all successors done, keeps it.         *)
LEMMA ReturnIInv ==
  ASSUME IInv, Return
  PROVE  IInv'
<1>1. /\ stack # <<>>
      /\ Len(stack) \in Nat \ {0}
      /\ DOMAIN stack = 1 .. Len(stack)
      /\ Top = stack[Len(stack)]
      /\ Top \in Nodes
  BY TopTyped DEF IInv, RootComesLast, Return
<1>2. /\ stack' \in Seq(Nodes)
      /\ Len(stack') = Len(stack) - 1
      /\ DOMAIN stack' = 1 .. Len(stack) - 1
      /\ \A k \in 1 .. Len(stack) - 1 : stack'[k] = stack[k]
  <2>1. stack \in Seq(Nodes) /\ stack' = SubSeq(stack, 1, Len(stack) - 1)
    BY DEF Return, IInv, DFSTypeOK
  <2>2. /\ SubSeq(stack, 1, Len(stack) - 1) \in Seq(Nodes)
        /\ Len(SubSeq(stack, 1, Len(stack) - 1)) = Len(stack) - 1
        /\ \A k \in 1 .. Len(stack) - 1 : SubSeq(stack, 1, Len(stack) - 1)[k] = stack[k]
    BY <1>1, <2>1, FrontElements
  <2>3. QED
    BY <2>1, <2>2
<1>3. /\ visited' = visited \union {Top}
      /\ current' = Top
      /\ status' = "at"
      /\ graph' = graph /\ root' = root
      /\ AllChildrenVisited(Top)
  BY DEF Return
<1>4. Top \notin visited /\ Top # NullNode
  BY <1>1, NodesAssumption DEF IInv, StackIsPath
<1>5. ASSUME NEW i \in 1 .. Len(stack) - 1
      PROVE  stack[i] # Top /\ stack[i] \notin visited
  <2> DEFINE n == Len(stack)
  <2>1. n \in Nat \ {0}
    BY <1>1
  <2>2. i \in 1 .. n - 1
    OBVIOUS
  <2> HIDE DEF n
  <2>3. i \in 1 .. n /\ n \in 1 .. n /\ i # n
    BY <2>1, <2>2
  <2>4. DOMAIN stack = 1 .. n /\ Top = stack[n]
    BY <1>1 DEF n
  <2>5. QED
    BY <2>3, <2>4 DEF IInv, StackIsPath
<1>6. DFSTypeOK'
  BY <1>1, <1>2, <1>3 DEF DFSTypeOK, IInv
<1>7. StackIsPath'
  <2>1. ASSUME NEW i \in 1 .. Len(stack') - 1
        PROVE  \E j \in DOMAIN graph.adjacency[stack'[i]] :
                 graph.adjacency[stack'[i]][j] = stack'[i + 1]
    <3>1. stack'[i] = stack[i] /\ stack'[i + 1] = stack[i + 1] /\ i \in 1 .. Len(stack) - 1
      BY <1>1, <1>2
    <3>2. QED
      BY <3>1 DEF IInv, StackIsPath, Child
  <2>2. \A i, j \in DOMAIN stack' : stack'[i] = stack'[j] => i = j
    BY <1>1, <1>2 DEF IInv, StackIsPath
  <2>3. \A i \in DOMAIN stack' : stack'[i] \notin visited'
    BY <1>2, <1>3, <1>5
  <2>4. stack' # <<>> => stack'[1] = root'
    <3>1. ASSUME stack' # <<>> PROVE stack'[1] = root'
      <4>1. Len(stack') # 0
        BY <1>2, <3>1
      <4>2. 1 \in 1 .. Len(stack) - 1
        BY <1>1, <1>2, <4>1
      <4>3. QED
        BY <1>1, <1>2, <1>3, <4>2 DEF IInv, StackIsPath
    <3>2. QED
      BY <3>1
  <2>5. QED
    BY <1>3, <2>1, <2>2, <2>3, <2>4 DEF StackIsPath, Child
<1>8. PredecessorsFirst'
  BY <1>3 DEF IInv, PredecessorsFirst, AllChildrenVisited, Child
<1>9. RootComesLast'
  <2>1. stack' = <<>> <=> Len(stack) = 1
    BY <1>1, <1>2
  <2>2. Len(stack) = 1 => Top = root
    BY <1>1 DEF IInv, StackIsPath
  <2>3. Len(stack) # 1 => Top # root
    BY <1>1 DEF IInv, StackIsPath
  <2>4. QED
    BY <1>3, <2>1, <2>2, <2>3 DEF RootComesLast
<1>10. VisitedAcyclic'
  <2> SUFFICES ASSUME NEW S \in SUBSET visited', Cyclic(S)'
               PROVE  FALSE
    BY DEF VisitedAcyclic
  <2>1. /\ S # {}
        /\ \A n \in S : \E i \in DOMAIN graph.adjacency[n] : graph.adjacency[n][i] \in S
    BY <1>3 DEF Cyclic, Child
  <2> DEFINE T == S \ {Top}
  <2>2. \A n \in T : \A i \in DOMAIN graph.adjacency[n] :
          graph.adjacency[n][i] \in visited /\ graph.adjacency[n][i] # Top
    BY <1>3, <1>4 DEF IInv, PredecessorsFirst, AllChildrenVisited, Child
  <2>3. \A n \in T : \E i \in DOMAIN graph.adjacency[n] : graph.adjacency[n][i] \in T
    BY <2>1, <2>2
  <2>4. T \in SUBSET visited
    BY <1>3
  <2>5. CASE T = {}
    <3>1. S = {Top}
      BY <2>1, <2>5
    <3>2. \A i \in DOMAIN graph.adjacency[Top] : graph.adjacency[Top][i] # Top
      BY <1>3, <1>4 DEF AllChildrenVisited, Child
    <3>3. QED
      BY <2>1, <3>1, <3>2
  <2>6. CASE T # {}
    BY <2>3, <2>4, <2>6 DEF IInv, VisitedAcyclic, Cyclic, Child
  <2>7. QED
    BY <2>5, <2>6
<1>11. StatusAgrees'
  BY <1>3, <1>4 DEF IInv, StatusAgrees, AtCycle, Return
<1>12. QED
  BY <1>6, <1>7, <1>8, <1>9, <1>10, <1>11 DEF IInv

(* Giving up on a cycle keeps it: the stack stays as it is.                 *)
LEMMA HitCycleIInv ==
  ASSUME IInv, HitCycle
  PROVE  IInv'
<1>1. /\ UNCHANGED <<graph, visited, stack, root>>
      /\ current' = NullNode /\ status' = "at" /\ status = "visiting"
  BY DEF HitCycle
<1>2. stack # <<>>
  BY <1>1 DEF IInv, RootComesLast
<1>3. DFSTypeOK' /\ StackIsPath' /\ PredecessorsFirst' /\ VisitedAcyclic'
  BY <1>1 DEF IInv, DFSTypeOK, StackIsPath, PredecessorsFirst, VisitedAcyclic,
              AllChildrenVisited, Cyclic, Child
<1>4. RootComesLast'
  BY <1>1 DEF RootComesLast
<1>5. StatusAgrees'
  BY <1>1, <1>2 DEF HitCycle, IInv, StatusAgrees, AtCycle, Top, OnStack,
                    IsFirstUnvisited, Child
<1>6. QED
  BY <1>3, <1>4, <1>5 DEF IInv

(* Pushing the first unvisited successor keeps it.                          *)
LEMMA DescendIInv ==
  ASSUME IInv, Descend
  PROVE  IInv'
<1>1. PICK i \in DOMAIN graph.adjacency[Top] :
        /\ IsFirstUnvisited(Top, i)
        /\ ~ OnStack(Child(Top, i))
        /\ stack' = Append(stack, Child(Top, i))
  BY DEF Descend
<1> DEFINE child == Child(Top, i)
<1>2. /\ UNCHANGED <<graph, visited, root, current, status>>
      /\ status = "visiting"
  BY DEF Descend
<1>3. /\ stack # <<>> /\ stack \in Seq(Nodes)
      /\ Len(stack) \in Nat \ {0}
      /\ DOMAIN stack = 1 .. Len(stack)
      /\ Top = stack[Len(stack)]
      /\ Top \in Nodes
  BY <1>2, TopTyped DEF IInv, RootComesLast, DFSTypeOK
<1>4. child \in Nodes /\ child \notin visited
  BY <1>1, <1>3, GraphTyped DEF IInv, IsFirstUnvisited
<1>5. \A k \in 1 .. Len(stack) : stack[k] # child
  BY <1>1, <1>3 DEF OnStack
<1>6. child = graph.adjacency[Top][i]
  BY DEF Child
<1> HIDE DEF child
<1>7. /\ stack' \in Seq(Nodes)
      /\ Len(stack') = Len(stack) + 1
      /\ DOMAIN stack' = 1 .. Len(stack) + 1
      /\ \A k \in 1 .. Len(stack) : stack'[k] = stack[k]
      /\ stack'[Len(stack) + 1] = child
  <2>1. stack' = Append(stack, child)
    BY <1>1 DEF child
  <2>2. QED
    BY <1>3, <1>4, <2>1
<1>8. DFSTypeOK'
  BY <1>2, <1>7 DEF IInv, DFSTypeOK
<1>9. StackIsPath'
  <2>1. ASSUME NEW k \in 1 .. Len(stack') - 1
        PROVE  \E j \in DOMAIN graph.adjacency[stack'[k]] :
                 graph.adjacency[stack'[k]][j] = stack'[k + 1]
    <3>1. CASE k = Len(stack)
      <4>1. stack'[k] = Top /\ stack'[k + 1] = child
        BY <1>3, <1>7, <3>1
      <4>2. i \in DOMAIN graph.adjacency[Top] /\ graph.adjacency[Top][i] = child
        BY <1>6
      <4>3. QED
        BY <4>1, <4>2
    <3>2. CASE k # Len(stack)
      <4>1. /\ k \in 1 .. Len(stack) /\ k + 1 \in 1 .. Len(stack)
            /\ k \in 1 .. Len(stack) - 1
        <5> DEFINE n == Len(stack)
        <5>1. n \in Nat
          BY <1>3
        <5>2. k \in 1 .. (n + 1) - 1 /\ k # n
          BY <1>7, <3>2
        <5> HIDE DEF n
        <5>3. k \in 1 .. n /\ k + 1 \in 1 .. n /\ k \in 1 .. n - 1
          BY <5>1, <5>2
        <5>4. QED
          BY <5>3 DEF n
      <4>2. stack'[k] = stack[k] /\ stack'[k + 1] = stack[k + 1]
        BY <1>7, <4>1, Zenon
      <4>3. QED
        BY <4>1, <4>2 DEF IInv, StackIsPath, Child
    <3>3. QED
      BY <3>1, <3>2
  <2>2. \A k, l \in DOMAIN stack' : stack'[k] = stack'[l] => k = l
    BY <1>3, <1>5, <1>7 DEF IInv, StackIsPath
  <2>3. \A k \in DOMAIN stack' : stack'[k] \notin visited'
    <3>1. \A k \in 1 .. Len(stack) : stack[k] \notin visited
      BY <1>3 DEF IInv, StackIsPath
    <3>2. \A k \in 1 .. Len(stack) + 1 : k \in 1 .. Len(stack) \/ k = Len(stack) + 1
      BY <1>3
    <3>3. QED
      BY <1>2, <1>4, <1>7, <3>1, <3>2
  <2>4. stack'[1] = root'
    BY <1>2, <1>3, <1>7 DEF IInv, StackIsPath
  <2>5. QED
    BY <1>2, <2>1, <2>2, <2>3, <2>4 DEF StackIsPath, Child
<1>10. PredecessorsFirst' /\ VisitedAcyclic'
  BY <1>2 DEF IInv, PredecessorsFirst, VisitedAcyclic, AllChildrenVisited, Cyclic, Child
<1>11. RootComesLast'
  BY <1>2, <1>3, <1>7 DEF IInv, RootComesLast
<1>12. StatusAgrees'
  BY <1>2 DEF IInv, StatusAgrees, AtCycle
<1>13. QED
  BY <1>8, <1>9, <1>10, <1>11, <1>12 DEF IInv

(* Going on below the root pushes nothing: the root is still on the stack.  *)
LEMMA ResumeIInv ==
  ASSUME IInv, Resume
  PROVE  IInv'
<1>1. /\ status = "at" /\ current # NullNode /\ current # root
      /\ stack' = Pushed(root)
      /\ status' = "visiting"
      /\ UNCHANGED <<graph, visited, root, current>>
  BY DEF Resume
<1>2. stack # <<>> /\ stack[1] = root
  BY <1>1 DEF IInv, RootComesLast, StackIsPath
<1>3. OnStack(root)
  <2>1. 1 \in DOMAIN stack
    BY <1>2, TopTyped DEF IInv
  <2>2. QED
    BY <1>2, <2>1 DEF OnStack
<1>4. stack' = stack
  BY <1>1, <1>3 DEF Pushed
<1>5. DFSTypeOK' /\ StackIsPath' /\ PredecessorsFirst' /\ VisitedAcyclic'
  BY <1>1, <1>4 DEF IInv, DFSTypeOK, StackIsPath, PredecessorsFirst, VisitedAcyclic,
              AllChildrenVisited, Cyclic, Child
<1>6. RootComesLast'
  BY <1>1, <1>2, <1>4 DEF RootComesLast
<1>7. StatusAgrees'
  BY <1>1 DEF IInv, StatusAgrees, AtCycle
<1>8. QED
  BY <1>5, <1>6, <1>7 DEF IInv

(* A new root starts from an empty stack.                                   *)
LEMMA NextRootIInv ==
  ASSUME IInv, NextRoot
  PROVE  IInv'
<1>1. PICK k \in DOMAIN graph.keys :
        /\ graph.keys[k] \notin visited
        /\ root' = graph.keys[k]
        /\ stack' = Pushed(graph.keys[k])
  BY DEF NextRoot
<1> DEFINE key == graph.keys[k]
<1>2. /\ status = "at" /\ current # NullNode /\ current = root
      /\ status' = "visiting"
      /\ UNCHANGED <<graph, visited, current>>
  BY DEF NextRoot
<1>3. stack = <<>>
  BY <1>2 DEF IInv, RootComesLast
<1>4. key \in Nodes
  BY <1>1, GraphTyped DEF IInv
<1>5. /\ key \notin visited
      /\ root' = key
      /\ stack' = Append(<<>>, key)
  BY <1>1, <1>3 DEF Pushed, OnStack
<1> HIDE DEF key
<1>6. /\ stack' \in Seq(Nodes)
      /\ Len(stack') = 1 /\ DOMAIN stack' = {1}
      /\ stack'[1] = key
  BY <1>4, <1>5
<1>7. DFSTypeOK'
  BY <1>2, <1>4, <1>5, <1>6 DEF IInv, DFSTypeOK
<1>8. StackIsPath'
  BY <1>2, <1>5, <1>6 DEF StackIsPath
<1>9. PredecessorsFirst' /\ VisitedAcyclic'
  BY <1>2 DEF IInv, PredecessorsFirst, VisitedAcyclic, AllChildrenVisited, Cyclic, Child
<1>10. RootComesLast'
  BY <1>2, <1>6 DEF RootComesLast
<1>11. StatusAgrees'
  BY <1>2, <1>4, <1>5 DEF StatusAgrees, AtCycle
<1>12. QED
  BY <1>7, <1>8, <1>9, <1>10, <1>11 DEF IInv

(* Reaching the end, every key visited, keeps it.                           *)
LEMMA FinishIInv ==
  ASSUME IInv, Finish
  PROVE  IInv'
<1>1. /\ status = "at" /\ current # NullNode /\ current = root
      /\ \A k \in DOMAIN graph.keys : graph.keys[k] \in visited
      /\ status' = "end" /\ current' = NullNode
      /\ UNCHANGED <<graph, visited, stack, root>>
  BY DEF Finish
<1>2. DFSTypeOK' /\ StackIsPath' /\ PredecessorsFirst' /\ VisitedAcyclic'
  BY <1>1 DEF IInv, DFSTypeOK, StackIsPath, PredecessorsFirst, VisitedAcyclic,
              AllChildrenVisited, Cyclic, Child
<1>3. RootComesLast'
  BY <1>1 DEF IInv, RootComesLast
<1>4. StatusAgrees'
  BY <1>1 DEF StatusAgrees, AtCycle
<1>5. QED
  BY <1>2, <1>3, <1>4 DEF IInv

(* Every step of the traversal keeps the invariant.                         *)
LEMMA NextIInv == IInv /\ [DFSNext]_dfsVars => IInv'
<1> SUFFICES ASSUME IInv, [DFSNext]_dfsVars PROVE IInv'
  OBVIOUS
<1>1. CASE VisitDFSPostorder
  BY <1>1, ReturnIInv, HitCycleIInv, DescendIInv DEF VisitDFSPostorder
<1>2. CASE Increment
  BY <1>2, ResumeIInv, NextRootIInv, FinishIInv DEF Increment
<1>3. CASE UNCHANGED dfsVars
  BY <1>3 DEF dfsVars, IInv, DFSTypeOK, StackIsPath, PredecessorsFirst,
              VisitedAcyclic, RootComesLast, StatusAgrees, AtCycle, Top,
              AllChildrenVisited, Cyclic, Child, OnStack, IsFirstUnvisited
<1>4. QED
  BY <1>1, <1>2, <1>3 DEF DFSNext

-----------------------------------------------------------------------------
(* The stack, the visited set and current_ stay well typed on any graph.    *)
THEOREM TraversalTypeCorrect == DFSSpec => []DFSTypeOK
<1>1. IInv => DFSTypeOK
  BY DEF IInv
<1>2. QED
  BY <1>1, InitIInv, NextIInv, PTL DEF DFSSpec

(* The explicit stack stays a simple path of nodes not returned yet.        *)
THEOREM TraversalStackIsPath == DFSSpec => []StackIsPath
<1>1. IInv => StackIsPath
  BY DEF IInv
<1>2. QED
  BY <1>1, InitIInv, NextIInv, PTL DEF DFSSpec

(* The traversal returns a node after all its predecessors.                 *)
THEOREM TraversalPredecessorsFirst == DFSSpec => []PredecessorsFirst
<1>1. IInv => PredecessorsFirst
  BY DEF IInv
<1>2. QED
  BY <1>1, InitIInv, NextIInv, PTL DEF DFSSpec

(* The code after the loop of VisitDFSPostorder is unreachable.             *)
THEOREM TraversalRootComesLast == DFSSpec => []RootComesLast
<1>1. IInv => RootComesLast
  BY DEF IInv
<1>2. QED
  BY <1>1, InitIInv, NextIInv, PTL DEF DFSSpec

(* When current_ is null, the stack from the repeated child on is a cycle.  *)
LEMMA ReportedCycle ==
  ASSUME IInv, AtCycle
  PROVE  /\ \E p \in DOMAIN stack : IsCycleStart(p)
         /\ LET cycle == FindCycleOnStack
            IN  \A k \in DOMAIN cycle :
                  \E i \in DOMAIN graph.adjacency[cycle[k]] :
                    Child(cycle[k], i) = cycle[IF k = Len(cycle) THEN 1 ELSE k + 1]
<1>1. /\ stack # <<>>
      /\ \E i \in DOMAIN graph.adjacency[Top] :
           IsFirstUnvisited(Top, i) /\ OnStack(Child(Top, i))
  BY DEF IInv, StatusAgrees
<1>2. PICK i \in DOMAIN graph.adjacency[Top] :
        IsFirstUnvisited(Top, i) /\ OnStack(Child(Top, i))
  BY <1>1
<1>3. PICK q \in DOMAIN stack : stack[q] = Child(Top, i)
  BY <1>2 DEF OnStack
<1>4. \A j \in 1 .. i - 1 : ~ OnStack(Child(Top, j))
  BY <1>2 DEF IsFirstUnvisited, OnStack, IInv, StackIsPath
<1>5. IsCycleStart(q)
  BY <1>2, <1>3, <1>4 DEF IsCycleStart
<1> DEFINE p == CHOOSE r \in DOMAIN stack : IsCycleStart(r)
           N == Len(stack)
           cycle == SubSeq(stack, p, N)
<1>6. p \in DOMAIN stack /\ IsCycleStart(p)
  BY <1>5
<1>7. FindCycleOnStack = cycle
  BY DEF FindCycleOnStack
<1>8. /\ stack \in Seq(Nodes) /\ N \in Nat \ {0}
      /\ DOMAIN stack = 1 .. N /\ Top = stack[N]
  BY <1>1, TopTyped DEF IInv, DFSTypeOK
<1>9. PICK c \in DOMAIN graph.adjacency[Top] : stack[p] = Child(Top, c)
  BY <1>6 DEF IsCycleStart
<1>10. ASSUME NEW k \in 1 .. N - 1
       PROVE  \E j \in DOMAIN graph.adjacency[stack[k]] : Child(stack[k], j) = stack[k + 1]
  BY DEF IInv, StackIsPath
<1> HIDE DEF p, N
<1>11. p \in 1 .. N
  BY <1>6, <1>8
<1>12. /\ Len(cycle) = N - p + 1
       /\ DOMAIN cycle = 1 .. N - p + 1
       /\ \A k \in 1 .. N - p + 1 : cycle[k] = stack[p + k - 1]
  <2>1. \A k \in p .. N : stack[k] \in Nodes
    BY <1>8, <1>11, ElementOfSeq DEF N
  <2>2. /\ cycle \in Seq(Nodes) /\ Len(cycle) = N - p + 1
        /\ \A k \in 1 .. N - p + 1 : cycle[k] = stack[p + k - 1]
    BY <1>8, <1>11, <2>1, SubSeqProperties
  <2>3. QED
    BY <2>2
<1> HIDE DEF cycle
<1>13. ASSUME NEW k \in DOMAIN cycle
       PROVE  \E j \in DOMAIN graph.adjacency[cycle[k]] :
                Child(cycle[k], j) = cycle[IF k = Len(cycle) THEN 1 ELSE k + 1]
  <2>1. CASE k = Len(cycle)
    <3>1. /\ 1 \in 1 .. N - p + 1 /\ p + 1 - 1 = p
          /\ k \in 1 .. N - p + 1 /\ p + k - 1 = N
      BY <1>8, <1>11, <1>12, <2>1
    <3>2. cycle[k] = Top /\ cycle[1] = stack[p]
      BY <1>8, <1>12, <3>1
    <3>3. QED
      BY <1>9, <2>1, <3>2
  <2>2. CASE k # Len(cycle)
    <3> DEFINE m == p + k - 1
    <3>1. /\ k \in 1 .. N - p + 1 /\ k + 1 \in 1 .. N - p + 1
          /\ m \in 1 .. N - 1 /\ p + (k + 1) - 1 = m + 1
      <4>1. k \in 1 .. N - p + 1 /\ k # N - p + 1
        BY <1>12, <2>2
      <4>2. N \in Nat /\ p \in 1 .. N
        BY <1>8, <1>11
      <4>3. QED
        BY <4>1, <4>2
    <3>2. cycle[k] = stack[m] /\ cycle[k + 1] = stack[m + 1]
      BY <1>12, <3>1
    <3>3. QED
      <4> HIDE DEF m
      <4>1. PICK j \in DOMAIN graph.adjacency[stack[m]] : Child(stack[m], j) = stack[m + 1]
        BY <1>10, <3>1
      <4>2. (IF k = Len(cycle) THEN 1 ELSE k + 1) = k + 1
        BY <2>2
      <4>3. QED
        BY <3>2, <4>1, <4>2
  <2>3. QED
    BY <2>1, <2>2
<1>14. QED
  BY <1>5, <1>7, <1>13

(* A cycle lies within the keys, and the visited nodes have none.           *)
LEMMA EndIsAcyclic ==
  ASSUME IInv, status = "end", NEW S \in SUBSET Nodes
  PROVE  ~ Cyclic(S)
<1> SUFFICES ASSUME Cyclic(S) PROVE FALSE
  OBVIOUS
<1>1. ASSUME NEW n \in S
      PROVE  n \in visited
  <2>1. graph.adjacency[n] # <<>>
    BY DEF Cyclic
  <2>2. PICK k \in DOMAIN graph.keys : graph.keys[k] = n
    BY <2>1 DEF IInv, DFSTypeOK, IsGraph
  <2>3. QED
    BY <2>2 DEF IInv, StatusAgrees
<1>2. QED
  BY <1>1 DEF IInv, VisitedAcyclic

(* A traversal reports a cycle only with a cycle of the graph in hand, and  *)
(* ends only on graphs that have none, after returning every key.           *)
THEOREM TraversalVerdictIsRight == DFSSpec => []VerdictIsRight
<1>1. IInv => VerdictIsRight
  <2> SUFFICES ASSUME IInv PROVE VerdictIsRight
    OBVIOUS
  <2>1. status = "end" =>
          /\ \A k \in DOMAIN graph.keys : graph.keys[k] \in visited
          /\ \A S \in SUBSET Nodes : ~ Cyclic(S)
    BY EndIsAcyclic DEF IInv, StatusAgrees
  <2>2. QED
    BY <2>1, ReportedCycle DEF VerdictIsRight
<1>2. QED
  BY <1>1, InitIInv, NextIInv, PTL DEF DFSSpec

=============================================================================
