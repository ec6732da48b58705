---------------------------- MODULE DFSPostorder ----------------------------
(***************************************************************************)
(* DFSPostorderTraversal (sequence.cc): the iterator over a predecessor     *)
(* graph that both FindEdgesToCut and ComputeDefaultSequence are built on.  *)
(* It keeps an explicit stack, returns a node once all its predecessors     *)
(* were returned, and points at null when it runs into a cycle.             *)
(*                                                                          *)
(* One action is one iteration of the do-while loop of VisitDFSPostorder,   *)
(* or one increment of the iterator.  The order of keys and of each         *)
(* adjacency list decides everything, as in ConcreteOpGraph.                *)
(***************************************************************************)
EXTENDS Integers, Sequences

CONSTANTS
  Nodes,
  NullNode,   \* OpTy(), the null operation
  Graphs      \* the graphs to traverse: [keys, adjacency]

ASSUME NodesAssumption == NullNode \notin Nodes

(* keys_ lists each inserted node once; lookup gives any other node the     *)
(* empty adjacency list.                                                    *)
IsGraph(g) ==
  /\ g.keys \in Seq(Nodes)
  /\ g.adjacency \in [Nodes -> Seq(Nodes)]
  /\ \A n \in Nodes :
       (\A k \in DOMAIN g.keys : g.keys[k] # n) => g.adjacency[n] = <<>>

ASSUME GraphsAssumption == \A g \in Graphs : IsGraph(g)

VARIABLES
  graph,     \* container_->graph_
  visited,   \* state_.visited
  stack,     \* state_.stack
  root,      \* root_
  current,   \* current_, what the iterator points at
  status     \* "visiting": inside VisitDFSPostorder, "at": between two
             \* increments, "end": SetEmpty was called

traversal == <<visited, stack, root, current, status>>
dfsVars == <<graph, visited, stack, root, current, status>>

OnStack(n) == \E i \in DOMAIN stack : stack[i] = n
Child(n, i) == graph.adjacency[n][i]
Top == stack[Len(stack)]

(* The child the loop over the predecessors of n stops at.                  *)
IsFirstUnvisited(n, i) ==
  /\ i \in DOMAIN graph.adjacency[n]
  /\ Child(n, i) \notin visited
  /\ \A j \in 1 .. i - 1 : Child(n, j) \in visited

AllChildrenVisited(n) == \A i \in DOMAIN graph.adjacency[n] : Child(n, i) \in visited

(* SetVector::insert leaves a node that is already on the stack alone.      *)
Pushed(n) == IF OnStack(n) THEN stack ELSE Append(stack, n)

AtCycle == status = "at" /\ current = NullNode

-----------------------------------------------------------------------------
(* The iterator is constructed over g.                                      *)
Begin(g) ==
  /\ graph = g
  /\ visited = {}
  /\ current = NullNode
  /\ IF g.keys = <<>>
     THEN stack = <<>> /\ root = NullNode /\ status = "end"
     ELSE stack = <<g.keys[1]>> /\ root = g.keys[1] /\ status = "visiting"

(* A loop over the graph starts again with a new iterator over g.           *)
BeginAgain(g) ==
  /\ graph' = g
  /\ visited' = {}
  /\ current' = NullNode
  /\ IF graph'.keys = <<>>
     THEN stack' = <<>> /\ root' = NullNode /\ status' = "end"
     ELSE stack' = <<graph'.keys[1]>> /\ root' = graph'.keys[1] /\ status' = "visiting"

(* A faulty Return: the nodes that wait are forgotten.                      *)
ReturnAndForget ==
  /\ status = "visiting"
  /\ AllChildrenVisited(Top)
  /\ visited' = visited \union {Top}
  /\ stack' = <<>>
  /\ current' = Top
  /\ status' = "at"
  /\ UNCHANGED <<graph, root>>

(* All children of the node on top are visited: it is its turn.             *)
Return ==
  /\ status = "visiting"
  /\ AllChildrenVisited(Top)
  /\ visited' = visited \union {Top}
  /\ stack' = SubSeq(stack, 1, Len(stack) - 1)
  /\ current' = Top
  /\ status' = "at"
  /\ UNCHANGED <<graph, root>>

(* The first unvisited child waits on the stack for the node on top.        *)
HitCycle ==
  /\ status = "visiting"
  /\ \E i \in DOMAIN graph.adjacency[Top] :
       IsFirstUnvisited(Top, i) /\ OnStack(Child(Top, i))
  /\ current' = NullNode
  /\ status' = "at"
  /\ UNCHANGED <<graph, visited, stack, root>>

Descend ==
  /\ status = "visiting"
  /\ \E i \in DOMAIN graph.adjacency[Top] :
       /\ IsFirstUnvisited(Top, i)
       /\ ~ OnStack(Child(Top, i))
       /\ stack' = Append(stack, Child(Top, i))
  /\ UNCHANGED <<graph, visited, root, current, status>>

VisitDFSPostorder == Return \/ HitCycle \/ Descend

(* operator++ below the root: the search goes on.                           *)
Resume ==
  /\ status = "at"
  /\ current \notin {NullNode, root}
  /\ stack' = Pushed(root)
  /\ status' = "visiting"
  /\ UNCHANGED <<graph, visited, root, current>>

(* operator++ at the root: the first key not yet visited is the next root.  *)
NextRoot ==
  /\ status = "at"
  /\ current # NullNode /\ current = root
  /\ \E k \in DOMAIN graph.keys :
       /\ graph.keys[k] \notin visited
       /\ \A j \in 1 .. k - 1 : graph.keys[j] \in visited
       /\ root' = graph.keys[k]
       /\ stack' = Pushed(graph.keys[k])
  /\ status' = "visiting"
  /\ UNCHANGED <<graph, visited, current>>

(* A faulty Finish: the traversal ends with its first root.                 *)
FinishAtFirstRoot ==
  /\ status = "at"
  /\ current # NullNode /\ current = root
  /\ status' = "end"
  /\ current' = NullNode
  /\ UNCHANGED <<graph, visited, stack, root>>

Finish ==
  /\ status = "at"
  /\ current # NullNode /\ current = root
  /\ \A k \in DOMAIN graph.keys : graph.keys[k] \in visited
  /\ status' = "end"
  /\ current' = NullNode
  /\ UNCHANGED <<graph, visited, stack, root>>

Increment == Resume \/ NextRoot \/ Finish

(* FindCycleOnStack: the stack from the first child of its top that is on   *)
(* the stack, whether or not that is where the search stopped.              *)
IsCycleStart(p) ==
  \E i \in DOMAIN graph.adjacency[Top] :
    /\ p \in DOMAIN stack /\ stack[p] = Child(Top, i)
    /\ \A j \in 1 .. i - 1 : ~ OnStack(Child(Top, j))

FindCycleOnStack ==
  SubSeq(stack, CHOOSE p \in DOMAIN stack : IsCycleStart(p), Len(stack))

-----------------------------------------------------------------------------
DFSInit == \E g \in Graphs : Begin(g)

DFSNext == VisitDFSPostorder \/ Increment

DFSSpec == DFSInit /\ [][DFSNext]_dfsVars

-----------------------------------------------------------------------------
(* Properties.                                                             *)

DFSTypeOK ==
  /\ IsGraph(graph)
  /\ visited \subseteq Nodes
  /\ stack \in Seq(Nodes)
  /\ root \in Nodes \union {NullNode}
  /\ current \in Nodes \union {NullNode}
  /\ status \in {"visiting", "at", "end"}

(* The explicit stack of the traversal stands for the call stack of a       *)
(* recursive search: a simple path from the root along predecessor edges,   *)
(* of nodes not returned yet.                                               *)
StackIsPath ==
  /\ \A i \in 1 .. Len(stack) - 1 :
       \E j \in DOMAIN graph.adjacency[stack[i]] : Child(stack[i], j) = stack[i + 1]
  /\ \A i, j \in DOMAIN stack : stack[i] = stack[j] => i = j
  /\ \A i \in DOMAIN stack : stack[i] \notin visited
  /\ stack # <<>> => stack[1] = root

(* A node is returned after all its predecessors, so the postorder is an    *)
(* execution order.                                                         *)
PredecessorsFirst ==
  \A n \in visited : AllChildrenVisited(n)

(* The stack runs empty exactly when the root is returned: the loop never   *)
(* falls out of its condition (the llvm_unreachable after it), and the test *)
(* current_ != root_ is the right one for going on.                         *)
RootComesLast ==
  /\ status = "visiting" => stack # <<>>
  /\ status = "at" /\ current # NullNode => (stack = <<>> <=> current = root)
  /\ status = "end" => stack = <<>>

(* A set in which every node has a predecessor in the set: in a finite      *)
(* graph, the nodes of some cycles.                                         *)
Cyclic(S) ==
  /\ S # {}
  /\ \A n \in S : \E i \in DOMAIN graph.adjacency[n] : Child(n, i) \in S

(* The verdict of a traversal is right: a null current_ comes with a cycle  *)
(* FindCycleOnStack can find and every edge of which is in the graph, and a *)
(* traversal that ends has returned every key of a graph without cycles.    *)
VerdictIsRight ==
  /\ AtCycle =>
       /\ \E p \in DOMAIN stack : IsCycleStart(p)
       /\ LET cycle == FindCycleOnStack
          IN  \A k \in DOMAIN cycle :
                \E i \in DOMAIN graph.adjacency[cycle[k]] :
                  Child(cycle[k], i) = cycle[IF k = Len(cycle) THEN 1 ELSE k + 1]
  /\ status = "end" =>
       /\ \A k \in DOMAIN graph.keys : graph.keys[k] \in visited
       /\ \A S \in SUBSET Nodes : ~ Cyclic(S)

=============================================================================
