-------------------------- MODULE StorageSemantics --------------------------
(***************************************************************************)
(* What a program computes, and what its loops do to its buffers: the      *)
(* reference the storage decisions are compared with.                      *)
(*                                                                         *)
(* Every dimension has two points, the loops of a compute operation        *)
(* iterate on its dimensions one by one, and an fby or a map_reduce has at *)
(* most one dimension that is not parallel.                                *)
(***************************************************************************)
EXTENDS StorageAnalysis

Points == {0, 1}

\* An instance: a compute operation at one iteration of its loops.
Instances ==
  UNION {{<<o, it>> : it \in [DOMAIN spaces[o].names -> Points]} :
           o \in {k \in DOMAIN program : IsCompute(program[k])}}

\* The order in which the loop nests execute: common loops first, then the
\* sequence of the operations.
Precedes(x, y) ==
  LET common == NumCommonLoops(spaces[x[1]].names, spaces[y[1]].names)
      differ == {k \in 1..common : x[2][k] # y[2][k]}
  IN  IF differ # {} THEN x[2][Min(differ)] < y[2][Min(differ)] ELSE x[1] < y[1]

\* Where a mapping sends an index; `none` is the only point of its dimension.
Apply(m, index) ==
  [i \in DOMAIN m.es |-> IF m.es[i].op = "dim" THEN index[m.es[i].d + 1] ELSE 0]

\* The point of the domain an instance works on, and back.
PointOf(o, it) ==
  [d \in 1..program[o].domain |->
     it[CHOOSE l \in DOMAIN it : spaces[o].mapping.es[l] = Dim(d - 1)]]
InstanceAt(o, point) ==
  <<o, [l \in DOMAIN spaces[o].names |-> point[spaces[o].mapping.es[l].d + 1]]>>

\* The instance that computes an element of a value; 0 stands for a memref.
RECURSIVE Producer(_, _)
Producer(v, index) ==
  LET op == program[v[1]]
      at(a, point) == Producer(op.args[a].v, Apply(op.args[a].m, point))
      last == [d \in 1..op.domain |-> IF d <= op.parallel THEN index[d] ELSE 1]
  IN  CASE op.kind = "map" -> InstanceAt(v[1], index)
        [] op.kind = "map_reduce" -> InstanceAt(v[1], last)
        [] op.kind = "proj" -> at(1, last)
        [] op.kind = "fby" ->
             IF op.parallel = op.domain \/ index[op.domain] = 0 THEN at(1, index)
             ELSE at(2, [index EXCEPT ![op.domain] = 0])
        [] OTHER -> <<0, index>>

\* The instance whose result an instance takes as an operand.  A map_reduce
\* takes an initial value once and then its own previous result.
Source(x, arg) ==
  LET op == program[x[1]]
      point == PointOf(x[1], x[2])
  IN  IF /\ op.kind = "map_reduce" /\ arg <= op.inits
         /\ op.parallel < op.domain /\ point[op.domain] = 1
      THEN InstanceAt(x[1], [point EXCEPT ![op.domain] = 0])
      ELSE Producer(op.args[arg].v, Apply(op.args[arg].m, point))

\* Every value is computed before it is used.
ProducersPrecedeUsers ==
  \A x \in Instances : \A a \in DOMAIN program[x[1]].args :
    Source(x, a)[1] = 0 \/ Precedes(Source(x, a), x)

\* The instances that write into a cell of a buffer.
Writers(name, cell) ==
  {x \in Instances :
     \E r \in DOMAIN program[x[1]].attr :
       /\ storage[<<x[1], r>>].name = name
       /\ Apply(storage[<<x[1], r>>].layout, x[2]) = cell}

\* A cell holds what its last writer wrote, or what the memref held.
Holds(name, cell, before, content) ==
  LET writers == {w \in Writers(name, cell) : before = <<>> \/ Precedes(w, before)}
  IN  IF writers = {} THEN content = <<0, cell>>
      ELSE content \in writers /\ \A w \in writers : w = content \/ Precedes(w, content)

\* The element that an instance reads from a buffer is the one it asks for.
ReadsTheRightElement(x, arg) ==
  LET operand == program[x[1]].args[arg]
      read == MapToUser(program, spaces, storage[operand.v], x[1], arg).layout
  IN  storage[operand.v].space = Memory =>
        Holds(storage[operand.v].name, Apply(read, x[2]), x, Source(x, arg))

\* After the program the memref holds the value.
ReturnsTheRightElements(o) ==
  LET value == program[o].args[2]
  IN  \A cell \in [1..program[o].domain -> Points] :
        Holds(program[o].buffer, cell, <<>>, Producer(value.v, Apply(value.m, cell)))

ComputesItsValues ==
  /\ \A x \in Instances : \A a \in DOMAIN program[x[1]].args : ReadsTheRightElement(x, a)
  /\ \A o \in DOMAIN program :
       program[o].kind = "to_memref" => ReturnsTheRightElements(o)

====
