------------------------- MODULE MaterializeBuffers -------------------------
(***************************************************************************)
(* The MaterializeBuffers pass (transforms/materialize_buffers.cc).  For    *)
(* each buffer it allocates memory around the accesses, puts a load before  *)
(* every compute operation that reads a value of the buffer and a store     *)
(* after every one that writes to it, and erases the projections and        *)
(* sair.fby that are stored in the buffer.  At the end the order is written *)
(* to the `sequence` attributes, from which the next pass computes it anew. *)
(*                                                                          *)
(* Operations are tuples: <<"op", i>> for the i-th compute operation of the *)
(* program, <<"view", i>> for a projection or an fby of its result,         *)
(* <<"load", i, pos>>, <<"store", i>>, <<"alloc", b>>, <<"free", b>> and    *)
(* <<"sizes", b>>, the sair.map that computes the sizes of buffer b.  An    *)
(* operation stands for its only result.                                    *)
(*                                                                          *)
(* A program has                                                            *)
(*   nests     the loop nests of its compute operations, in sequence;       *)
(*   operands  their value operands: operations, or views of them;          *)
(*   fby       the operations whose view is an fby (else a projection);     *)
(*   storage   the buffer each one writes to, or Register;                  *)
(*   exit      the values that sair.exit returns;                           *)
(*   buffers   [external, numLoops, dynamic, bounds]: whether the memory is *)
(*             imported, the size of the loop nest of the buffer, whether   *)
(*             sizes have to be computed, and the operations they come from. *)
(***************************************************************************)
EXTENDS InsertionPoint

CONSTANT Programs

Register == 0
View(i) == <<"view", i>>
IsView(v) == v[1] = "view"

Originals(p) == {Op(i) : i \in DOMAIN p.nests}
Values(p) == Originals(p) \union {View(i) : i \in DOMAIN p.nests}

Buffers(p) ==
  [external : BOOLEAN, numLoops : Nat, dynamic : BOOLEAN, bounds : Seq(Originals(p))]

IsProgram(p) ==
  /\ p.nests \in Seq(Seq(LoopNames))
  /\ p.operands \in [DOMAIN p.nests -> Seq(Values(p))]
  /\ p.buffers \in Seq(Buffers(p))
  /\ p.storage \in [DOMAIN p.nests -> 0 .. Len(p.buffers)]
  /\ p.exit \in SUBSET Values(p)

(* The buffer a value is stored in.  A view is stored where its source is.  *)
StorageOf(p, v) == p.storage[v[2]]

(* A faulty Reads: the users of the views of a value are left out.          *)
DirectReads(p, b) ==
  {r \in UNION {{<<i, pos>> : pos \in DOMAIN p.operands[i]} : i \in DOMAIN p.nests} :
     /\ ~ IsView(p.operands[r[1]][r[2]])
     /\ StorageOf(p, p.operands[r[1]][r[2]]) = b}

(* Buffer::reads and Buffer::writes: the accesses of compute operations.    *)
Reads(p, b) ==
  {r \in UNION {{<<i, pos>> : pos \in DOMAIN p.operands[i]} : i \in DOMAIN p.nests} :
     StorageOf(p, p.operands[r[1]][r[2]]) = b}

Writes(p, b) == {i \in DOMAIN p.nests : p.storage[i] = b}

Accesses(p, b) == {Op(r[1]) : r \in Reads(p, b)} \union {Op(i) : i \in Writes(p, b)}

(* A buffer is declared by the operations that write to it or by an import. *)
(* Its loops are shared by all accesses (TrimBufferLoopNestForAccess).      *)
AccessesShareLoops(p, b) ==
  /\ p.buffers[b].external \/ Writes(p, b) # {}
  /\ \A x, y \in Accesses(p, b) :
       SharesLoops(p.nests[x[2]], p.nests[y[2]], p.buffers[b].numLoops)

ASSUME ProgramsAssumption ==
  \A p \in Programs :
    /\ IsProgram(p)
    /\ IsTree(p.nests)
    /\ \A b \in DOMAIN p.buffers : AccessesShareLoops(p, b)

(* sair.exit returns what is in registers.                                  *)
ExitReadsRegisters(p) == \A v \in p.exit : StorageOf(p, v) = Register

VARIABLES
  program,
  computeOps,   \* compute_ops_ of the sequence analysis
  loops,        \* the loop nest of each compute operation
  operands,     \* the operands of each compute operation
  storage,      \* the `storage` attributes of the original operations
  text,         \* what is inserted at the start of the text, in this order
  pending,      \* the buffers the loop has not reached
  buffer,       \* the buffer at hand, or 0
  reads,        \* its reads that have no load yet
  writes,       \* its writes that have no store yet
  erased,       \* the views that were erased
  numbers       \* the `sequence` attributes, once assigned

vars == <<program, computeOps, loops, operands, storage, text, pending, buffer, reads,
          writes, erased, numbers>>

Assigned == numbers # <<>>

(* Functions that grow.                                                     *)
With(f, op, value) == [x \in DOMAIN f \union {op} |-> IF x = op THEN value ELSE f[x]]

MemRef(b) == IF program.buffers[b].external THEN <<"import", b>> ELSE <<"alloc", b>>

BeginAccesses(b) ==
  /\ buffer' = b
  /\ pending' = pending \ {b}
  /\ reads' = Reads(program, b)
  /\ writes' = Writes(program, b)
-----------------------------------------------------------------------------
(* A faulty FindInsertionPoints: sair.free follows the first access.         *)
FreeAfterFirstAccess(b) ==
  LET span == GetSpan(computeOps, Accesses(program, b))
      numLoops == program.buffers[b].numLoops
  IN  <<FindInsertionPoint(computeOps, loops, span[1], numLoops, "kBefore"),
        FindInsertionPoint(computeOps, loops, span[1], numLoops, "kAfter")>>

(* Where sair.alloc and sair.free go.  Both points are found before either  *)
(* operation is inserted.                                                   *)
FindInsertionPoints(b) ==
  LET span == GetSpan(computeOps, Accesses(program, b))
      numLoops == program.buffers[b].numLoops
  IN  <<FindInsertionPoint(computeOps, loops, span[1], numLoops, "kBefore"),
        FindInsertionPoint(computeOps, loops, span[2], numLoops, "kAfter")>>

(* The map operation that computes dynamic sizes is created and has loops,  *)
(* but it is not entered into the sequence.                                 *)
GetMemRefShape(b) ==
  IF program.buffers[b].dynamic THEN <<<<"sizes", b>>>> ELSE <<>>

(* A faulty AllocateBuffer: sair.free does not get the loops of its point.  *)
AllocateOutsideLoops(b) ==
  /\ buffer = 0 /\ b \in pending /\ ~ program.buffers[b].external
  /\ LET points == FindInsertionPoints(b)
         alloc == <<"alloc", b>>
         free == <<"free", b>>
         sizes == GetMemRefShape(b)
     IN  /\ computeOps' = Insert(Insert(computeOps, alloc, points[1]), free, points[2])
         /\ loops' = With(With(With(loops, <<"sizes", b>>, points[1].nest),
                               alloc, points[1].nest), free, <<>>)
         /\ operands' = With(With(With(operands, <<"sizes", b>>, program.buffers[b].bounds),
                                  alloc, sizes), free, <<alloc>>)
         /\ text' = text \o sizes \o <<alloc, free>>
  /\ BeginAccesses(b)
  /\ UNCHANGED <<program, storage, erased, numbers>>

AllocateBuffer(b) ==
  /\ buffer = 0 /\ b \in pending /\ ~ program.buffers[b].external
  /\ LET points == FindInsertionPoints(b)
         alloc == <<"alloc", b>>
         free == <<"free", b>>
         sizes == GetMemRefShape(b)
     IN  /\ computeOps' = Insert(Insert(computeOps, alloc, points[1]), free, points[2])
         /\ loops' = With(With(With(loops, <<"sizes", b>>, points[1].nest),
                               alloc, points[1].nest), free, points[2].nest)
         /\ operands' = With(With(With(operands, <<"sizes", b>>, program.buffers[b].bounds),
                                  alloc, sizes), free, <<alloc>>)
         /\ text' = text \o sizes \o <<alloc, free>>
  /\ BeginAccesses(b)
  /\ UNCHANGED <<program, storage, erased, numbers>>

RetrieveBuffer(b) ==
  /\ buffer = 0 /\ b \in pending /\ program.buffers[b].external
  /\ BeginAccesses(b)
  /\ UNCHANGED <<program, computeOps, loops, operands, storage, text, erased, numbers>>

(* A load, in the loops of the operation, right before it.  It takes the    *)
(* place of the operand.                                                    *)
InsertLoad(i, pos) ==
  /\ <<i, pos>> \in reads
  /\ LET load == <<"load", i, pos>>
     IN  /\ computeOps' = Insert(computeOps, load, Point(Op(i), "kBefore", loops[Op(i)]))
         /\ loops' = With(loops, load, loops[Op(i)])
         /\ operands' = [With(operands, load, <<MemRef(buffer)>>) EXCEPT ![Op(i)][pos] = load]
  /\ reads' = reads \ {<<i, pos>>}
  /\ UNCHANGED <<program, storage, text, pending, buffer, writes, erased, numbers>>

(* A store, in the loops of the operation, right after it.  The result is   *)
(* in a register from now on.                                               *)
InsertStore(i) ==
  /\ reads = {} /\ i \in writes
  /\ LET store == <<"store", i>>
     IN  /\ computeOps' = Insert(computeOps, store, Point(Op(i), "kAfter", loops[Op(i)]))
         /\ loops' = With(loops, store, loops[Op(i)])
         /\ operands' = With(operands, store, <<MemRef(buffer), Op(i)>>)
  /\ storage' = [storage EXCEPT ![i] = Register]
  /\ writes' = writes \ {i}
  /\ UNCHANGED <<program, text, pending, buffer, reads, erased, numbers>>

(* The views that are stored in the buffer are erased, with their uses.     *)
DropViews ==
  /\ buffer # 0 /\ reads = {} /\ writes = {}
  /\ erased' = erased \union {View(i) : i \in Writes(program, buffer)}
  /\ buffer' = 0
  /\ UNCHANGED <<program, computeOps, loops, operands, storage, text, pending, reads,
                 writes, numbers>>

(* A faulty AssignInferred: the operations that had a number keep theirs.   *)
AssignMissing ==
  /\ buffer = 0 /\ pending = {} /\ ~ Assigned
  /\ numbers' = [op \in Range(computeOps) |->
                   IF op \in Originals(program) THEN op[2] - 1 ELSE Number(computeOps, op)]
  /\ UNCHANGED <<program, computeOps, loops, operands, storage, text, pending, buffer,
                 reads, writes, erased>>

AssignInferred ==
  /\ buffer = 0 /\ pending = {} /\ ~ Assigned
  /\ numbers' = [op \in Range(computeOps) |-> Number(computeOps, op)]
  /\ UNCHANGED <<program, computeOps, loops, operands, storage, text, pending, buffer,
                 reads, writes, erased>>

-----------------------------------------------------------------------------
Init ==
  /\ program \in Programs
  /\ computeOps = [i \in DOMAIN program.nests |-> Op(i)]
  /\ loops = [op \in Originals(program) |-> program.nests[op[2]]]
  /\ operands = [op \in Originals(program) |-> program.operands[op[2]]]
  /\ storage = program.storage
  /\ text = <<>>
  /\ pending = DOMAIN program.buffers
  /\ buffer = 0
  /\ reads = {}
  /\ writes = {}
  /\ erased = {}
  /\ numbers = <<>>

Next ==
  \/ \E b \in pending : AllocateBuffer(b) \/ RetrieveBuffer(b)
  \/ \E r \in reads : InsertLoad(r[1], r[2])
  \/ \E i \in writes : InsertStore(i)
  \/ DropViews
  \/ AssignInferred

Spec == Init /\ [][Next]_vars
-----------------------------------------------------------------------------
(* Properties.                                                             *)

Done(b) == b \notin pending /\ b # buffer

(* The operations that sequence_analysis.Insert puts into the program, at   *)
(* points found before other insertions, split no loop.                     *)
TreeIsKept == IsTree(Nests(computeOps, loops))

(* The memory of a buffer is allocated before its accesses and freed after  *)
(* them, in the same iteration of the loops around both.                    *)
BufferOutlivesAccesses ==
  \A b \in DOMAIN program.buffers :
    LET alloc == <<"alloc", b>>
        free == <<"free", b>>
        N(op) == Number(computeOps, op)
    IN  Done(b) /\ ~ program.buffers[b].external =>
          /\ \A op \in DOMAIN operands :
               alloc \in Range(operands[op]) /\ op # free => N(alloc) < N(op) /\ N(op) < N(free)
          /\ loops[alloc] = loops[free]
          /\ \A n \in N(alloc) .. N(free) :
               SharesLoops(loops[alloc], loops[computeOps[n + 1]], Len(loops[alloc]))

(* An operation loads all it reads, runs, and stores before the next one    *)
(* loads.                                                                   *)
AccessesKeepTheirOrder ==
  \A i, j \in DOMAIN program.nests :
    LET Own(k) == {op \in Range(computeOps) : op[1] \in {"load", "op", "store"} /\ op[2] = k}
        N(op) == Number(computeOps, op)
    IN  /\ i < j => \A x \in Own(i), y \in Own(j) : N(x) < N(y)
        /\ \A x \in Own(i) : /\ x[1] = "load" => N(x) < N(Op(i))
                             /\ x[1] = "store" => N(Op(i)) < N(x)

(* The accesses to the memory of a buffer happen in the order in which the  *)
(* operations read and wrote its values, between its allocation and its     *)
(* release, although every point is found before other insertions.          *)
MemoryIsUsedInOrder == BufferOutlivesAccesses /\ AccessesKeepTheirOrder

(* "These operations would be removed by DCE anyway" (materialize_buffers.cc *)
(* :403): nothing uses a projection or an fby when it is erased, since loads *)
(* have taken the place of all of them; and at the end no operand is in      *)
(* memory, and no result.                                                    *)
NothingStaysInMemory ==
  /\ \A op \in DOMAIN operands : Range(operands[op]) \intersect erased = {}
  /\ program.exit \intersect erased = {}
  /\ Assigned =>
       /\ \A i \in DOMAIN storage : storage[i] = Register
       /\ \A i \in DOMAIN program.nests : \A pos \in DOMAIN program.operands[i] :
            LET v == program.operands[i][pos]
                now == operands[Op(i)][pos]
            IN  IF StorageOf(program, v) = Register THEN now = v
                ELSE operands[now] = <<MemRef(StorageOf(program, v))>>
=============================================================================
