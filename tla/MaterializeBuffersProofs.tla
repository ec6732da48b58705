---------------------- MODULE MaterializeBuffersProofs ----------------------
(***************************************************************************)
(* For every program the MaterializeBuffers pass keeps a tree of loops,     *)
(* uses memory only while it is allocated and in the order of the program,  *)
(* and leaves nothing in memory.                                            *)
(*                                                                          *)
(* The invariant says which operations there are when the loop over the     *)
(* buffers, and the loops over the accesses of one of them, have come as    *)
(* far as pending, reads and writes say (Sequenced); what their operands    *)
(* and loops are; and in which order the accesses are, with the allocation  *)
(* before and the release after them.                                       *)
(***************************************************************************)
EXTENDS MaterializeBuffers, InsertionPointProofs

AllReads(p) == UNION {{<<i, pos>> : pos \in DOMAIN p.operands[i]} : i \in DOMAIN p.nests}

ReadOf(r) == program.operands[r[1]][r[2]]
BufferOf(r) == StorageOf(program, ReadOf(r))

(* The reads that have a load, the writes that have a store and the buffers *)
(* that have been allocated.                                                *)
Loaded ==
  {r \in AllReads(program) :
     BufferOf(r) # Register /\ BufferOf(r) \notin pending /\ r \notin reads}

Stored ==
  {i \in DOMAIN program.nests :
     program.storage[i] # Register /\ program.storage[i] \notin pending /\ i \notin writes}

Allocated == {b \in DOMAIN program.buffers : b \notin pending /\ ~ program.buffers[b].external}

Load(r) == <<"load", r[1], r[2]>>
Store(i) == <<"store", i>>
Alloc(b) == <<"alloc", b>>
Free(b) == <<"free", b>>
Sizes(b) == <<"sizes", b>>

(* The operations in the sequence, and all of them.                         *)
Sequenced ==
  Originals(program) \union {Load(r) : r \in Loaded} \union {Store(i) : i \in Stored}
    \union {Alloc(b) : b \in Allocated} \union {Free(b) : b \in Allocated}

Known == Sequenced \union {Sizes(b) : b \in Allocated}
-----------------------------------------------------------------------------
TypeOK ==
  /\ program \in Programs
  /\ pending \in SUBSET DOMAIN program.buffers
  /\ buffer \in {0} \union (DOMAIN program.buffers \ pending)
  /\ reads \in SUBSET {r \in Reads(program, buffer) : buffer # 0}
  /\ writes \in SUBSET {i \in Writes(program, buffer) : buffer # 0}
  /\ computeOps \in Seq(Sequenced) /\ Range(computeOps) = Sequenced /\ IsDistinct(computeOps)
  /\ loops \in [Known -> Seq(LoopNames)]
  /\ DOMAIN operands = Known
  /\ Assigned => pending = {} /\ buffer = 0

ViewsAreErased ==
  \A v \in erased :
    \E i \in DOMAIN program.nests :
      v = View(i) /\ program.storage[i] # Register /\ Done(program.storage[i])

ResultsAreStored ==
  /\ DOMAIN storage = DOMAIN program.nests
  /\ \A i \in DOMAIN program.nests :
       storage[i] = IF i \in Stored THEN Register ELSE program.storage[i]

OperandsAreLoaded ==
  /\ \A i \in DOMAIN program.nests :
       /\ DOMAIN operands[Op(i)] = DOMAIN program.operands[i]
       /\ \A pos \in DOMAIN program.operands[i] :
            operands[Op(i)][pos] = IF <<i, pos>> \in Loaded THEN Load(<<i, pos>>)
                                   ELSE program.operands[i][pos]
  /\ \A r \in Loaded : operands[Load(r)] = <<MemRef(BufferOf(r))>>
  /\ \A i \in Stored : operands[Store(i)] = <<MemRef(program.storage[i]), Op(i)>>
  /\ \A b \in Allocated :
       /\ operands[Alloc(b)] = GetMemRefShape(b)
       /\ operands[Free(b)] = <<Alloc(b)>>
       /\ operands[Sizes(b)] = program.buffers[b].bounds

LoopsAreGiven ==
  /\ \A i \in DOMAIN program.nests : loops[Op(i)] = program.nests[i]
  /\ \A b \in Allocated : loops[Alloc(b)] = loops[Free(b)]

Before(x, y) == Precedes(computeOps, x, y)

BuffersAreAllocated ==
  \A b \in Allocated :
    /\ \A op \in Accesses(program, b) : Before(Alloc(b), op) /\ Before(op, Free(b))
    /\ \A r \in Loaded : BufferOf(r) = b => Before(Alloc(b), Load(r))
    /\ \A i \in Stored : program.storage[i] = b => Before(Store(i), Free(b))

IInv ==
  /\ TypeOK /\ ViewsAreErased /\ ResultsAreStored /\ OperandsAreLoaded /\ LoopsAreGiven
  /\ TreeIsKept /\ InOrder(computeOps, DOMAIN program.nests) /\ BuffersAreAllocated
-----------------------------------------------------------------------------
(* The accesses of a program.                                               *)

(* Where values are stored.                                                 *)
LEMMA ProgramTyped ==
  ASSUME NEW p, IsProgram(p)
  PROVE  /\ \A r \in AllReads(p) :
              /\ r = <<r[1], r[2]>> /\ r[1] \in DOMAIN p.nests /\ r[2] \in DOMAIN p.operands[r[1]]
              /\ p.operands[r[1]][r[2]] \in Values(p)
              /\ StorageOf(p, p.operands[r[1]][r[2]]) \in {0} \union DOMAIN p.buffers
         /\ \A i \in DOMAIN p.nests : p.storage[i] \in {0} \union DOMAIN p.buffers
         /\ \A i \in DOMAIN p.nests : \A pos \in DOMAIN p.operands[i] : <<i, pos>> \in AllReads(p)
         /\ 0 \notin DOMAIN p.buffers
<1>1. /\ p.nests \in Seq(Seq(LoopNames)) /\ p.operands \in [DOMAIN p.nests -> Seq(Values(p))]
      /\ p.buffers \in Seq(Buffers(p)) /\ p.storage \in [DOMAIN p.nests -> 0 .. Len(p.buffers)]
  BY Zenon DEF IsProgram
<1>2. DOMAIN p.buffers = 1 .. Len(p.buffers) /\ Len(p.buffers) \in Nat
  BY <1>1, LenProperties, Zenon
<1>3. \A i \in DOMAIN p.nests : p.storage[i] \in {0} \union DOMAIN p.buffers
  BY <1>1, <1>2
<1>4. ASSUME NEW r \in AllReads(p)
      PROVE  /\ r = <<r[1], r[2]>> /\ r[1] \in DOMAIN p.nests /\ r[2] \in DOMAIN p.operands[r[1]]
             /\ p.operands[r[1]][r[2]] \in Values(p)
             /\ StorageOf(p, p.operands[r[1]][r[2]]) \in {0} \union DOMAIN p.buffers
  <2>1. PICK i \in DOMAIN p.nests : \E pos \in DOMAIN p.operands[i] : r = <<i, pos>>
    BY Zenon DEF AllReads
  <2>2. PICK pos \in DOMAIN p.operands[i] : r = <<i, pos>>
    BY <2>1, Zenon
  <2>3. p.operands[i] \in Seq(Values(p))
    BY <1>1, Zenon
  <2>4. PICK v : v = p.operands[i][pos]
    BY Zenon
  <2>5. v \in Values(p)
    BY <2>3, <2>4, LenProperties, ElementOfSeq, Zenon
  <2>6. v[2] \in DOMAIN p.nests
    BY <2>5 DEF Values, Originals, Op, View
  <2>7. StorageOf(p, v) \in {0} \union DOMAIN p.buffers
    BY <1>3, <2>6, Zenon DEF StorageOf
  <2>8. r[1] = i /\ r[2] = pos
    BY <2>2, Zenon
  <2>9. QED
    BY <2>2, <2>4, <2>5, <2>7, <2>8, Zenon
<1>5. \A i \in DOMAIN p.nests : \A pos \in DOMAIN p.operands[i] : <<i, pos>> \in AllReads(p)
  BY DEF AllReads
<1>6. 0 \notin DOMAIN p.buffers
  BY <1>2
<1>7. QED
  BY <1>3, <1>4, <1>5, <1>6, Zenon

(* The reads of a buffer.                                                   *)
LEMMA ReadsAre ==
  ASSUME NEW p, NEW b
  PROVE  Reads(p, b) = {r \in AllReads(p) : StorageOf(p, p.operands[r[1]][r[2]]) = b}
BY Zenon DEF Reads, AllReads

(* Every operation is its own number.                                       *)
LEMMA OriginalsInOrder ==
  ASSUME NEW n \in Nat, NEW s, s = [i \in 1 .. n |-> Op(i)]
  PROVE  s \in Seq({Op(i) : i \in 1 .. n}) /\ Range(s) = {Op(i) : i \in 1 .. n} /\ IsDistinct(s)
         /\ InOrder(s, 1 .. n)
<1>1. s \in Seq({Op(i) : i \in 1 .. n})
  BY IsASeq, Zenon
<1>2. Range(s) = {Op(i) : i \in 1 .. n}
  BY Zenon DEF Range
<1>3. IsDistinct(s)
  BY Zenon DEF IsDistinct, Op
<1>4. ASSUME NEW k \in 1 .. n
      PROVE  Number(s, Op(k)) = k - 1
  <2>1. k \in DOMAIN s /\ s[k] = Op(k)
    BY Zenon
  <2>2. Number(s, s[k]) = k - 1
    BY <1>1, <1>3, <2>1, NumberIs, Zenon
  <2>3. QED
    BY <2>1, <2>2, Zenon
<1>5. ASSUME NEW k \in 1 .. n
      PROVE  Own(s, k) = {Op(k)}
  BY <1>2 DEF Own, Op
<1>6. InOrder(s, 1 .. n)
  <2>1. ASSUME NEW i \in 1 .. n, NEW j \in 1 .. n, i < j,
               NEW x \in Own(s, i), NEW y \in Own(s, j)
        PROVE  Precedes(s, x, y)
    <3>1. x = Op(i) /\ y = Op(j)
      BY <1>5, Zenon
    <3>2. i - 1 < j - 1
      BY <2>1
    <3>3. QED
      BY <1>4, <3>1, <3>2, Zenon DEF Precedes
  <2>2. ASSUME NEW i \in 1 .. n, NEW x \in Own(s, i)
        PROVE  x[1] # "load" /\ x[1] # "store"
    BY <1>5 DEF Op
  <2>3. QED
    BY <2>1, <2>2, Zenon DEF InOrder
<1>7. QED
  BY <1>1, <1>2, <1>3, <1>6, Zenon

(* The invariant holds initially.                                           *)
LEMMA InitIInv == Init => IInv
<1> SUFFICES ASSUME Init
             PROVE  IInv
  BY Zenon
<1>1. program \in Programs /\ IsProgram(program) /\ IsTree(program.nests)
  BY ProgramsAssumption, Zenon DEF Init
<1>2. /\ program.nests \in Seq(Seq(LoopNames)) /\ DOMAIN program.nests = 1 .. Len(program.nests)
      /\ Len(program.nests) \in Nat
  BY <1>1, LenProperties, Zenon DEF IsProgram
<1>3. /\ pending = DOMAIN program.buffers /\ buffer = 0 /\ reads = {} /\ writes = {}
      /\ erased = {} /\ numbers = <<>> /\ storage = program.storage
      /\ computeOps = [i \in DOMAIN program.nests |-> Op(i)]
      /\ loops = [op \in Originals(program) |-> program.nests[op[2]]]
      /\ operands = [op \in Originals(program) |-> program.operands[op[2]]]
  BY Zenon DEF Init
<1>4. Loaded = {} /\ Stored = {} /\ Allocated = {}
  <2>1. Loaded = {}
    BY <1>1, <1>3, ProgramTyped, Zenon DEF Loaded, Register, BufferOf, ReadOf
  <2>2. Stored = {}
    BY <1>1, <1>3, ProgramTyped, Zenon DEF Stored, Register
  <2>3. Allocated = {}
    BY <1>3, Zenon DEF Allocated
  <2>4. QED
    BY <2>1, <2>2, <2>3, Zenon
<1>5. Sequenced = Originals(program) /\ Known = Originals(program)
  BY <1>4, Zenon DEF Sequenced, Known
<1>6. Originals(program) = {Op(i) : i \in 1 .. Len(program.nests)}
  BY <1>2, Zenon DEF Originals
<1>7. /\ computeOps \in Seq(Sequenced) /\ Range(computeOps) = Sequenced /\ IsDistinct(computeOps)
      /\ InOrder(computeOps, DOMAIN program.nests)
  <2>1. computeOps = [i \in 1 .. Len(program.nests) |-> Op(i)]
    BY <1>2, <1>3, Zenon
  <2>2. QED
    BY <1>2, <1>5, <1>6, <2>1, OriginalsInOrder, Zenon
<1>8. /\ \A i \in DOMAIN program.nests : loops[Op(i)] = program.nests[i]
      /\ \A i \in DOMAIN program.nests : operands[Op(i)] = program.operands[i]
  BY <1>3, Zenon DEF Originals, Op
<1>9. TypeOK
  <2>1. loops \in [Known -> Seq(LoopNames)]
    <3>1. \A op \in Originals(program) : program.nests[op[2]] \in Seq(LoopNames)
      BY <1>2, ElementOfSeq DEF Originals, Op
    <3>2. QED
      BY <1>3, <1>5, <3>1, Zenon
  <2>2. DOMAIN operands = Known
    BY <1>3, <1>5, Zenon
  <2>3. ~ Assigned
    BY <1>3, Zenon DEF Assigned
  <2>4. QED
    BY <1>1, <1>3, <1>7, <2>1, <2>2, <2>3, Zenon DEF TypeOK
<1>10. ViewsAreErased
  BY <1>3, Zenon DEF ViewsAreErased
<1>11. ResultsAreStored
  BY <1>1, <1>3, <1>4, Zenon DEF ResultsAreStored, IsProgram
<1>12. OperandsAreLoaded
  BY <1>4, <1>8, Zenon DEF OperandsAreLoaded
<1>13. LoopsAreGiven
  BY <1>4, <1>8, Zenon DEF LoopsAreGiven
<1>14. TreeIsKept
  <2>1. Nests(computeOps, loops) = [i \in DOMAIN program.nests |-> program.nests[i]]
    BY <1>3, <1>8, Zenon DEF Nests
  <2>2. PICK ns \in Seq(Seq(LoopNames)) : ns = program.nests
    BY <1>2, Zenon
  <2>3. ns \in [1 .. Len(ns) -> Seq(LoopNames)]
    BY LenProperties, Zenon
  <2>4. ns = [i \in DOMAIN ns |-> ns[i]]
    BY <2>3, Zenon
  <2>5. QED
    BY <1>1, <2>1, <2>2, <2>4, Zenon DEF TreeIsKept
<1>15. BuffersAreAllocated
  BY <1>4, Zenon DEF BuffersAreAllocated
<1>16. QED
  BY <1>7, <1>9, <1>10, <1>11, <1>12, <1>13, <1>14, <1>15, Zenon DEF IInv
-----------------------------------------------------------------------------
(* What the steps keep.                                                     *)

(* Beginning with a buffer makes no load and no store.                      *)
LEMMA BeginSets ==
  ASSUME TypeOK, NEW b \in pending, buffer = 0, BeginAccesses(b), program' = program
  PROVE  /\ Loaded' = Loaded /\ Stored' = Stored
         /\ Allocated' = Allocated \union {c \in {b} : ~ program.buffers[c].external}
<1>1. /\ pending' = pending \ {b} /\ reads' = Reads(program, b) /\ writes' = Writes(program, b)
      /\ pending \in SUBSET DOMAIN program.buffers /\ IsProgram(program)
      /\ reads = {} /\ writes = {}
  BY ProgramsAssumption, Zenon DEF BeginAccesses, TypeOK
<1>2. Loaded' = Loaded
  <2>1. Loaded' = {r \in AllReads(program) :
                     /\ BufferOf(r) # Register /\ BufferOf(r) \notin pending \ {b}
                     /\ r \notin Reads(program, b)}
    BY <1>1, Zenon DEF Loaded, BufferOf, ReadOf
  <2>2. Reads(program, b) = {r \in AllReads(program) : BufferOf(r) = b}
    BY ReadsAre, Zenon DEF BufferOf, ReadOf
  <2>3. QED
    BY <1>1, <2>1, <2>2, Zenon DEF Loaded
<1>3. Stored' = Stored
  BY <1>1, Zenon DEF Stored, Writes
<1>4. Allocated' = Allocated \union {c \in {b} : ~ program.buffers[c].external}
  BY <1>1, Zenon DEF Allocated
<1>5. QED
  BY <1>2, <1>3, <1>4, Zenon

(* A load of the buffer at hand is a new one.                               *)
LEMMA LoadSets ==
  ASSUME TypeOK, NEW r \in reads, program' = program, pending' = pending,
         reads' = reads \ {r}, writes' = writes
  PROVE  /\ r \in AllReads(program) /\ BufferOf(r) = buffer /\ buffer # 0 /\ r \notin Loaded
         /\ Loaded' = Loaded \union {r} /\ Stored' = Stored /\ Allocated' = Allocated
<1>1. /\ r \in Reads(program, buffer) /\ buffer # 0 /\ buffer \notin pending
  BY Zenon DEF TypeOK
<1>2. r \in AllReads(program) /\ BufferOf(r) = buffer
  BY <1>1, ReadsAre, Zenon DEF BufferOf, ReadOf
<1>3. Loaded' = {q \in AllReads(program) :
                   /\ BufferOf(q) # Register /\ BufferOf(q) \notin pending
                   /\ q \notin reads \ {r}}
  BY Zenon DEF Loaded, BufferOf, ReadOf
<1>4. Loaded' = Loaded \union {r}
  BY <1>1, <1>2, <1>3, Zenon DEF Loaded, Register
<1>5. Stored' = Stored /\ Allocated' = Allocated
  BY Zenon DEF Stored, Allocated
<1>6. QED
  BY <1>1, <1>2, <1>4, <1>5, Zenon DEF Loaded

(* So is a store to it.                                                     *)
LEMMA StoreSets ==
  ASSUME TypeOK, NEW i \in writes, program' = program, pending' = pending,
         reads' = reads, writes' = writes \ {i}
  PROVE  /\ i \in DOMAIN program.nests /\ program.storage[i] = buffer /\ buffer # 0
         /\ i \notin Stored
         /\ Loaded' = Loaded /\ Stored' = Stored \union {i} /\ Allocated' = Allocated
<1>1. /\ i \in Writes(program, buffer) /\ buffer # 0 /\ buffer \notin pending
  BY Zenon DEF TypeOK
<1>2. i \in DOMAIN program.nests /\ program.storage[i] = buffer
  BY <1>1, Zenon DEF Writes
<1>3. Stored' = Stored \union {i}
  BY <1>1, <1>2, Zenon DEF Stored, Register
<1>4. Loaded' = Loaded /\ Allocated' = Allocated
  BY Zenon DEF Loaded, Allocated, BufferOf, ReadOf
<1>5. QED
  BY <1>1, <1>2, <1>3, <1>4, Zenon DEF Stored

(* Which operations there are not.                                          *)
LEMMA Unknown ==
  ASSUME IsProgram(program)
  PROVE  /\ \A r \in AllReads(program) : r \notin Loaded => Load(r) \notin Known
         /\ \A i : i \notin Stored => Store(i) \notin Known
         /\ \A b : b \notin Allocated =>
                     Alloc(b) \notin Known /\ Free(b) \notin Known /\ Sizes(b) \notin Known
<1>1. \A op \in Known :
        \/ \E i \in DOMAIN program.nests : op = <<"op", i>>
        \/ \E r \in Loaded : op = <<"load", r[1], r[2]>>
        \/ \E i \in Stored : op = <<"store", i>>
        \/ \E b \in Allocated : op \in {<<"alloc", b>>, <<"free", b>>, <<"sizes", b>>}
  BY Zenon DEF Known, Sequenced, Originals, Op, Load, Store, Alloc, Free, Sizes
<1>2. ASSUME NEW r \in AllReads(program), Load(r) \in Known
      PROVE  r \in Loaded
  <2>1. PICK q \in Loaded : Load(r) = <<"load", q[1], q[2]>>
    BY <1>1, <1>2, Zenon DEF Load
  <2>2. r[1] = q[1] /\ r[2] = q[2]
    BY <2>1, Zenon DEF Load
  <2>3. r = <<r[1], r[2]>> /\ q = <<q[1], q[2]>>
    <3>1. q \in AllReads(program)
      BY Zenon DEF Loaded
    <3>2. QED
      BY <3>1, ProgramTyped, Zenon
  <2>4. QED
    BY <2>2, <2>3, Zenon
<1>3. ASSUME NEW i, Store(i) \in Known
      PROVE  i \in Stored
  BY <1>1, <1>3, Zenon DEF Store
<1>4. ASSUME NEW b, Alloc(b) \in Known \/ Free(b) \in Known \/ Sizes(b) \in Known
      PROVE  b \in Allocated
  BY <1>1, <1>4, Zenon DEF Alloc, Free, Sizes
<1>5. QED
  BY <1>2, <1>3, <1>4, Zenon

(* What the invariant says of the sequence.                                 *)
LEMMA SequenceTyped ==
  ASSUME IInv
  PROVE  /\ IsProgram(program) /\ IsTree(Nests(computeOps, loops))
         /\ computeOps \in Seq(Sequenced) /\ Range(computeOps) = Sequenced
         /\ IsDistinct(computeOps) /\ InOrder(computeOps, DOMAIN program.nests)
         /\ \A x \in Range(computeOps) : loops[x] \in Seq(LoopNames)
         /\ DOMAIN program.nests \in SUBSET Int
         /\ \A i \in DOMAIN program.nests : Op(i) \in Range(computeOps)
<1>1. /\ IsProgram(program) /\ IsTree(Nests(computeOps, loops))
      /\ computeOps \in Seq(Sequenced) /\ Range(computeOps) = Sequenced
      /\ IsDistinct(computeOps) /\ InOrder(computeOps, DOMAIN program.nests)
      /\ loops \in [Known -> Seq(LoopNames)]
  BY ProgramsAssumption, Zenon DEF IInv, TypeOK, TreeIsKept
<1>2. \A x \in Range(computeOps) : loops[x] \in Seq(LoopNames)
  BY <1>1, Zenon DEF Known
<1>3. DOMAIN program.nests \in SUBSET Int
  <2>1. program.nests \in Seq(Seq(LoopNames))
    BY <1>1, Zenon DEF IsProgram
  <2>2. DOMAIN program.nests = 1 .. Len(program.nests)
    BY <2>1, LenProperties, Zenon
  <2>3. QED
    BY <2>2
<1>4. \A i \in DOMAIN program.nests : Op(i) \in Range(computeOps)
  BY <1>1, Zenon DEF Sequenced, Originals
<1>5. QED
  BY <1>1, <1>2, <1>3, <1>4, Zenon

(* A load or a store next to its operation, in its loops.                   *)
LEMMA InsertAtOperation ==
  ASSUME IInv, NEW i \in DOMAIN program.nests, NEW e, e \notin Known, NEW direction,
         \/ e[1] = "load" /\ e[2] = i /\ direction = "kBefore"
         \/ e[1] = "store" /\ e[2] = i /\ direction = "kAfter",
         computeOps' = Insert(computeOps, e, Point(Op(i), direction, loops[Op(i)])),
         loops' = With(loops, e, loops[Op(i)]), program' = program,
         Sequenced' = Sequenced \union {e}, Known' = Known \union {e}
  PROVE  /\ computeOps' \in Seq(Sequenced') /\ Range(computeOps') = Sequenced'
         /\ IsDistinct(computeOps')
         /\ loops' \in [Known' -> Seq(LoopNames)] /\ \A x \in Known : loops'[x] = loops[x]
         /\ IsTree(Nests(computeOps', loops'))
         /\ InOrder(computeOps', DOMAIN program.nests)
         /\ \A x, y \in Sequenced : Precedes(computeOps', x, y) <=> Precedes(computeOps, x, y)
         /\ direction = "kBefore" =>
              \A x \in Sequenced : Precedes(computeOps', x, e) <=> Precedes(computeOps, x, Op(i))
         /\ direction = "kAfter" =>
              \A x \in Sequenced : Precedes(computeOps', e, x) <=> Precedes(computeOps, Op(i), x)
<1>1. PICK s, T, N : s = computeOps /\ T = Sequenced' /\ N = DOMAIN program.nests
  BY Zenon
<1>2. /\ s \in Seq(Sequenced) /\ Range(s) = Sequenced /\ IsDistinct(s)
      /\ IsTree(Nests(s, loops)) /\ InOrder(s, N)
      /\ \A x \in Range(s) : loops[x] \in Seq(LoopNames)
      /\ N \in SUBSET Int /\ \A k \in N : Op(k) \in Range(s)
  BY <1>1, SequenceTyped, Zenon
<1>3. loops \in [Known -> Seq(LoopNames)]
  BY Zenon DEF IInv, TypeOK
<1>4. s \in Seq(T) /\ e \in T /\ e \notin Range(s)
  BY <1>1, <1>2 DEF Known
<1>5. PICK b \in DOMAIN s : s[b] = Op(i)
  BY <1>1, <1>2, Zenon DEF Range
<1>6. PICK t, nest : t = Insert(s, e, Point(s[b], direction, nest)) /\ nest = loops[Op(i)]
  BY Zenon
<1>7. computeOps' = t
  BY <1>1, <1>5, <1>6, Zenon
<1>8. direction \in {"kBefore", "kAfter"}
  BY Zenon
<1>9. t \in Seq(T) /\ IsDistinct(t) /\ Range(t) = Range(s) \union {e}
  BY <1>2, <1>4, <1>6, InsertElements
<1>10. InOrder(t, N)
  <2>1. \/ e[1] \notin {"load", "op", "store"}
        \/ e[1] = "load" /\ s[b] = Op(e[2]) /\ direction = "kBefore"
        \/ e[1] = "store" /\ s[b] = Op(e[2]) /\ direction = "kAfter"
    BY <1>5, Zenon
  <2>2. QED
    BY <1>2, <1>4, <1>6, <2>1, InsertKeepsOrder, Zenon
<1>11. /\ \A x, y \in Range(s) : Precedes(t, x, y) <=> Precedes(s, x, y)
       /\ direction = "kBefore" =>
            \A x \in Range(s) : /\ Precedes(t, x, e) <=> Precedes(s, x, s[b])
                                /\ Precedes(t, e, x) <=> ~ Precedes(s, x, s[b])
       /\ direction = "kAfter" =>
            \A x \in Range(s) : /\ Precedes(t, e, x) <=> Precedes(s, s[b], x)
                                /\ Precedes(t, x, e) <=> ~ Precedes(s, s[b], x)
  BY <1>2, <1>4, <1>6, InsertPrecedes
<1>12. nest \in Seq(LoopNames)
  BY <1>2, <1>5, <1>6, Zenon DEF Range
<1>13. /\ loops' \in [Known \union {e} -> Seq(LoopNames)]
       /\ loops'[e] = nest /\ \A x \in Known : loops'[x] = loops[x]
  BY <1>3, <1>6, <1>12, Zenon DEF With
<1>14. IsTree(Nests(t, loops'))
  <2>1. SharesLoops(nest, loops[s[b]], Len(nest))
    <3>1. Len(nest) \in Nat
      BY <1>12, LenProperties, Zenon
    <3>2. QED
      BY <1>5, <1>6, <3>1 DEF SharesLoops
  <2>2. ASSUME NEW other PROVE ShareAtMost(loops[s[b]], other, Len(nest))
    <3>1. DOMAIN nest = 1 .. Len(nest) /\ Len(nest) \in Nat
      BY <1>12, LenProperties, Zenon
    <3>2. QED
      BY <1>5, <1>6, <3>1 DEF ShareAtMost
  <2>3. PICK after : after = loops'
    BY Zenon
  <2>4. after[e] = nest /\ \A x \in Range(s) : after[x] = loops[x]
    BY <1>2, <1>13, <2>3, Zenon DEF Known
  <2>5. b + Delta(direction) \in DOMAIN s =>
          ShareAtMost(loops[s[b]], loops[s[b + Delta(direction)]], Len(nest))
    BY <2>2, Zenon
  <2>6. QED
    BY <1>2, <1>4, <1>6, <1>8, <1>12, <2>1, <2>3, <2>4, <2>5, InsertKeepsTree
<1>15. /\ computeOps' \in Seq(Sequenced') /\ Range(computeOps') = Sequenced'
       /\ IsDistinct(computeOps')
  BY <1>1, <1>2, <1>7, <1>9, Zenon
<1>16. loops' \in [Known' -> Seq(LoopNames)] /\ \A x \in Known : loops'[x] = loops[x]
  BY <1>13, Zenon
<1>17. IsTree(Nests(computeOps', loops')) /\ InOrder(computeOps', DOMAIN program.nests)
  BY <1>1, <1>7, <1>10, <1>14, Zenon
<1>18. /\ \A x, y \in Sequenced : Precedes(t, x, y) <=> Precedes(s, x, y)
       /\ direction = "kBefore" =>
            \A x \in Sequenced : Precedes(t, x, e) <=> Precedes(s, x, Op(i))
       /\ direction = "kAfter" =>
            \A x \in Sequenced : Precedes(t, e, x) <=> Precedes(s, Op(i), x)
  BY <1>2, <1>5, <1>11, Zenon
<1>19. QED
  BY <1>1, <1>7, <1>15, <1>16, <1>17, <1>18, Zenon

(* A load keeps the invariant.                                              *)
LEMMA InsertLoadKeepsInv ==
  ASSUME IInv, NEW i, NEW pos, InsertLoad(i, pos)
  PROVE  IInv'
<1>1. PICK r, e : r = <<i, pos>> /\ e = Load(r)
  BY Zenon
<1>2. /\ r \in reads /\ reads' = reads \ {r} /\ program' = program /\ pending' = pending
      /\ storage' = storage /\ buffer' = buffer /\ writes' = writes /\ erased' = erased
      /\ numbers' = numbers
  BY <1>1, Zenon DEF InsertLoad
<1>3. /\ computeOps' = Insert(computeOps, e, Point(Op(i), "kBefore", loops[Op(i)]))
      /\ loops' = With(loops, e, loops[Op(i)])
      /\ operands' = [With(operands, e, <<MemRef(buffer)>>) EXCEPT ![Op(i)][pos] = e]
  <2>1. e = <<"load", i, pos>>
    BY <1>1, Zenon DEF Load
  <2>2. QED
    BY <2>1, Zenon DEF InsertLoad
<1>4. TypeOK /\ IsProgram(program)
  BY SequenceTyped, Zenon DEF IInv
<1>5. /\ r \in AllReads(program) /\ BufferOf(r) = buffer /\ buffer # 0 /\ r \notin Loaded
      /\ Loaded' = Loaded \union {r} /\ Stored' = Stored /\ Allocated' = Allocated
  BY <1>2, <1>4, LoadSets, Zenon
<1>6. e \notin Known /\ Op(i) \in Known /\ e # Op(i)
  <2>1. e \notin Known
    BY <1>1, <1>4, <1>5, Unknown, Zenon
  <2>2. i \in DOMAIN program.nests
    BY <1>1, <1>4, <1>5, ProgramTyped, Zenon
  <2>3. QED
    BY <2>1, <2>2, Zenon DEF Known, Sequenced, Originals
<1>7. i \in DOMAIN program.nests /\ pos \in DOMAIN program.operands[i]
  <2>1. r[1] = i /\ r[2] = pos
    BY <1>1, Zenon
  <2>2. r[1] \in DOMAIN program.nests /\ r[2] \in DOMAIN program.operands[r[1]]
    BY <1>4, <1>5, ProgramTyped, Zenon
  <2>3. QED
    BY <2>1, <2>2, Zenon
<1>8. Sequenced' = Sequenced \union {e} /\ Known' = Known \union {e}
  <2>1. Sequenced' = Originals(program) \union {Load(q) : q \in Loaded \union {r}}
                       \union {Store(k) : k \in Stored}
                       \union {Alloc(b) : b \in Allocated} \union {Free(b) : b \in Allocated}
    BY <1>2, <1>5, Zenon DEF Sequenced
  <2>2. {Load(q) : q \in Loaded \union {r}} = {Load(q) : q \in Loaded} \union {e}
    BY <1>1, Zenon
  <2>3. Sequenced' = Sequenced \union {e}
    BY <2>1, <2>2, Zenon DEF Sequenced
  <2>4. Known' = Sequenced' \union {Sizes(b) : b \in Allocated}
    BY <1>5, Zenon DEF Known
  <2>5. QED
    BY <2>3, <2>4, Zenon DEF Known
<1>9. /\ computeOps' \in Seq(Sequenced') /\ Range(computeOps') = Sequenced'
      /\ IsDistinct(computeOps')
      /\ loops' \in [Known' -> Seq(LoopNames)] /\ \A x \in Known : loops'[x] = loops[x]
      /\ IsTree(Nests(computeOps', loops'))
      /\ InOrder(computeOps', DOMAIN program.nests)
      /\ \A x, y \in Sequenced : Precedes(computeOps', x, y) <=> Precedes(computeOps, x, y)
      /\ \A x \in Sequenced : Precedes(computeOps', x, e) <=> Precedes(computeOps, x, Op(i))
  <2>1. e[1] = "load" /\ e[2] = i
    BY <1>1, Zenon DEF Load
  <2>2. QED
    BY <1>2, <1>3, <1>6, <1>7, <1>8, <2>1, InsertAtOperation, Zenon
<1>10. /\ DOMAIN operands' = Known \union {e}
       /\ operands'[e] = <<MemRef(buffer)>>
       /\ \A x \in Known : x # Op(i) => operands'[x] = operands[x]
       /\ operands'[Op(i)] = [operands[Op(i)] EXCEPT ![pos] = e]
  <2>1. DOMAIN operands = Known
    BY <1>4, Zenon DEF TypeOK
  <2>2. QED
    BY <1>3, <1>6, <2>1, Zenon DEF With
<1>11. TypeOK'
  <2>1. ~ Assigned
    BY <1>4, <1>5, Zenon DEF TypeOK
  <2>2. ~ Assigned'
    BY <1>2, <2>1, Zenon DEF Assigned
  <2>3. /\ program' \in Programs /\ pending' \in SUBSET DOMAIN program'.buffers
        /\ buffer' \in {0} \union (DOMAIN program'.buffers \ pending')
    BY <1>2, <1>4, Zenon DEF TypeOK
  <2>4. /\ reads' \in SUBSET {q \in Reads(program', buffer') : buffer' # 0}
        /\ writes' \in SUBSET {k \in Writes(program', buffer') : buffer' # 0}
    BY <1>2, <1>4, Zenon DEF TypeOK
  <2>5. DOMAIN operands' = Known'
    BY <1>8, <1>10, Zenon
  <2>6. QED
    BY <1>9, <2>2, <2>3, <2>4, <2>5, Zenon DEF TypeOK
<1>12. ViewsAreErased'
  BY <1>2, Zenon DEF IInv, ViewsAreErased, Done
<1>13. ResultsAreStored'
  BY <1>2, <1>5, Zenon DEF IInv, ResultsAreStored
<1>14. OperandsAreLoaded'
  <2>0. OperandsAreLoaded
    BY Zenon DEF IInv
  <2>1. ASSUME NEW k \in DOMAIN program.nests
        PROVE  /\ DOMAIN operands'[Op(k)] = DOMAIN program.operands[k]
               /\ \A n \in DOMAIN program.operands[k] :
                    operands'[Op(k)][n] = IF <<k, n>> \in Loaded' THEN Load(<<k, n>>)
                                          ELSE program.operands[k][n]
    <3>1. /\ DOMAIN operands[Op(k)] = DOMAIN program.operands[k]
          /\ \A n \in DOMAIN program.operands[k] :
               operands[Op(k)][n] = IF <<k, n>> \in Loaded THEN Load(<<k, n>>)
                                    ELSE program.operands[k][n]
      BY <2>0, Zenon DEF OperandsAreLoaded
    <3>2. Op(k) \in Known
      BY Zenon DEF Known, Sequenced, Originals
    <3>3. CASE k # i
      <4>1. Op(k) # Op(i)
        BY <3>3, Zenon DEF Op
      <4>2. operands'[Op(k)] = operands[Op(k)]
        BY <1>10, <3>2, <4>1, Zenon
      <4>3. \A n : <<k, n>> \in Loaded' <=> <<k, n>> \in Loaded
        BY <1>1, <1>5, <3>3, Zenon
      <4>4. QED
        BY <3>1, <4>2, <4>3, Zenon
    <3>4. CASE k = i
      <4>1. operands'[Op(k)] = [operands[Op(k)] EXCEPT ![pos] = e]
        BY <1>10, <3>4, Zenon
      <4>2. \A n : <<k, n>> \in Loaded' <=> <<k, n>> \in Loaded \/ n = pos
        BY <1>1, <1>5, <3>4, Zenon
      <4>3. e = Load(<<k, pos>>)
        BY <1>1, <3>4, Zenon
      <4>4. QED
        BY <3>1, <4>1, <4>2, <4>3, Zenon
    <3>5. QED
      BY <3>3, <3>4, Zenon
  <2>2. ASSUME NEW q \in Loaded'
        PROVE  operands'[Load(q)] = <<MemRef(BufferOf(q))>>
    <3>1. CASE q = r
      BY <1>1, <1>5, <1>10, <3>1, Zenon
    <3>2. CASE q \in Loaded
      <4>1. Load(q) \in Known /\ Load(q) # Op(i)
        BY <3>2, Zenon DEF Known, Sequenced, Load, Op
      <4>2. QED
        BY <1>10, <2>0, <3>2, <4>1, Zenon DEF OperandsAreLoaded
    <3>3. QED
      BY <1>5, <3>1, <3>2, Zenon
  <2>3. ASSUME NEW k \in Stored
        PROVE  operands'[Store(k)] = <<MemRef(program.storage[k]), Op(k)>>
    <3>1. Store(k) \in Known /\ Store(k) # Op(i)
      BY Zenon DEF Known, Sequenced, Store, Op
    <3>2. QED
      BY <1>10, <2>0, <3>1, Zenon DEF OperandsAreLoaded
  <2>4. ASSUME NEW b \in Allocated
        PROVE  /\ operands'[Alloc(b)] = GetMemRefShape(b)
               /\ operands'[Free(b)] = <<Alloc(b)>>
               /\ operands'[Sizes(b)] = program.buffers[b].bounds
    <3>1. /\ Alloc(b) \in Known /\ Alloc(b) # Op(i) /\ Free(b) \in Known /\ Free(b) # Op(i)
          /\ Sizes(b) \in Known /\ Sizes(b) # Op(i)
      BY Zenon DEF Known, Sequenced, Alloc, Free, Sizes, Op
    <3>2. QED
      BY <1>10, <2>0, <3>1, Zenon DEF OperandsAreLoaded
  <2>5. /\ \A b : MemRef(b)' = MemRef(b) /\ GetMemRefShape(b)' = GetMemRefShape(b)
        /\ \A q : BufferOf(q)' = BufferOf(q)
    BY <1>2, Zenon DEF MemRef, GetMemRefShape, BufferOf, ReadOf
  <2>6. QED
    BY <1>2, <1>5, <2>1, <2>2, <2>3, <2>4, <2>5, Zenon DEF OperandsAreLoaded
<1>15. LoopsAreGiven'
  <2>1. LoopsAreGiven
    BY Zenon DEF IInv
  <2>2. /\ \A k \in DOMAIN program.nests : Op(k) \in Known
        /\ \A b \in Allocated : Alloc(b) \in Known /\ Free(b) \in Known
    BY Zenon DEF Known, Sequenced, Originals
  <2>3. QED
    BY <1>2, <1>5, <1>9, <2>1, <2>2, Zenon DEF LoopsAreGiven
<1>16. BuffersAreAllocated'
  <2>0. BuffersAreAllocated
    BY Zenon DEF IInv
  <2>1. ASSUME NEW b \in Allocated
        PROVE  /\ \A op \in Accesses(program, b) :
                    Precedes(computeOps', Alloc(b), op) /\ Precedes(computeOps', op, Free(b))
               /\ \A q \in Loaded' : BufferOf(q) = b => Precedes(computeOps', Alloc(b), Load(q))
               /\ \A k \in Stored : program.storage[k] = b => Precedes(computeOps', Store(k), Free(b))
    <3>1. Alloc(b) \in Sequenced /\ Free(b) \in Sequenced
      BY Zenon DEF Sequenced
    <3>2. /\ \A op \in Accesses(program, b) : op \in Sequenced
          /\ \A q \in Loaded : Load(q) \in Sequenced
          /\ \A k \in Stored : Store(k) \in Sequenced
      <4>1. \A op \in Accesses(program, b) : op \in Originals(program)
        BY <1>4, ProgramTyped, ReadsAre, Zenon DEF Accesses, Writes, Originals
      <4>2. QED
        BY <4>1, Zenon DEF Sequenced
    <3>3. /\ \A op \in Accesses(program, b) :
               Precedes(computeOps, Alloc(b), op) /\ Precedes(computeOps, op, Free(b))
          /\ \A q \in Loaded : BufferOf(q) = b => Precedes(computeOps, Alloc(b), Load(q))
          /\ \A k \in Stored : program.storage[k] = b => Precedes(computeOps, Store(k), Free(b))
      BY <2>0, Zenon DEF BuffersAreAllocated, Before
    <3>4. BufferOf(r) = b => Precedes(computeOps', Alloc(b), e)
      <4>1. BufferOf(r) = b => Op(i) \in Accesses(program, b)
        <5>1. BufferOf(r) = b => r \in Reads(program, b)
          BY <1>5, ReadsAre, Zenon DEF BufferOf, ReadOf
        <5>2. r[1] = i
          BY <1>1, Zenon
        <5>3. QED
          BY <5>1, <5>2, Zenon DEF Accesses
      <4>2. QED
        BY <1>9, <3>1, <3>3, <4>1, Zenon
    <3>5. QED
      BY <1>1, <1>5, <1>9, <3>1, <3>2, <3>3, <3>4, Zenon
  <2>2. \A q : BufferOf(q)' = BufferOf(q)
    BY <1>2, Zenon DEF BufferOf, ReadOf
  <2>3. QED
    BY <1>2, <1>5, <2>1, <2>2, Zenon DEF BuffersAreAllocated, Before
<1>17. TreeIsKept' /\ InOrder(computeOps, DOMAIN program.nests)'
  BY <1>2, <1>9, Zenon DEF TreeIsKept
<1>18. QED
  BY <1>11, <1>12, <1>13, <1>14, <1>15, <1>16, <1>17, Zenon DEF IInv

(* A store keeps the invariant.                                             *)
LEMMA InsertStoreKeepsInv ==
  ASSUME IInv, NEW i, InsertStore(i)
  PROVE  IInv'
<1>1. PICK e : e = Store(i)
  BY Zenon
<1>2. /\ i \in writes /\ writes' = writes \ {i} /\ program' = program /\ pending' = pending
      /\ storage' = [storage EXCEPT ![i] = Register] /\ buffer' = buffer /\ reads' = reads
      /\ erased' = erased /\ numbers' = numbers
  BY Zenon DEF InsertStore
<1>3. /\ computeOps' = Insert(computeOps, e, Point(Op(i), "kAfter", loops[Op(i)]))
      /\ loops' = With(loops, e, loops[Op(i)])
      /\ operands' = With(operands, e, <<MemRef(buffer), Op(i)>>)
  <2>1. e = <<"store", i>>
    BY <1>1, Zenon DEF Store
  <2>2. QED
    BY <2>1, Zenon DEF InsertStore
<1>4. TypeOK /\ IsProgram(program)
  BY SequenceTyped, Zenon DEF IInv
<1>5. /\ i \in DOMAIN program.nests /\ program.storage[i] = buffer /\ buffer # 0 /\ i \notin Stored
      /\ Loaded' = Loaded /\ Stored' = Stored \union {i} /\ Allocated' = Allocated
  BY <1>2, <1>4, StoreSets, Zenon
<1>6. e \notin Known
  BY <1>1, <1>4, <1>5, Unknown, Zenon
<1>7. Sequenced' = Sequenced \union {e} /\ Known' = Known \union {e}
  <2>1. Sequenced' = Originals(program) \union {Load(q) : q \in Loaded}
                       \union {Store(k) : k \in Stored \union {i}}
                       \union {Alloc(b) : b \in Allocated} \union {Free(b) : b \in Allocated}
    BY <1>2, <1>5, Zenon DEF Sequenced
  <2>2. {Store(k) : k \in Stored \union {i}} = {Store(k) : k \in Stored} \union {e}
    BY <1>1, Zenon
  <2>3. Sequenced' = Sequenced \union {e}
    BY <2>1, <2>2, Zenon DEF Sequenced
  <2>4. Known' = Sequenced' \union {Sizes(b) : b \in Allocated}
    BY <1>5, Zenon DEF Known
  <2>5. QED
    BY <2>3, <2>4, Zenon DEF Known
<1>8. /\ computeOps' \in Seq(Sequenced') /\ Range(computeOps') = Sequenced'
      /\ IsDistinct(computeOps')
      /\ loops' \in [Known' -> Seq(LoopNames)] /\ \A x \in Known : loops'[x] = loops[x]
      /\ IsTree(Nests(computeOps', loops'))
      /\ InOrder(computeOps', DOMAIN program.nests)
      /\ \A x, y \in Sequenced : Precedes(computeOps', x, y) <=> Precedes(computeOps, x, y)
      /\ \A x \in Sequenced : Precedes(computeOps', e, x) <=> Precedes(computeOps, Op(i), x)
  <2>1. e[1] = "store" /\ e[2] = i
    BY <1>1, Zenon DEF Store
  <2>2. QED
    BY <1>2, <1>3, <1>5, <1>6, <1>7, <2>1, InsertAtOperation, Zenon
<1>9. /\ DOMAIN operands' = Known \union {e}
      /\ operands'[e] = <<MemRef(buffer), Op(i)>>
      /\ \A x \in Known : operands'[x] = operands[x]
  <2>1. DOMAIN operands = Known
    BY <1>4, Zenon DEF TypeOK
  <2>2. QED
    BY <1>3, <1>6, <2>1, Zenon DEF With
<1>10. TypeOK'
  <2>1. ~ Assigned
    BY <1>4, <1>5, Zenon DEF TypeOK
  <2>2. ~ Assigned'
    BY <1>2, <2>1, Zenon DEF Assigned
  <2>3. /\ program' \in Programs /\ pending' \in SUBSET DOMAIN program'.buffers
        /\ buffer' \in {0} \union (DOMAIN program'.buffers \ pending')
    BY <1>2, <1>4, Zenon DEF TypeOK
  <2>4. /\ reads' \in SUBSET {q \in Reads(program', buffer') : buffer' # 0}
        /\ writes' \in SUBSET {k \in Writes(program', buffer') : buffer' # 0}
    BY <1>2, <1>4, Zenon DEF TypeOK
  <2>5. DOMAIN operands' = Known'
    BY <1>7, <1>9, Zenon
  <2>6. QED
    BY <1>8, <2>2, <2>3, <2>4, <2>5, Zenon DEF TypeOK
<1>11. ViewsAreErased'
  BY <1>2, Zenon DEF IInv, ViewsAreErased, Done
<1>12. ResultsAreStored'
  BY <1>2, <1>5, Zenon DEF IInv, ResultsAreStored
<1>13. OperandsAreLoaded'
  <2>0. OperandsAreLoaded
    BY Zenon DEF IInv
  <2>1. \A k \in DOMAIN program.nests : operands'[Op(k)] = operands[Op(k)]
    <3>1. \A k \in DOMAIN program.nests : Op(k) \in Known
      BY Zenon DEF Known, Sequenced, Originals
    <3>2. QED
      BY <1>9, <3>1, Zenon
  <2>2. \A q \in Loaded : operands'[Load(q)] = operands[Load(q)]
    <3>1. \A q \in Loaded : Load(q) \in Known
      BY Zenon DEF Known, Sequenced
    <3>2. QED
      BY <1>9, <3>1, Zenon
  <2>3. ASSUME NEW k \in Stored'
        PROVE  operands'[Store(k)] = <<MemRef(program.storage[k]), Op(k)>>
    <3>1. CASE k = i
      BY <1>1, <1>5, <1>9, <3>1, Zenon
    <3>2. CASE k \in Stored
      <4>1. Store(k) \in Known
        BY <3>2, Zenon DEF Known, Sequenced
      <4>2. QED
        BY <1>9, <2>0, <3>2, <4>1, Zenon DEF OperandsAreLoaded
    <3>3. QED
      BY <1>5, <3>1, <3>2, Zenon
  <2>4. ASSUME NEW b \in Allocated
        PROVE  /\ operands'[Alloc(b)] = operands[Alloc(b)] /\ operands'[Free(b)] = operands[Free(b)]
               /\ operands'[Sizes(b)] = operands[Sizes(b)]
    <3>1. Alloc(b) \in Known /\ Free(b) \in Known /\ Sizes(b) \in Known
      BY Zenon DEF Known, Sequenced
    <3>2. QED
      BY <1>9, <3>1, Zenon
  <2>5. /\ \A b : MemRef(b)' = MemRef(b) /\ GetMemRefShape(b)' = GetMemRefShape(b)
        /\ \A q : BufferOf(q)' = BufferOf(q)
    BY <1>2, Zenon DEF MemRef, GetMemRefShape, BufferOf, ReadOf
  <2>6. QED
    BY <1>2, <1>5, <2>0, <2>1, <2>2, <2>3, <2>4, <2>5 DEF OperandsAreLoaded
<1>14. LoopsAreGiven'
  <2>1. LoopsAreGiven
    BY Zenon DEF IInv
  <2>2. /\ \A k \in DOMAIN program.nests : Op(k) \in Known
        /\ \A b \in Allocated : Alloc(b) \in Known /\ Free(b) \in Known
    BY Zenon DEF Known, Sequenced, Originals
  <2>3. QED
    BY <1>2, <1>5, <1>8, <2>1, <2>2, Zenon DEF LoopsAreGiven
<1>15. BuffersAreAllocated'
  <2>0. BuffersAreAllocated
    BY Zenon DEF IInv
  <2>1. ASSUME NEW b \in Allocated
        PROVE  /\ \A op \in Accesses(program, b) :
                    Precedes(computeOps', Alloc(b), op) /\ Precedes(computeOps', op, Free(b))
               /\ \A q \in Loaded : BufferOf(q) = b => Precedes(computeOps', Alloc(b), Load(q))
               /\ \A k \in Stored' : program.storage[k] = b => Precedes(computeOps', Store(k), Free(b))
    <3>1. Alloc(b) \in Sequenced /\ Free(b) \in Sequenced
      BY Zenon DEF Sequenced
    <3>2. /\ \A op \in Accesses(program, b) : op \in Sequenced
          /\ \A q \in Loaded : Load(q) \in Sequenced
          /\ \A k \in Stored : Store(k) \in Sequenced
      <4>1. \A op \in Accesses(program, b) : op \in Originals(program)
        BY <1>4, ProgramTyped, ReadsAre, Zenon DEF Accesses, Writes, Originals
      <4>2. QED
        BY <4>1, Zenon DEF Sequenced
    <3>3. /\ \A op \in Accesses(program, b) :
               Precedes(computeOps, Alloc(b), op) /\ Precedes(computeOps, op, Free(b))
          /\ \A q \in Loaded : BufferOf(q) = b => Precedes(computeOps, Alloc(b), Load(q))
          /\ \A k \in Stored : program.storage[k] = b => Precedes(computeOps, Store(k), Free(b))
      BY <2>0, Zenon DEF BuffersAreAllocated, Before
    <3>4. program.storage[i] = b => Precedes(computeOps', e, Free(b))
      <4>1. program.storage[i] = b => Op(i) \in Accesses(program, b)
        BY <1>5, Zenon DEF Accesses, Writes
      <4>2. QED
        BY <1>8, <3>1, <3>3, <4>1, Zenon
    <3>5. QED
      BY <1>1, <1>5, <1>8, <3>1, <3>2, <3>3, <3>4, Zenon
  <2>2. \A q : BufferOf(q)' = BufferOf(q)
    BY <1>2, Zenon DEF BufferOf, ReadOf
  <2>3. QED
    BY <1>2, <1>5, <2>1, <2>2, Zenon DEF BuffersAreAllocated, Before
<1>16. TreeIsKept' /\ InOrder(computeOps, DOMAIN program.nests)'
  BY <1>2, <1>8, Zenon DEF TreeIsKept
<1>17. QED
  BY <1>10, <1>11, <1>12, <1>13, <1>14, <1>15, <1>16, Zenon DEF IInv

(* Steps that insert nothing.                                               *)
LEMMA SameOperations ==
  ASSUME IInv, UNCHANGED <<program, computeOps, loops, operands, storage>>,
         Loaded' = Loaded, Stored' = Stored, Allocated' = Allocated
  PROVE  /\ computeOps' \in Seq(Sequenced') /\ Range(computeOps') = Sequenced'
         /\ IsDistinct(computeOps') /\ loops' \in [Known' -> Seq(LoopNames)]
         /\ DOMAIN operands' = Known'
         /\ ResultsAreStored' /\ OperandsAreLoaded' /\ LoopsAreGiven' /\ TreeIsKept'
         /\ InOrder(computeOps, DOMAIN program.nests)' /\ BuffersAreAllocated'
<1>1. Sequenced' = Sequenced /\ Known' = Known
  <2>1. Sequenced' = Sequenced
    BY Zenon DEF Sequenced
  <2>2. QED
    BY <2>1, Zenon DEF Known
<1>2. /\ computeOps' \in Seq(Sequenced') /\ Range(computeOps') = Sequenced'
      /\ IsDistinct(computeOps') /\ loops' \in [Known' -> Seq(LoopNames)]
      /\ DOMAIN operands' = Known'
  BY <1>1, Zenon DEF IInv, TypeOK
<1>3. /\ \A b : MemRef(b)' = MemRef(b) /\ GetMemRefShape(b)' = GetMemRefShape(b)
      /\ \A q : BufferOf(q)' = BufferOf(q)
  BY Zenon DEF MemRef, GetMemRefShape, BufferOf, ReadOf
<1>4. ResultsAreStored' /\ LoopsAreGiven' /\ TreeIsKept'
  BY Zenon DEF IInv, ResultsAreStored, LoopsAreGiven, TreeIsKept
<1>5. OperandsAreLoaded'
  BY <1>3, Zenon DEF IInv, OperandsAreLoaded
<1>6. BuffersAreAllocated'
  BY <1>3, Zenon DEF IInv, BuffersAreAllocated, Before
<1>7. InOrder(computeOps, DOMAIN program.nests)'
  BY Zenon DEF IInv
<1>8. QED
  BY <1>2, <1>4, <1>5, <1>6, <1>7, Zenon

(* Taking the memory of an import keeps the invariant.                      *)
LEMMA RetrieveBufferKeepsInv ==
  ASSUME IInv, NEW b, RetrieveBuffer(b)
  PROVE  IInv'
<1>1. /\ buffer = 0 /\ b \in pending /\ program.buffers[b].external /\ BeginAccesses(b)
      /\ UNCHANGED <<program, computeOps, loops, operands, storage>>
      /\ erased' = erased /\ numbers' = numbers
  BY Zenon DEF RetrieveBuffer
<1>2. TypeOK /\ IsProgram(program) /\ b \in DOMAIN program.buffers
  BY <1>1, SequenceTyped, Zenon DEF IInv, TypeOK
<1>3. Loaded' = Loaded /\ Stored' = Stored /\ Allocated' = Allocated
  BY <1>1, <1>2, BeginSets, Zenon
<1>4. TypeOK'
  <2>1. ~ Assigned'
    BY <1>1, <1>2, Zenon DEF TypeOK, Assigned
  <2>2. /\ buffer' = b /\ pending' = pending \ {b} /\ reads' = Reads(program, b)
        /\ writes' = Writes(program, b)
    BY <1>1, Zenon DEF BeginAccesses
  <2>3. b # 0
    BY <1>2, ProgramTyped, Zenon
  <2>4. /\ program' \in Programs /\ pending' \in SUBSET DOMAIN program'.buffers
        /\ buffer' \in {0} \union (DOMAIN program'.buffers \ pending')
    BY <1>1, <1>2, <2>2, Zenon DEF TypeOK
  <2>5. /\ reads' \in SUBSET {q \in Reads(program', buffer') : buffer' # 0}
        /\ writes' \in SUBSET {k \in Writes(program', buffer') : buffer' # 0}
    BY <1>1, <2>2, <2>3, Zenon
  <2>6. QED
    BY <1>1, <1>3, <2>1, <2>4, <2>5, SameOperations, Zenon DEF TypeOK
<1>5. ViewsAreErased'
  BY <1>1, Zenon DEF IInv, ViewsAreErased, Done, BeginAccesses
<1>6. QED
  BY <1>1, <1>3, <1>4, <1>5, SameOperations, Zenon DEF IInv

(* So does erasing the views of a buffer.                                   *)
LEMMA DropViewsKeepsInv ==
  ASSUME IInv, DropViews
  PROVE  IInv'
<1>1. /\ buffer # 0 /\ reads = {} /\ writes = {} /\ buffer' = 0
      /\ erased' = erased \union {View(i) : i \in Writes(program, buffer)}
      /\ UNCHANGED <<program, computeOps, loops, operands, storage>>
      /\ pending' = pending /\ reads' = reads /\ writes' = writes /\ numbers' = numbers
  BY Zenon DEF DropViews
<1>2. TypeOK
  BY Zenon DEF IInv
<1>3. Loaded' = Loaded /\ Stored' = Stored /\ Allocated' = Allocated
  BY <1>1, Zenon DEF Loaded, Stored, Allocated, BufferOf, ReadOf
<1>4. TypeOK'
  <2>1. ~ Assigned'
    BY <1>1, <1>2, Zenon DEF TypeOK, Assigned
  <2>2. /\ program' \in Programs /\ pending' \in SUBSET DOMAIN program'.buffers
        /\ buffer' \in {0} \union (DOMAIN program'.buffers \ pending')
    BY <1>1, <1>2, Zenon DEF TypeOK
  <2>3. /\ reads' \in SUBSET {q \in Reads(program', buffer') : buffer' # 0}
        /\ writes' \in SUBSET {k \in Writes(program', buffer') : buffer' # 0}
    BY <1>1, Zenon
  <2>4. QED
    BY <1>1, <1>3, <2>1, <2>2, <2>3, SameOperations, Zenon DEF TypeOK
<1>5. ViewsAreErased'
  <2>1. ViewsAreErased /\ buffer \notin pending
    BY <1>1, <1>2, Zenon DEF IInv, TypeOK
  <2>2. QED
    BY <1>1, <2>1, Zenon DEF ViewsAreErased, Done, Writes, Register
<1>6. QED
  BY <1>1, <1>3, <1>4, <1>5, SameOperations, Zenon DEF IInv

(* So do assigning the attributes and stuttering.                           *)
LEMMA AssignInferredKeepsInv ==
  ASSUME IInv, AssignInferred \/ UNCHANGED vars
  PROVE  IInv'
<1>1. /\ UNCHANGED <<program, computeOps, loops, operands, storage>> /\ UNCHANGED erased
      /\ pending' = pending /\ buffer' = buffer /\ reads' = reads /\ writes' = writes
      /\ (pending = {} /\ buffer = 0) \/ numbers' = numbers
  BY Zenon DEF AssignInferred, vars
<1>2. TypeOK
  BY Zenon DEF IInv
<1>3. Loaded' = Loaded /\ Stored' = Stored /\ Allocated' = Allocated
  BY <1>1, Zenon DEF Loaded, Stored, Allocated, BufferOf, ReadOf
<1>4. TypeOK'
  <2>1. Assigned' => pending' = {} /\ buffer' = 0
    BY <1>1, <1>2, Zenon DEF TypeOK, Assigned
  <2>2. /\ program' \in Programs /\ pending' \in SUBSET DOMAIN program'.buffers
        /\ buffer' \in {0} \union (DOMAIN program'.buffers \ pending')
    BY <1>1, <1>2, Zenon DEF TypeOK
  <2>3. /\ reads' \in SUBSET {q \in Reads(program', buffer') : buffer' # 0}
        /\ writes' \in SUBSET {k \in Writes(program', buffer') : buffer' # 0}
    BY <1>1, <1>2, Zenon DEF TypeOK
  <2>4. QED
    BY <1>1, <1>3, <2>1, <2>2, <2>3, SameOperations, Zenon DEF TypeOK
<1>5. ViewsAreErased'
  BY <1>1, Zenon DEF IInv, ViewsAreErased, Done
<1>6. QED
  BY <1>1, <1>3, <1>4, <1>5, SameOperations, Zenon DEF IInv
-----------------------------------------------------------------------------
(* Allocation.                                                              *)

(* The accesses of a buffer that has to be allocated.                       *)
LEMMA AccessesTyped ==
  ASSUME IInv, NEW b \in DOMAIN program.buffers, ~ program.buffers[b].external
  PROVE  /\ Accesses(program, b) \in SUBSET Range(computeOps) /\ Accesses(program, b) # {}
         /\ program.buffers[b].numLoops \in Nat
         /\ \A x, y \in Accesses(program, b) :
              SharesLoops(loops[x], loops[y], program.buffers[b].numLoops)
<1>1. /\ IsProgram(program) /\ AccessesShareLoops(program, b)
      /\ \A i \in DOMAIN program.nests : loops[Op(i)] = program.nests[i]
      /\ \A i \in DOMAIN program.nests : Op(i) \in Range(computeOps)
  BY SequenceTyped, ProgramsAssumption, Zenon DEF IInv, TypeOK, LoopsAreGiven
<1>2. \A x \in Accesses(program, b) : \E i \in DOMAIN program.nests : x = Op(i)
  BY <1>1, ProgramTyped, ReadsAre, Zenon DEF Accesses, Writes
<1>3. \A x \in Accesses(program, b) : loops[x] = program.nests[x[2]]
  <2> SUFFICES ASSUME NEW x \in Accesses(program, b)
               PROVE  loops[x] = program.nests[x[2]]
    BY Zenon
  <2>1. PICK i \in DOMAIN program.nests : x = Op(i)
    BY <1>2, Zenon
  <2>2. x[2] = i
    BY <2>1, Zenon DEF Op
  <2>3. QED
    BY <1>1, <2>1, <2>2, Zenon
<1>4. Accesses(program, b) # {}
  BY <1>1, Zenon DEF AccessesShareLoops, Accesses
<1>5. program.buffers[b].numLoops \in Nat
  <2>1. program.buffers \in Seq(Buffers(program))
    BY <1>1, Zenon DEF IsProgram
  <2>2. program.buffers[b] \in Buffers(program)
    BY <2>1, LenProperties, ElementOfSeq, Zenon
  <2>3. QED
    BY <2>2, Zenon DEF Buffers
<1>6. \A x, y \in Accesses(program, b) :
        SharesLoops(loops[x], loops[y], program.buffers[b].numLoops)
  BY <1>1, <1>3, Zenon DEF AccessesShareLoops
<1>7. QED
  BY <1>1, <1>2, <1>4, <1>5, <1>6, Zenon

(* Allocating a buffer keeps the invariant.                                 *)
LEMMA AllocateBufferKeepsInv ==
  ASSUME IInv, NEW b, AllocateBuffer(b)
  PROVE  IInv'
<1>1. PICK a, f, z, A, n, from, to :
        /\ a = Alloc(b) /\ f = Free(b) /\ z = Sizes(b)
        /\ A = Accesses(program, b) /\ n = program.buffers[b].numLoops
        /\ from = FindInsertionPoint(computeOps, loops, GetSpan(computeOps, A)[1], n, "kBefore")
        /\ to = FindInsertionPoint(computeOps, loops, GetSpan(computeOps, A)[2], n, "kAfter")
  BY Zenon
<1>2. /\ buffer = 0 /\ b \in pending /\ ~ program.buffers[b].external /\ BeginAccesses(b)
      /\ program' = program /\ storage' = storage /\ erased' = erased /\ numbers' = numbers
  BY Zenon DEF AllocateBuffer
<1>3. FindInsertionPoints(b) = <<from, to>>
  BY <1>1, Zenon DEF FindInsertionPoints
<1>4. /\ computeOps' = Insert(Insert(computeOps, a, from), f, to)
      /\ loops' = With(With(With(loops, z, from.nest), a, from.nest), f, to.nest)
      /\ operands' = With(With(With(operands, z, program.buffers[b].bounds),
                               a, GetMemRefShape(b)), f, <<a>>)
  <2>1. a = <<"alloc", b>> /\ f = <<"free", b>> /\ z = <<"sizes", b>>
    BY <1>1, Zenon DEF Alloc, Free, Sizes
  <2>2. <<from, to>>[1] = from /\ <<from, to>>[2] = to
    BY Zenon
  <2>3. /\ computeOps' = Insert(Insert(computeOps, a, <<from, to>>[1]), f, <<from, to>>[2])
        /\ loops' = With(With(With(loops, z, <<from, to>>[1].nest), a, <<from, to>>[1].nest),
                         f, <<from, to>>[2].nest)
        /\ operands' = With(With(With(operands, z, program.buffers[b].bounds),
                                 a, GetMemRefShape(b)), f, <<a>>)
    BY <1>3, <2>1, Zenon DEF AllocateBuffer
  <2>4. QED
    BY <2>2, <2>3, Zenon
<1>5. TypeOK /\ IsProgram(program) /\ b \in DOMAIN program.buffers
  BY <1>2, SequenceTyped, Zenon DEF IInv, TypeOK
<1>6. Loaded' = Loaded /\ Stored' = Stored /\ Allocated' = Allocated \union {b}
  <2>1. {c \in {b} : ~ program.buffers[c].external} = {b}
    BY <1>2, Zenon
  <2>2. QED
    BY <1>2, <1>5, <2>1, BeginSets, Zenon
<1>7. /\ a \notin Known /\ f \notin Known /\ z \notin Known /\ a # f /\ a # z /\ f # z
  <2>1. b \notin Allocated
    BY <1>2, Zenon DEF Allocated
  <2>2. a \notin Known /\ f \notin Known /\ z \notin Known
    BY <1>1, <1>5, <2>1, Unknown, Zenon
  <2>3. QED
    BY <1>1, <2>2, Zenon DEF Alloc, Free, Sizes
<1>8. Sequenced' = Sequenced \union {a, f} /\ Known' = Known \union {a, f, z}
  <2>1. Sequenced' = Originals(program) \union {Load(q) : q \in Loaded}
                       \union {Store(k) : k \in Stored}
                       \union {Alloc(c) : c \in Allocated \union {b}}
                       \union {Free(c) : c \in Allocated \union {b}}
    BY <1>2, <1>6, Zenon DEF Sequenced
  <2>2. /\ {Alloc(c) : c \in Allocated \union {b}} = {Alloc(c) : c \in Allocated} \union {a}
        /\ {Free(c) : c \in Allocated \union {b}} = {Free(c) : c \in Allocated} \union {f}
        /\ {Sizes(c) : c \in Allocated \union {b}} = {Sizes(c) : c \in Allocated} \union {z}
    BY <1>1, Zenon
  <2>3. Sequenced' = Sequenced \union {a, f}
    BY <2>1, <2>2, Zenon DEF Sequenced
  <2>4. Known' = Sequenced' \union {Sizes(c) : c \in Allocated \union {b}}
    BY <1>6, Zenon DEF Known
  <2>5. QED
    BY <2>2, <2>3, <2>4, Zenon DEF Known
<1>9. /\ loops'[a] = from.nest /\ loops'[f] = to.nest /\ loops'[z] = from.nest
      /\ \A x \in Known : loops'[x] = loops[x]
      /\ DOMAIN loops' = Known'
      /\ loops' = [x \in DOMAIN loops' |-> loops'[x]]
  <2>1. DOMAIN loops = Known
    BY <1>5, Zenon DEF TypeOK
  <2>2. QED
    BY <1>4, <1>7, <1>8, <2>1, Zenon DEF With
<1>10. /\ operands'[a] = GetMemRefShape(b) /\ operands'[f] = <<a>>
       /\ operands'[z] = program.buffers[b].bounds
       /\ \A x \in Known : operands'[x] = operands[x]
       /\ DOMAIN operands' = Known'
  <2>1. DOMAIN operands = Known
    BY <1>5, Zenon DEF TypeOK
  <2>2. QED
    BY <1>4, <1>7, <1>8, <2>1, Zenon DEF With
<1>11. /\ from.nest = to.nest /\ from.nest \in Seq(LoopNames)
       /\ computeOps' \in Seq(Sequenced') /\ IsDistinct(computeOps')
       /\ Range(computeOps') = Range(computeOps) \union {a, f}
       /\ IsTree(Nests(computeOps', loops')) /\ InOrder(computeOps', DOMAIN program.nests)
       /\ \A x, y \in Range(computeOps) :
            Precedes(computeOps', x, y) <=> Precedes(computeOps, x, y)
       /\ \A x \in A : Precedes(computeOps', a, x) /\ Precedes(computeOps', x, f)
  <2>1. PICK T, s, N, t, after : /\ T = Sequenced' /\ s = computeOps /\ t = computeOps'
                                 /\ after = loops' /\ N = DOMAIN program.nests
    BY Zenon
  <2>2. /\ s \in Seq(Sequenced) /\ Range(s) = Sequenced /\ IsDistinct(s)
        /\ IsTree(Nests(s, loops)) /\ InOrder(s, N)
        /\ \A x \in Range(s) : loops[x] \in Seq(LoopNames)
        /\ N \in SUBSET Int /\ \A k \in N : Op(k) \in Range(s)
    BY <2>1, SequenceTyped, Zenon
  <2>3. /\ A \in SUBSET Range(s) /\ A # {} /\ n \in Nat
        /\ \A x, y \in A : SharesLoops(loops[x], loops[y], n)
    <3>1. /\ Accesses(program, b) \in SUBSET Range(computeOps) /\ Accesses(program, b) # {}
          /\ program.buffers[b].numLoops \in Nat
          /\ \A x, y \in Accesses(program, b) :
               SharesLoops(loops[x], loops[y], program.buffers[b].numLoops)
      BY <1>2, <1>5, AccessesTyped, Zenon
    <3>2. QED
      BY <1>1, <2>1, <3>1, Zenon
  <2>4. /\ s \in Seq(T) /\ a \in T /\ f \in T /\ a \notin Range(s) /\ f \notin Range(s)
    BY <1>7, <1>8, <2>1, <2>2 DEF Known
  <2>5. a[1] \notin {"load", "op", "store"} /\ f[1] \notin {"load", "op", "store"}
    BY <1>1, Zenon DEF Alloc, Free
  <2>6. /\ \A x \in Range(s) : after[x] = loops[x]
        /\ after[a] = from.nest /\ after[f] = to.nest
    BY <1>9, <2>1, <2>2, Zenon DEF Known
  <2>7. /\ from = FindInsertionPoint(s, loops, GetSpan(s, A)[1], n, "kBefore")
        /\ to = FindInsertionPoint(s, loops, GetSpan(s, A)[2], n, "kAfter")
        /\ t = Insert(Insert(s, a, from), f, to)
    BY <1>1, <1>4, <2>1, Zenon
  <2>8. /\ from.nest = to.nest /\ from.nest \in Seq(LoopNames)
        /\ t \in Seq(T) /\ IsDistinct(t) /\ Range(t) = Range(s) \union {a, f}
        /\ IsTree(Nests(t, after)) /\ InOrder(t, N)
        /\ \A x, y \in Range(s) : Precedes(t, x, y) <=> Precedes(s, x, y)
        /\ \A x \in A : Precedes(t, a, x) /\ Precedes(t, x, f)
    <3>1. IsSetting(T, s, loops, N, A, n)
      BY <2>2, <2>3, <2>4, Zenon DEF IsSetting, IsOrdered
    <3>2. ArePoints(s, loops, A, n, from, to)
      BY <2>7, Zenon DEF ArePoints
    <3>3. IsFresh(T, s, a) /\ IsFresh(T, s, f) /\ a # f
      BY <1>7, <2>4, <2>5, Zenon DEF IsFresh
    <3>4. IsExtended(s, loops, a, from.nest, after) /\ IsExtended(s, loops, f, to.nest, after)
      BY <2>6, Zenon DEF IsExtended
    <3>5. IsAllocation(T, s, loops, N, A, n, from, to, a, f, after, t)
      BY <2>7, <3>1, <3>2, <3>3, <3>4, Zenon DEF IsAllocation
    <3>6. IsAround(T, s, N, A, from, to, a, f, after, t)
      BY <3>5, AllocateAround, Zenon
    <3>7. QED
      BY <3>6, Zenon DEF IsAround, IsOrdered
  <2>9. QED
    BY <2>1, <2>8, Zenon
<1>12. Range(computeOps') = Sequenced' /\ loops' \in [Known' -> Seq(LoopNames)]
  <2>1. Range(computeOps) = Sequenced /\ loops \in [Known -> Seq(LoopNames)]
    BY <1>5, Zenon DEF TypeOK
  <2>2. \A x \in Known' : loops'[x] \in Seq(LoopNames)
    BY <1>8, <1>9, <1>11, <2>1, Zenon
  <2>3. QED
    BY <1>8, <1>9, <1>11, <2>1, <2>2, Zenon
<1>13. TypeOK'
  <2>1. ~ Assigned'
    BY <1>2, <1>5, Zenon DEF TypeOK, Assigned
  <2>2. /\ buffer' = b /\ pending' = pending \ {b} /\ reads' = Reads(program, b)
        /\ writes' = Writes(program, b)
    BY <1>2, Zenon DEF BeginAccesses
  <2>3. b # 0
    BY <1>5, ProgramTyped, Zenon
  <2>4. /\ program' \in Programs /\ pending' \in SUBSET DOMAIN program'.buffers
        /\ buffer' \in {0} \union (DOMAIN program'.buffers \ pending')
    BY <1>2, <1>5, <2>2, Zenon DEF TypeOK
  <2>5. /\ reads' \in SUBSET {q \in Reads(program', buffer') : buffer' # 0}
        /\ writes' \in SUBSET {k \in Writes(program', buffer') : buffer' # 0}
    BY <1>2, <2>2, <2>3, Zenon
  <2>6. QED
    BY <1>10, <1>11, <1>12, <2>1, <2>4, <2>5, Zenon DEF TypeOK
<1>14. ViewsAreErased'
  BY <1>2, Zenon DEF IInv, ViewsAreErased, Done, BeginAccesses
<1>15. ResultsAreStored'
  BY <1>2, <1>6, Zenon DEF IInv, ResultsAreStored
<1>16. OperandsAreLoaded'
  <2>0. OperandsAreLoaded
    BY Zenon DEF IInv
  <2>1. \A k \in DOMAIN program.nests : operands'[Op(k)] = operands[Op(k)]
    <3>1. \A k \in DOMAIN program.nests : Op(k) \in Known
      BY Zenon DEF Known, Sequenced, Originals
    <3>2. QED
      BY <1>10, <3>1, Zenon
  <2>2. /\ \A q \in Loaded : operands'[Load(q)] = operands[Load(q)]
        /\ \A k \in Stored : operands'[Store(k)] = operands[Store(k)]
    <3>1. /\ \A q \in Loaded : Load(q) \in Known
          /\ \A k \in Stored : Store(k) \in Known
      BY Zenon DEF Known, Sequenced
    <3>2. QED
      BY <1>10, <3>1, Zenon
  <2>3. ASSUME NEW c \in Allocated'
        PROVE  /\ operands'[Alloc(c)] = GetMemRefShape(c) /\ operands'[Free(c)] = <<Alloc(c)>>
               /\ operands'[Sizes(c)] = program.buffers[c].bounds
    <3>1. CASE c = b
      BY <1>1, <1>10, <3>1, Zenon
    <3>2. CASE c \in Allocated
      <4>1. Alloc(c) \in Known /\ Free(c) \in Known /\ Sizes(c) \in Known
        BY <3>2, Zenon DEF Known, Sequenced
      <4>2. QED
        BY <1>10, <2>0, <3>2, <4>1, Zenon DEF OperandsAreLoaded
    <3>3. QED
      BY <1>6, <3>1, <3>2, Zenon
  <2>4. /\ \A c : MemRef(c)' = MemRef(c) /\ GetMemRefShape(c)' = GetMemRefShape(c)
        /\ \A q : BufferOf(q)' = BufferOf(q)
    BY <1>2, Zenon DEF MemRef, GetMemRefShape, BufferOf, ReadOf
  <2>5. QED
    BY <1>2, <1>6, <2>0, <2>1, <2>2, <2>3, <2>4, ZenonT(60) DEF OperandsAreLoaded
<1>17. LoopsAreGiven'
  <2>1. LoopsAreGiven
    BY Zenon DEF IInv
  <2>2. /\ \A k \in DOMAIN program.nests : Op(k) \in Known
        /\ \A c \in Allocated : Alloc(c) \in Known /\ Free(c) \in Known
    BY Zenon DEF Known, Sequenced, Originals
  <2>3. loops'[Alloc(b)] = loops'[Free(b)]
    BY <1>1, <1>9, <1>11, Zenon
  <2>4. QED
    BY <1>2, <1>6, <1>9, <2>1, <2>2, <2>3, Zenon DEF LoopsAreGiven
<1>18. BuffersAreAllocated'
  <2>0. BuffersAreAllocated
    BY Zenon DEF IInv
  <2>1. ASSUME NEW c \in Allocated'
        PROVE  /\ \A op \in Accesses(program, c) :
                    Precedes(computeOps', Alloc(c), op) /\ Precedes(computeOps', op, Free(c))
               /\ \A q \in Loaded : BufferOf(q) = c => Precedes(computeOps', Alloc(c), Load(q))
               /\ \A k \in Stored : program.storage[k] = c => Precedes(computeOps', Store(k), Free(c))
    <3>1. CASE c = b
      <4>1. /\ \A q \in Loaded : BufferOf(q) # b
            /\ \A k \in Stored : program.storage[k] # b
        BY <1>2, Zenon DEF Loaded, Stored
      <4>2. QED
        BY <1>1, <1>11, <3>1, <4>1, Zenon
    <3>2. CASE c \in Allocated
      <4>1. /\ \A op \in Accesses(program, c) :
                 Precedes(computeOps, Alloc(c), op) /\ Precedes(computeOps, op, Free(c))
            /\ \A q \in Loaded : BufferOf(q) = c => Precedes(computeOps, Alloc(c), Load(q))
            /\ \A k \in Stored : program.storage[k] = c => Precedes(computeOps, Store(k), Free(c))
        BY <2>0, <3>2, Zenon DEF BuffersAreAllocated, Before
      <4>2. /\ Alloc(c) \in Sequenced /\ Free(c) \in Sequenced
            /\ \A q \in Loaded : Load(q) \in Sequenced
            /\ \A k \in Stored : Store(k) \in Sequenced
        BY <3>2, Zenon DEF Sequenced
      <4>3. \A op \in Accesses(program, c) : op \in Sequenced
        <5>1. \A op \in Accesses(program, c) : op \in Originals(program)
          BY <1>5, ProgramTyped, ReadsAre, Zenon DEF Accesses, Writes, Originals
        <5>2. QED
          BY <5>1, Zenon DEF Sequenced
      <4>4. Range(computeOps) = Sequenced
        BY <1>5, Zenon DEF TypeOK
      <4>5. QED
        BY <1>11, <4>1, <4>2, <4>3, <4>4, Zenon
    <3>3. QED
      BY <1>6, <3>1, <3>2, Zenon
  <2>2. \A q : BufferOf(q)' = BufferOf(q)
    BY <1>2, Zenon DEF BufferOf, ReadOf
  <2>3. QED
    BY <1>2, <1>6, <2>1, <2>2, Zenon DEF BuffersAreAllocated, Before
<1>19. TreeIsKept' /\ InOrder(computeOps, DOMAIN program.nests)'
  BY <1>2, <1>11, Zenon DEF TreeIsKept
<1>20. QED
  BY <1>13, <1>14, <1>15, <1>16, <1>17, <1>18, <1>19, Zenon DEF IInv
-----------------------------------------------------------------------------
(* The invariant, and what follows from it.                                 *)

(* Every step keeps the invariant.                                          *)
LEMMA NextKeepsInv == IInv /\ [Next]_vars => IInv'
<1> SUFFICES ASSUME IInv, [Next]_vars
             PROVE  IInv'
  BY Zenon
<1>1. ASSUME NEW b \in pending, AllocateBuffer(b)
      PROVE  IInv'
  BY <1>1, AllocateBufferKeepsInv, Zenon
<1>2. ASSUME NEW b \in pending, RetrieveBuffer(b)
      PROVE  IInv'
  BY <1>2, RetrieveBufferKeepsInv, Zenon
<1>3. ASSUME NEW r \in reads, InsertLoad(r[1], r[2])
      PROVE  IInv'
  BY <1>3, InsertLoadKeepsInv, Zenon
<1>4. ASSUME NEW i \in writes, InsertStore(i)
      PROVE  IInv'
  BY <1>4, InsertStoreKeepsInv, Zenon
<1>5. CASE DropViews
  BY <1>5, DropViewsKeepsInv, Zenon
<1>6. CASE AssignInferred \/ UNCHANGED vars
  BY <1>6, AssignInferredKeepsInv, Zenon
<1>7. QED
  BY <1>1, <1>2, <1>3, <1>4, <1>5, <1>6, Zenon DEF Next

(* The invariant holds in every state.                                      *)
LEMMA InvHolds == Spec => []IInv
<1>1. QED
  BY InitIInv, NextKeepsInv, PTL DEF Spec

(* The operations that take the memory of a buffer: its loads and stores.   *)
LEMMA UsersOfMemory ==
  ASSUME IInv, NEW b \in Allocated, NEW op \in DOMAIN operands,
         Alloc(b) \in Range(operands[op]), op # Free(b)
  PROVE  \/ \E r \in Loaded : op = Load(r) /\ BufferOf(r) = b
         \/ \E i \in Stored : op = Store(i) /\ program.storage[i] = b
<1>1. OperandsAreLoaded /\ IsProgram(program) /\ DOMAIN operands = Known
  BY SequenceTyped, Zenon DEF IInv, TypeOK
<1>2. PICK j \in DOMAIN operands[op] : operands[op][j] = Alloc(b)
  BY Zenon DEF Range
<1>3. \A v : v \in Values(program) => v # Alloc(b)
  BY DEF Values, Originals, Op, View, Alloc
<1>4. \A c : MemRef(c) = Alloc(b) => c = b
  BY Zenon DEF MemRef, Alloc
<1>5. ASSUME NEW i \in DOMAIN program.nests, op = Op(i)
      PROVE  FALSE
  <2>1. /\ DOMAIN operands[op] = DOMAIN program.operands[i]
        /\ operands[op][j] = IF <<i, j>> \in Loaded THEN Load(<<i, j>>)
                             ELSE program.operands[i][j]
    BY <1>1, <1>2, <1>5, Zenon DEF OperandsAreLoaded
  <2>2. PICK r : r = <<i, j>>
    BY Zenon
  <2>3. r \in AllReads(program) /\ r[1] = i /\ r[2] = j
    BY <1>1, <1>2, <2>1, <2>2, ProgramTyped, Zenon
  <2>4. program.operands[i][j] \in Values(program)
    BY <1>1, <2>3, ProgramTyped, Zenon
  <2>5. Load(r) # Alloc(b)
    BY Zenon DEF Load, Alloc
  <2>6. QED
    BY <1>2, <1>3, <2>1, <2>2, <2>4, <2>5, Zenon
<1>6. ASSUME NEW r \in Loaded, op = Load(r)
      PROVE  BufferOf(r) = b
  <2>1. operands[op] = <<MemRef(BufferOf(r))>>
    BY <1>1, <1>6, Zenon DEF OperandsAreLoaded
  <2>2. QED
    BY <1>2, <1>4, <2>1
<1>7. ASSUME NEW i \in Stored, op = Store(i)
      PROVE  program.storage[i] = b
  <2>1. operands[op] = <<MemRef(program.storage[i]), Op(i)>>
    BY <1>1, <1>7, Zenon DEF OperandsAreLoaded
  <2>2. Op(i) # Alloc(b)
    BY Zenon DEF Op, Alloc
  <2>3. QED
    BY <1>2, <1>4, <2>1, <2>2
<1>8. ASSUME NEW c \in Allocated, op = Alloc(c)
      PROVE  FALSE
  <2>1. operands[op] = GetMemRefShape(c)
    BY <1>1, <1>8, Zenon DEF OperandsAreLoaded
  <2>2. operands[op] = << >> \/ operands[op] = <<<<"sizes", c>>>>
    BY <2>1, Zenon DEF GetMemRefShape
  <2>3. QED
    BY <1>2, <2>2 DEF Alloc
<1>9. ASSUME NEW c \in Allocated, op = Free(c)
      PROVE  FALSE
  <2>1. operands[op] = <<Alloc(c)>>
    BY <1>1, <1>9, Zenon DEF OperandsAreLoaded
  <2>2. Alloc(c) = Alloc(b)
    BY <1>2, <2>1
  <2>3. c = b
    BY <2>2, Zenon DEF Alloc
  <2>4. QED
    BY <1>9, <2>3, Zenon
<1>10. ASSUME NEW c \in Allocated, op = Sizes(c)
       PROVE  FALSE
  <2>1. operands[op] = program.buffers[c].bounds
    BY <1>1, <1>10, Zenon DEF OperandsAreLoaded
  <2>2. program.buffers[c] \in Buffers(program)
    BY <1>1, LenProperties, ElementOfSeq, Zenon DEF IsProgram, Allocated
  <2>3. operands[op] \in Seq(Originals(program))
    BY <2>1, <2>2, Zenon DEF Buffers
  <2>4. operands[op][j] \in Originals(program)
    BY <1>2, <2>3, LenProperties, ElementOfSeq, Zenon
  <2>5. QED
    BY <1>2, <1>3, <2>4, Zenon DEF Values
<1>11. \/ \E i \in DOMAIN program.nests : op = Op(i)
       \/ \E r \in Loaded : op = Load(r)
       \/ \E i \in Stored : op = Store(i)
       \/ \E c \in Allocated : op = Alloc(c) \/ op = Free(c) \/ op = Sizes(c)
  BY <1>1, Zenon DEF Known, Sequenced, Originals
<1>12. QED
  BY <1>5, <1>6, <1>7, <1>8, <1>9, <1>10, <1>11, Zenon

(* Memory is allocated before its uses and released after them, in the same *)
(* iteration of the loops around both.                                      *)
LEMMA InvOutlives == IInv => BufferOutlivesAccesses
<1> SUFFICES ASSUME IInv, NEW b \in DOMAIN program.buffers, Done(b),
                    ~ program.buffers[b].external
             PROVE  /\ \A op \in DOMAIN operands :
                         Alloc(b) \in Range(operands[op]) /\ op # Free(b) =>
                           /\ Number(computeOps, Alloc(b)) < Number(computeOps, op)
                           /\ Number(computeOps, op) < Number(computeOps, Free(b))
                    /\ loops[Alloc(b)] = loops[Free(b)]
                    /\ \A n \in Number(computeOps, Alloc(b)) .. Number(computeOps, Free(b)) :
                         SharesLoops(loops[Alloc(b)], loops[computeOps[n + 1]], Len(loops[Alloc(b)]))
  BY Zenon DEF BufferOutlivesAccesses, Alloc, Free
<1>1. b \in Allocated
  BY Zenon DEF Done, Allocated
<1>2. /\ IsProgram(program) /\ IsTree(Nests(computeOps, loops))
      /\ computeOps \in Seq(Sequenced) /\ Range(computeOps) = Sequenced
      /\ IsDistinct(computeOps) /\ InOrder(computeOps, DOMAIN program.nests)
      /\ \A x \in Range(computeOps) : loops[x] \in Seq(LoopNames)
      /\ \A i \in DOMAIN program.nests : Op(i) \in Range(computeOps)
  BY SequenceTyped, Zenon
<1>3. Alloc(b) \in Range(computeOps) /\ Free(b) \in Range(computeOps)
  BY <1>1, <1>2, Zenon DEF Sequenced
<1>4. \A x \in Range(computeOps) : Number(computeOps, x) \in Int
  BY <1>2, NumberExists
<1>4a. \A x, y, z \in Range(computeOps) :
         Precedes(computeOps, x, y) /\ Precedes(computeOps, y, z) => Precedes(computeOps, x, z)
  BY <1>2, PrecedesIsStrict, Zenon
<1>5. /\ \A op \in Accesses(program, b) :
           Precedes(computeOps, Alloc(b), op) /\ Precedes(computeOps, op, Free(b))
      /\ \A r \in Loaded : BufferOf(r) = b => Precedes(computeOps, Alloc(b), Load(r))
      /\ \A i \in Stored : program.storage[i] = b => Precedes(computeOps, Store(i), Free(b))
  BY <1>1, Zenon DEF IInv, BuffersAreAllocated, Before
<1>6. ASSUME NEW op \in DOMAIN operands, Alloc(b) \in Range(operands[op]), op # Free(b)
      PROVE  Precedes(computeOps, Alloc(b), op) /\ Precedes(computeOps, op, Free(b))
  <2>1. CASE \E r \in Loaded : op = Load(r) /\ BufferOf(r) = b
    <3>1. PICK r \in Loaded : op = Load(r) /\ BufferOf(r) = b
      BY <2>1, Zenon
    <3>2. PICK i : i = r[1]
      BY Zenon
    <3>3. /\ r \in AllReads(program) /\ i \in DOMAIN program.nests
          /\ Op(i) \in Range(computeOps)
      BY <1>2, <3>2, ProgramTyped, Zenon DEF Loaded
    <3>4. Op(i) \in Accesses(program, b)
      <4>1. r \in Reads(program, b)
        BY <3>1, <3>3, ReadsAre, Zenon DEF BufferOf, ReadOf
      <4>2. QED
        BY <3>2, <4>1, Zenon DEF Accesses
    <3>5. op \in Range(computeOps) /\ op[1] = "load" /\ op[2] = i
      BY <1>2, <3>1, <3>2, Zenon DEF Sequenced, Load
    <3>6. Precedes(computeOps, op, Op(i))
      BY <1>2, <3>3, <3>5, Zenon DEF InOrder, Own
    <3>7. Precedes(computeOps, Alloc(b), op) /\ Precedes(computeOps, Op(i), Free(b))
      BY <1>5, <3>1, <3>4, Zenon
    <3>8. QED
      BY <1>3, <1>4a, <3>3, <3>5, <3>6, <3>7, Zenon
  <2>2. CASE \E i \in Stored : op = Store(i) /\ program.storage[i] = b
    <3>1. PICK i \in Stored : op = Store(i) /\ program.storage[i] = b
      BY <2>2, Zenon
    <3>2. i \in DOMAIN program.nests /\ Op(i) \in Range(computeOps)
      BY <1>2, Zenon DEF Stored
    <3>3. Op(i) \in Accesses(program, b)
      BY <3>1, <3>2, Zenon DEF Accesses, Writes
    <3>4. op \in Range(computeOps) /\ op[1] = "store" /\ op[2] = i
      BY <1>2, <3>1, Zenon DEF Sequenced, Store
    <3>5. Precedes(computeOps, Op(i), op)
      BY <1>2, <3>2, <3>4, Zenon DEF InOrder, Own
    <3>6. Precedes(computeOps, Alloc(b), Op(i)) /\ Precedes(computeOps, op, Free(b))
      BY <1>5, <3>1, <3>3, Zenon
    <3>7. QED
      BY <1>3, <1>4a, <3>2, <3>4, <3>5, <3>6, Zenon
  <2>3. QED
    BY <1>1, <1>6, <2>1, <2>2, UsersOfMemory, Zenon
<1>7. loops[Alloc(b)] = loops[Free(b)]
  BY <1>1, Zenon DEF IInv, LoopsAreGiven
<1>8. ASSUME NEW n \in Number(computeOps, Alloc(b)) .. Number(computeOps, Free(b))
      PROVE  SharesLoops(loops[Alloc(b)], loops[computeOps[n + 1]], Len(loops[Alloc(b)]))
  <2>1. PICK x, y, z, ns : /\ x = Number(computeOps, Alloc(b)) + 1
                           /\ y = Number(computeOps, Free(b)) + 1
                           /\ z = n + 1 /\ ns = Nests(computeOps, loops)
    BY Zenon
  <2>2. /\ x \in DOMAIN computeOps /\ computeOps[x] = Alloc(b)
        /\ y \in DOMAIN computeOps /\ computeOps[y] = Free(b)
    BY <1>2, <1>3, <2>1, NumberExists, Zenon
  <2>3. DOMAIN computeOps = 1 .. Len(computeOps) /\ Len(computeOps) \in Nat
    BY <1>2, LenProperties, Zenon
  <2>4. z \in x .. y /\ z \in DOMAIN computeOps
    <3>1. Number(computeOps, Alloc(b)) \in Int /\ Number(computeOps, Free(b)) \in Int
      BY <1>3, <1>4, Zenon
    <3>2. z \in x .. y
      BY <2>1, <3>1
    <3>3. QED
      BY <2>2, <2>3, <3>2
  <2>5. /\ DOMAIN ns = 1 .. Len(computeOps)
        /\ \A k \in 1 .. Len(computeOps) : ns[k] = loops[computeOps[k]] /\ ns[k] \in Seq(LoopNames)
    BY <1>2, <2>1, <2>3, Zenon DEF Nests, Range
  <2>6. ns \in Seq(Seq(LoopNames))
    <3>1. ns = [k \in 1 .. Len(computeOps) |-> ns[k]]
      BY <2>1, <2>3, Zenon DEF Nests
    <3>2. QED
      BY <2>3, <2>5, <3>1, IsASeq, Zenon
  <2>7. ns[x] = loops[Alloc(b)] /\ ns[y] = loops[Free(b)] /\ ns[z] = loops[computeOps[z]]
    BY <2>2, <2>3, <2>4, <2>5, Zenon
  <2>8. SharesLoops(ns[x], ns[z], Len(ns[x]))
    <3>1. IsTree(ns) /\ x \in DOMAIN ns /\ y \in DOMAIN ns /\ ns[x] = ns[y]
      BY <1>2, <1>7, <2>1, <2>2, <2>3, <2>5, <2>7, Zenon
    <3>2. QED
      BY <2>4, <2>6, <3>1, NestsBetween, Zenon
  <2>9. QED
    BY <2>1, <2>7, <2>8, Zenon
<1>9. QED
  BY <1>6, <1>7, <1>8, Zenon DEF Precedes

(* The accesses of the program keep their order.                            *)
LEMMA InvInOrder == IInv => AccessesKeepTheirOrder
<1> SUFFICES ASSUME IInv
             PROVE  AccessesKeepTheirOrder
  BY Zenon
<1>1. InOrder(computeOps, DOMAIN program.nests)
  BY Zenon DEF IInv
<1>2. \A k : {op \in Range(computeOps) : op[1] \in {"load", "op", "store"} /\ op[2] = k}
               = Own(computeOps, k)
  BY Zenon DEF Own, Range
<1>3. QED
  BY <1>1, <1>2, Zenon DEF AccessesKeepTheirOrder, InOrder, Precedes

(* What Insert puts into the sequence, at points found before other         *)
(* insertions, splits no loop.                                              *)
THEOREM BuffersKeepTree == Spec => []TreeIsKept
<1>1. IInv => TreeIsKept
  BY Zenon DEF IInv
<1>2. QED
  BY <1>1, InvHolds, PTL

(* In every program the accesses to the memory of a buffer happen in the    *)
(* order in which operations read and wrote its values, between its         *)
(* allocation and its release, in the same iteration of the loops around.   *)
THEOREM BuffersAreUsedInOrder == Spec => []MemoryIsUsedInOrder
<1>1. IInv => MemoryIsUsedInOrder
  BY InvOutlives, InvInOrder, Zenon DEF MemoryIsUsedInOrder
<1>2. QED
  BY <1>1, InvHolds, PTL

(* A view that has been erased is no operand: what read it reads a load.    *)
LEMMA ErasedIsUnused ==
  ASSUME IInv, NEW op \in DOMAIN operands, NEW v \in erased
  PROVE  v \notin Range(operands[op])
<1> SUFFICES ASSUME v \in Range(operands[op])
             PROVE  FALSE
  BY Zenon
<1>1. OperandsAreLoaded /\ IsProgram(program) /\ DOMAIN operands = Known
  BY SequenceTyped, Zenon DEF IInv, TypeOK
<1>2. PICK j \in DOMAIN operands[op] : operands[op][j] = v
  BY Zenon DEF Range
<1>3. PICK i \in DOMAIN program.nests :
        v = View(i) /\ program.storage[i] # Register /\ Done(program.storage[i])
  BY Zenon DEF IInv, ViewsAreErased
<1>4. v[1] = "view" /\ v[2] = i
  BY <1>3, Zenon DEF View
<1>5. ASSUME NEW k \in DOMAIN program.nests, op = Op(k)
      PROVE  FALSE
  <2>1. PICK r : r = <<k, j>>
    BY Zenon
  <2>2. /\ DOMAIN operands[op] = DOMAIN program.operands[k]
        /\ operands[op][j] = IF r \in Loaded THEN Load(r) ELSE program.operands[k][j]
    BY <1>1, <1>2, <1>5, <2>1, Zenon DEF OperandsAreLoaded
  <2>3. r \notin Loaded /\ program.operands[k][j] = v
    BY <1>2, <1>4, <2>2 DEF Load
  <2>4. r \in AllReads(program) /\ r[1] = k /\ r[2] = j
    BY <1>1, <1>2, <2>1, <2>2, ProgramTyped, Zenon
  <2>5. BufferOf(r) = program.storage[i]
    BY <1>4, <2>3, <2>4, Zenon DEF BufferOf, ReadOf, StorageOf
  <2>6. r \notin reads
    <3>1. reads \in SUBSET {q \in Reads(program, buffer) : buffer # 0}
      BY Zenon DEF IInv, TypeOK
    <3>2. r \notin Reads(program, buffer)
      BY <1>3, <2>5, ReadsAre, Zenon DEF BufferOf, ReadOf, Done
    <3>3. QED
      BY <3>1, <3>2, Zenon
  <2>7. QED
    BY <1>3, <2>3, <2>4, <2>5, <2>6, Zenon DEF Loaded, Done
<1>6. ASSUME NEW r \in Loaded, op = Load(r)
      PROVE  FALSE
  <2>1. operands[op] = <<MemRef(BufferOf(r))>>
    BY <1>1, <1>6, Zenon DEF OperandsAreLoaded
  <2>2. QED
    BY <1>2, <1>4, <2>1 DEF MemRef
<1>7. ASSUME NEW k \in Stored, op = Store(k)
      PROVE  FALSE
  <2>1. operands[op] = <<MemRef(program.storage[k]), Op(k)>>
    BY <1>1, <1>7, Zenon DEF OperandsAreLoaded
  <2>2. v = MemRef(program.storage[k]) \/ v = Op(k)
    BY <1>2, <2>1
  <2>3. QED
    BY <1>4, <2>2 DEF MemRef, Op
<1>8. ASSUME NEW c \in Allocated, op = Alloc(c)
      PROVE  FALSE
  <2>1. operands[op] = << >> \/ operands[op] = <<<<"sizes", c>>>>
    BY <1>1, <1>8, Zenon DEF OperandsAreLoaded, GetMemRefShape
  <2>2. QED
    BY <1>2, <1>4, <2>1
<1>9. ASSUME NEW c \in Allocated, op = Free(c)
      PROVE  FALSE
  <2>1. operands[op] = <<Alloc(c)>>
    BY <1>1, <1>9, Zenon DEF OperandsAreLoaded
  <2>2. QED
    BY <1>2, <1>4, <2>1 DEF Alloc
<1>10. ASSUME NEW c \in Allocated, op = Sizes(c)
       PROVE  FALSE
  <2>1. operands[op] = program.buffers[c].bounds
    BY <1>1, <1>10, Zenon DEF OperandsAreLoaded
  <2>2. program.buffers[c] \in Buffers(program)
    BY <1>1, LenProperties, ElementOfSeq, Zenon DEF IsProgram, Allocated
  <2>3. operands[op] \in Seq(Originals(program))
    BY <2>1, <2>2, Zenon DEF Buffers
  <2>4. v \in Originals(program)
    BY <1>2, <2>3, LenProperties, ElementOfSeq, Zenon
  <2>5. QED
    BY <1>4, <2>4 DEF Originals, Op
<1>11. \/ \E k \in DOMAIN program.nests : op = Op(k)
       \/ \E r \in Loaded : op = Load(r)
       \/ \E k \in Stored : op = Store(k)
       \/ \E c \in Allocated : op = Alloc(c) \/ op = Free(c) \/ op = Sizes(c)
  BY <1>1, Zenon DEF Known, Sequenced, Originals
<1>12. QED
  BY <1>5, <1>6, <1>7, <1>8, <1>9, <1>10, <1>11, Zenon

(* When the attributes are assigned, every operand is in a register.        *)
LEMMA AllIsLoaded ==
  ASSUME IInv, Assigned
  PROVE  /\ \A i \in DOMAIN storage : storage[i] = Register
         /\ \A i \in DOMAIN program.nests : \A pos \in DOMAIN program.operands[i] :
              IF StorageOf(program, program.operands[i][pos]) = Register
              THEN operands[Op(i)][pos] = program.operands[i][pos]
              ELSE operands[operands[Op(i)][pos]] =
                     <<MemRef(StorageOf(program, program.operands[i][pos]))>>
<1>1. /\ pending = {} /\ buffer = 0 /\ reads = {} /\ writes = {} /\ IsProgram(program)
      /\ ResultsAreStored /\ OperandsAreLoaded
  BY SequenceTyped, Zenon DEF IInv, TypeOK
<1>2. \A i \in DOMAIN storage : storage[i] = Register
  BY <1>1 DEF ResultsAreStored, Stored
<1>3. ASSUME NEW i \in DOMAIN program.nests, NEW pos \in DOMAIN program.operands[i]
      PROVE  IF StorageOf(program, program.operands[i][pos]) = Register
             THEN operands[Op(i)][pos] = program.operands[i][pos]
             ELSE operands[operands[Op(i)][pos]] =
                    <<MemRef(StorageOf(program, program.operands[i][pos]))>>
  <2>1. PICK r : r = <<i, pos>>
    BY Zenon
  <2>2. r \in AllReads(program) /\ r[1] = i /\ r[2] = pos
    BY <1>1, <2>1, ProgramTyped, Zenon
  <2>3. BufferOf(r) = StorageOf(program, program.operands[i][pos])
    BY <2>2, Zenon DEF BufferOf, ReadOf
  <2>4. r \in Loaded <=> BufferOf(r) # Register
    BY <1>1, <2>2, Zenon DEF Loaded
  <2>5. operands[Op(i)][pos] = IF r \in Loaded THEN Load(r) ELSE program.operands[i][pos]
    BY <1>1, <2>1, Zenon DEF OperandsAreLoaded
  <2>6. r \in Loaded => operands[Load(r)] = <<MemRef(BufferOf(r))>>
    BY <1>1, Zenon DEF OperandsAreLoaded
  <2>7. QED
    BY <2>3, <2>4, <2>5, <2>6, Zenon
<1>4. QED
  BY <1>2, <1>3, Zenon

(* "These operations would be removed by DCE anyway" holds of every program *)
(* that returns only what is in registers: nothing uses a projection or an  *)
(* fby when it is erased, and at the end no operand and no result is in     *)
(* memory.                                                                  *)
THEOREM BuffersAreEmptied ==
  ASSUME \A p \in Programs : ExitReadsRegisters(p)
  PROVE  Spec => []NothingStaysInMemory
<1>1. IInv => NothingStaysInMemory
  <2> SUFFICES ASSUME IInv
               PROVE  NothingStaysInMemory
    BY Zenon
  <2>1. \A op \in DOMAIN operands : Range(operands[op]) \intersect erased = {}
    BY ErasedIsUnused, Zenon
  <2>2. program.exit \intersect erased = {}
    <3> SUFFICES ASSUME NEW v \in program.exit, v \in erased
                 PROVE  FALSE
      BY Zenon
    <3>1. PICK i \in DOMAIN program.nests : v = View(i) /\ program.storage[i] # Register
      BY Zenon DEF IInv, ViewsAreErased
    <3>2. StorageOf(program, v) = Register
      BY Zenon DEF IInv, TypeOK, ExitReadsRegisters
    <3>3. QED
      BY <3>1, <3>2, Zenon DEF StorageOf, View
  <2>3. QED
    BY <2>1, <2>2, AllIsLoaded, Zenon DEF NothingStaysInMemory
<1>2. QED
  BY <1>1, InvHolds, PTL
=============================================================================
