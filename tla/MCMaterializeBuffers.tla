------------------------ MODULE MCMaterializeBuffers ------------------------
(* Programs of three compute operations in every tree of up to two nested    *)
(* loops, with one internal buffer and one that may be imported.             *)
EXTENDS SequenceAfterBuffers

CONSTANTS
  MaxDepth,
  BufferedCarry,   \* may what an fby carries come through memory?
  DynamicSizes,    \* which buffers have sizes to compute: "none", "outer", "any"
  ExitReadsMemory  \* may sair.exit return the view of a value in memory?

MCNests ==
  {nest \in UNION {[1 .. n -> LoopNames] : n \in 0 .. MaxDepth} :
     \A p, q \in DOMAIN nest : nest[p] = nest[q] => p = q}

(* Trees whose first loop is A: the names of loops do not matter.           *)
MCTrees ==
  {t \in [1 .. 3 -> MCNests] :
     /\ IsTree(t)
     /\ LET names == t[1] \o t[2] \o t[3] IN names # <<>> => names[1] = "A"}

(* A chain of operations, that may read results directly or through a view, *)
(* two of them, or read what was computed in an earlier iteration.          *)
MCOperands ==
  {<<>>, <<View(3)>>} \X {<<Op(1)>>, <<View(1)>>} \X {<<Op(2)>>, <<Op(1), View(2)>>}

(* The loops that all accesses to b share.                                  *)
SharedLoops(p, b) ==
  {n \in 0 .. MaxDepth :
     \A x, y \in Accesses(p, b) : SharesLoops(p.nests[x[2]], p.nests[y[2]], n)}

(* A carried value is carried by a loop around the three operations.        *)
IsCarriedByLoop(p) ==
  p.operands[1] # <<>> => SharesLoops(p.nests[1], p.nests[3], 1)

(* The cycle through an fby in a register stays in registers.               *)
CarriesInRegisters(p) ==
  p.operands[1] # <<>> /\ p.storage[3] = Register =>
    p.storage[1] = Register /\ (p.operands[3][1] = Op(1) \/ p.storage[2] = Register)

Imported == [external |-> TRUE, numLoops |-> 0, dynamic |-> FALSE, bounds |-> <<>>]

(* The first buffer is internal.  The second one is imported, and internal  *)
(* as well if something writes to it.                                       *)
MCBuffer(p, b) ==
  {f \in [external : {FALSE}, numLoops : SharedLoops(p, b), dynamic : BOOLEAN,
          bounds : {<<>>, <<Op(1)>>}] :
     /\ Writes(p, b) # {}
     /\ f.bounds # <<>> => f.dynamic /\ Op(1) \notin Accesses(p, b)
     /\ f.dynamic => \/ DynamicSizes = "any"
                     \/ DynamicSizes = "outer" /\ f.numLoops = 0 /\ f.bounds = <<>>
     /\ b = 2 => f.numLoops = Max(SharedLoops(p, b)) /\ ~ f.dynamic}
    \union {f \in {Imported} : b = 2}

(* sair.exit returns a projection of the last result.                       *)
MCExit(p) ==
  IF p.operands[1] = <<>> /\ (ExitReadsMemory \/ p.storage[3] = Register) THEN {View(3)} ELSE {}

MCCores ==
  {p \in [nests : MCTrees, operands : MCOperands, storage : [1 .. 3 -> 0 .. 2]] :
     /\ 1 \in {p.storage[i] : i \in 1 .. 3}
     /\ IsCarriedByLoop(p)
     /\ BufferedCarry \/ CarriesInRegisters(p)}

MCPrograms ==
  UNION {{[nests |-> p.nests, operands |-> p.operands, storage |-> p.storage,
           fby |-> IF p.operands[1] = <<>> THEN {} ELSE {3}, exit |-> MCExit(p),
           buffers |-> f] :
             f \in MCBuffer(p, 1) \X MCBuffer(p, 2)} : p \in MCCores}

(* The hypothesis of the theorems holds of the programs of the run.          *)
ASSUME RegistersAtExit == ~ ExitReadsMemory => \A p \in Programs : ExitReadsRegisters(p)
=============================================================================
