------------------------------ MODULE LoopNest ------------------------------
(***************************************************************************)
(* The loop structure of a program (loop_nest.cc).  VerifyLoopNests walks   *)
(* the compute operations in execution order and keeps in a LoopNestState   *)
(* the loops that are open and those that were closed.  DefaultLoopNest     *)
(* (default_lowering_attributes.cc) then gives the operations that have no  *)
(* loop nest loops with fresh names, and the program is verified again.     *)
(*                                                                          *)
(* A program gives each operation its nest, the size of its domain and, if  *)
(* it reads a sair.fby, the operation that defines the value operand of the *)
(* fby together with the number of its loops that the fby inherits.         *)
(***************************************************************************)
EXTENDS LoopTree

CONSTANTS
  LoopNames,
  NullNest,     \* a null `loop_nest` attribute
  FreshNames,   \* "loop_0", "loop_1", ... in the order of next_loop_id_
  Programs      \* sequences of [nest, rank, carried]

(* VerifyLoopNestWellFormed has refused nests that use a name twice.        *)
WellFormedNest(nest) ==
  /\ nest \in Seq(LoopNames)
  /\ \A p, q \in DOMAIN nest : nest[p] = nest[q] => p = q

ASSUME NestsAssumption ==
  /\ NullNest \notin Seq(LoopNames)
  /\ FreshNames \in Seq(LoopNames)
  /\ \A p, q \in DOMAIN FreshNames : FreshNames[p] = FreshNames[q] => p = q

Operations ==
  [nest : Seq(LoopNames) \union {NullNest}, rank : Nat, carried : {<<>>} \union (Nat \X Nat)]

ASSUME ProgramsAssumption ==
  \A p \in Programs :
    /\ p \in Seq(Operations)
    /\ \A i \in DOMAIN p :
         /\ p[i].nest = NullNest \/ WellFormedNest(p[i].nest)
         /\ p[i].carried = <<>> \/ p[i].carried[1] \in DOMAIN p

VARIABLES
  program,
  phase,         \* "verify", "default", "again"; or a verdict
  position,      \* the operation VerifyLoopNests is at
  openLoops,     \* open_loops_
  closedLoops,   \* closed_loops_
  nextLoopId,    \* next_loop_id_
  fusionNames,   \* the keys of fusion_classes_ of the analysis DefaultLoopNest uses
  newLoops       \* the loops GetDefaultLoopNest has created for an operation

vars == <<program, phase, position, openLoops, closedLoops, nextLoopId, fusionNames, newLoops>>

-----------------------------------------------------------------------------
(* ComputeOpInstance::Loops is empty when the attribute is null.            *)
Loops(op) == IF op.nest = NullNest THEN <<>> ELSE op.nest

Nests == [i \in DOMAIN program |-> Loops(program[i])]

NamesIn(nest) == {nest[p] : p \in DOMAIN nest}

(* The loops open at the producers of the operands of operation i that may  *)
(* be defined after it: those of the fby it reads, inherited from the value *)
(* operand.                                                                 *)
LoopsToOpen(i) ==
  IF program[i].carried = <<>> THEN {}
  ELSE LET value == Nests[program[i].carried[1]]
       IN  {value[p] : p \in {q \in DOMAIN value : q <= program[i].carried[2]}}

Verifying == phase \in {"verify", "again"} /\ position \in DOMAIN program

(* The number of loops of the nest that are open and stay open.             *)
IsCommonPrefix(nest, n) ==
  /\ n \in 0 .. Len(nest) /\ SharesLoops(nest, openLoops, n)
  /\ ~ SharesLoops(nest, openLoops, n + 1)

(* The loops CloseLoops(n) moves to closed_loops_.                          *)
ClosedBeyond(n) == closedLoops \union {openLoops[p] : p \in n + 1 .. Len(openLoops)}

(* A faulty Reopens: the loops that stay open count as closed.              *)
ReopensPrefix(nest, n) == \E p \in DOMAIN nest : nest[p] \in ClosedBeyond(0)

(* Opening the rest of the nest would open a closed loop again.             *)
Reopens(nest, n) == \E p \in n + 1 .. Len(nest) : nest[p] \in ClosedBeyond(n)

(* A faulty AreOpen: a loop that was closed was not open before.             *)
AreStillOpen(names, open, closed) == names \subseteq NamesIn(open)

AreOpen(names, open, closed) == names \subseteq NamesIn(open) \union closed

-----------------------------------------------------------------------------
(* LoopNestState::Update, then VerifyLoopsOpen, for the operation at hand.  *)
(* Without a nest all loops are closed: the common prefix is empty.         *)
Update ==
  /\ Verifying
  /\ LET nest == Nests[position]
     IN  \E n \in 0 .. Len(nest) :
           /\ IsCommonPrefix(nest, n)
           /\ ~ Reopens(nest, n)
           /\ AreOpen(LoopsToOpen(position), nest, ClosedBeyond(n))
           /\ openLoops' = nest
           /\ closedLoops' = ClosedBeyond(n)
  /\ position' = position + 1
  /\ UNCHANGED <<program, phase, nextLoopId, fusionNames, newLoops>>

NotContiguous ==
  /\ Verifying
  /\ \E n \in 0 .. Len(Nests[position]) :
       IsCommonPrefix(Nests[position], n) /\ Reopens(Nests[position], n)
  /\ phase' = IF phase = "verify" THEN "not contiguous" ELSE "not contiguous again"
  /\ UNCHANGED <<program, position, openLoops, closedLoops, nextLoopId, fusionNames, newLoops>>

NotOpen ==
  /\ Verifying
  /\ LET nest == Nests[position]
     IN  \E n \in 0 .. Len(nest) :
           /\ IsCommonPrefix(nest, n)
           /\ ~ Reopens(nest, n)
           /\ ~ AreOpen(LoopsToOpen(position), nest, ClosedBeyond(n))
  /\ phase' = IF phase = "verify" THEN "not open" ELSE "not open again"
  /\ UNCHANGED <<program, position, openLoops, closedLoops, nextLoopId, fusionNames, newLoops>>

(* The program is accepted and DefaultLoopNest starts, with the fusion      *)
(* analysis of the program as it is.                                        *)
Accept ==
  /\ phase = "verify"
  /\ position = Len(program) + 1
  /\ phase' = "default"
  /\ fusionNames' = UNION {NamesIn(Nests[i]) : i \in DOMAIN program}
  /\ openLoops' = <<>> /\ closedLoops' = {} /\ position' = 1
  /\ UNCHANGED <<program, nextLoopId, newLoops>>

InDefault == phase = "default" /\ position \in DOMAIN program

Keep ==
  /\ InDefault
  /\ program[position].nest # NullNest
  /\ position' = position + 1
  /\ UNCHANGED <<program, phase, openLoops, closedLoops, nextLoopId, fusionNames, newLoops>>

(* A faulty GetFreshLoopName: names in use are not skipped.                 *)
NextLoopName(id) == id \in DOMAIN FreshNames /\ id = nextLoopId + 1

(* GetFreshLoopName skips the names that have a fusion class.               *)
GetFreshLoopName(id) ==
  /\ id \in nextLoopId + 1 .. Len(FreshNames)
  /\ FreshNames[id] \notin fusionNames
  /\ \A skipped \in nextLoopId + 1 .. id - 1 : FreshNames[skipped] \in fusionNames

(* GetDefaultLoopNest: one loop per dimension.                              *)
AddLoop ==
  /\ InDefault
  /\ program[position].nest = NullNest
  /\ Len(newLoops) < program[position].rank
  /\ \E id \in DOMAIN FreshNames :
       /\ GetFreshLoopName(id)
       /\ newLoops' = Append(newLoops, FreshNames[id])
       /\ nextLoopId' = id
  /\ UNCHANGED <<program, phase, position, openLoops, closedLoops, fusionNames>>

SetLoopNest ==
  /\ InDefault
  /\ program[position].nest = NullNest
  /\ Len(newLoops) = program[position].rank
  /\ program' = [program EXCEPT ![position].nest = newLoops]
  /\ newLoops' = <<>>
  /\ position' = position + 1
  /\ UNCHANGED <<phase, openLoops, closedLoops, nextLoopId, fusionNames>>

VerifyAgain ==
  /\ phase = "default"
  /\ position = Len(program) + 1
  /\ phase' = "again"
  /\ position' = 1
  /\ UNCHANGED <<program, openLoops, closedLoops, nextLoopId, fusionNames, newLoops>>

AcceptAgain ==
  /\ phase = "again"
  /\ position = Len(program) + 1
  /\ phase' = "done"
  /\ UNCHANGED <<program, position, openLoops, closedLoops, nextLoopId, fusionNames, newLoops>>

-----------------------------------------------------------------------------
Init ==
  /\ program \in Programs
  /\ phase = "verify"
  /\ position = 1
  /\ openLoops = <<>>
  /\ closedLoops = {}
  /\ nextLoopId = 0
  /\ fusionNames = {}
  /\ newLoops = <<>>

Next ==
  \/ Update \/ NotContiguous \/ NotOpen \/ Accept
  \/ Keep \/ AddLoop \/ SetLoopNest \/ VerifyAgain \/ AcceptAgain

Spec == Init /\ [][Next]_vars
-----------------------------------------------------------------------------
(* Properties.                                                             *)

TypeOK ==
  /\ program \in Seq(Operations)
  /\ \A i \in DOMAIN program :
       program[i].carried = <<>> \/ program[i].carried[1] \in DOMAIN program
  /\ phase \in {"verify", "default", "again", "done", "not contiguous", "not open",
                "not contiguous again", "not open again"}
  /\ position \in 1 .. Len(program) + 1
  /\ openLoops \in Seq(LoopNames)
  /\ closedLoops \subseteq LoopNames
  /\ nextLoopId \in 0 .. Len(FreshNames)
  /\ fusionNames \subseteq LoopNames
  /\ newLoops \in Seq(LoopNames)

NestsBefore(n) == [i \in 1 .. n - 1 |-> Nests[i]]

(* The open and the closed loops are those of the operations seen so far,   *)
(* and no loop is both: a loop that was closed is never lost or reopened.   *)
StateIsExact ==
  phase \in {"verify", "again"} =>
    /\ NamesIn(openLoops) \intersect closedLoops = {}
    /\ NamesIn(openLoops) \union closedLoops =
         UNION {NamesIn(Nests[i]) : i \in 1 .. position - 1}
    /\ openLoops = (IF position = 1 THEN <<>> ELSE Nests[position - 1])

(* One walk with a stack and a set decides whether the loops form a tree    *)
(* ("verify the loop structure forms a tree", loop_nest.cc:308): an         *)
(* operation is refused exactly when it breaks the tree of those before it. *)
VerdictIsRight ==
  /\ phase \in {"verify", "again"} => IsTree(NestsBefore(position))
  /\ phase \in {"not contiguous", "not contiguous again"} =>
       ~ IsTree(NestsBefore(position + 1))
  /\ phase = "done" => IsTree(Nests)

OpensByThen(i, name) == \E j \in 1 .. i : name \in NamesIn(Nests[j])

(* When a program is accepted, the loops of every fby are open, or were,    *)
(* where its result is read, although its value is defined later.           *)
CarriedLoopsAreOpen ==
  /\ phase = "done" =>
       \A i \in DOMAIN program : \A name \in LoopsToOpen(i) : OpensByThen(i, name)
  /\ phase \in {"not open", "not open again"} =>
       \E name \in LoopsToOpen(position) : ~ OpensByThen(position, name)

(* Default loop nests never clash with loops the user named, whatever those *)
(* names are, nor with each other: the program stays a tree of loops.       *)
DefaultsKeepTree ==
  /\ phase = "default" => IsTree(Nests)
  /\ phase # "not contiguous again"
=============================================================================
