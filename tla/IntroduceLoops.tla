--------------------------- MODULE IntroduceLoops ---------------------------
(***************************************************************************)
(* The IntroduceLoops pass (transforms/introduce_loops.cc).  A work list of *)
(* sair.map operations, filled by the hooks of a pattern rewriter, is       *)
(* processed until it is empty: an operation is fused with a neighbour of   *)
(* the sequence that has the same innermost loop, or its innermost loop is  *)
(* turned into an scf.for, or it is dropped because a neighbour is nested   *)
(* deeper in the same loop and will come back to it.                        *)
(*                                                                          *)
(* The operation that replaces another keeps its identity here: the pass    *)
(* creates it next to the old one and erases the old one at once.           *)
(***************************************************************************)
EXTENDS LoopTree, Functions, FiniteSets

CONSTANTS
  Ops,             \* operations of the sair.program, all compute operations
  NullOp,
  LoopNames,
  Programs,        \* the programs the pass may meet
  MaxRewritten     \* canonicalization rewrites at most this many operations at a time

LoopAttrs == [name : LoopNames, iter : Nat]

(* A program: nests[o] is the loop_nest attribute of o, order the sequence   *)
(* of the operations, reads the pairs <<reader, producer>> of values,        *)
(* through a sair.proj_last where the reader is outside a loop of the        *)
(* producer.  An fby [value, user, init, projected] is carried by the        *)
(* innermost loop of value and read by user; a sair.proj_last may read it    *)
(* too.  unlowerable holds the loops whose range is a placeholder or has a   *)
(* bound that is not in a register.                                          *)
ASSUME OpsAssumption ==
  /\ NullOp \notin Ops
  /\ MaxRewritten \in Nat
  /\ \A p \in Programs :
       /\ p.order \in Seq(Ops)
       /\ \A i, j \in DOMAIN p.order : p.order[i] = p.order[j] => i = j
       /\ p.nests \in [Ops -> Seq(LoopAttrs)]
       /\ p.reads \subseteq Range(p.order) \X Range(p.order)
       /\ p.fbys \subseteq [value : Range(p.order), user : Range(p.order),
                            init : Range(p.order) \union {NullOp}, projected : BOOLEAN]

VARIABLES
  program,         \* the program before the pass
  computeOps,      \* compute_ops_ of the sequence analysis
  loops,           \* the loop_nest attribute of each operation
  body,            \* the statements of the body of each operation
  reads,
  fbys,
  mapOps,          \* map_ops_work_list_, a SetVector
  phase            \* "register", "run", "done", "failed"

vars == <<program, computeOps, loops, body, reads, fbys, mapOps, phase>>

Names(nest) == [k \in DOMAIN nest |-> nest[k].name]
Nests == [i \in DOMAIN computeOps |-> Names(loops[computeOps[i]])]

Position(op) == CHOOSE i \in DOMAIN computeOps : computeOps[i] = op
PrevOp(op) == IF Position(op) = 1 THEN NullOp ELSE computeOps[Position(op) - 1]
NextOp(op) == IF Position(op) = Len(computeOps) THEN NullOp ELSE computeOps[Position(op) + 1]

IsNestPrefix(prefix, array) ==
  /\ Len(prefix) <= Len(array)
  /\ \A k \in DOMAIN prefix : prefix[k] = array[k]

CanFuse(lhs, rhs) ==
  \/ lhs = <<>> /\ rhs = <<>>
  \/ /\ lhs # <<>> /\ rhs # <<>>
     /\ lhs[Len(lhs)].name = rhs[Len(rhs)].name

FusesWithPrev(op) == PrevOp(op) # NullOp /\ CanFuse(loops[PrevOp(op)], loops[op])
FusesWithNext(op) == NextOp(op) # NullOp /\ CanFuse(loops[op], loops[NextOp(op)])

(* A faulty WaitsForNeighbor: operations before op are not looked at.       *)
WaitsForNext(op) == NextOp(op) # NullOp /\ IsNestPrefix(loops[op], loops[NextOp(op)])

(* op is the outer part of a loop that a neighbour still has loops in.      *)
WaitsForNeighbor(op) ==
  \/ PrevOp(op) # NullOp /\ IsNestPrefix(loops[op], loops[PrevOp(op)])
  \/ NextOp(op) # NullOp /\ IsNestPrefix(loops[op], loops[NextOp(op)])

(* EraseDimensionFromLoopNest, for the innermost loop.                      *)
EraseInnermost(nest) ==
  LET dimension == nest[Len(nest)].iter
  IN  [k \in 1 .. Len(nest) - 1 |->
         [name |-> nest[k].name,
          iter |-> IF nest[k].iter < dimension THEN nest[k].iter ELSE nest[k].iter - 1]]

(* The reader uses the result of the producer and not a projection of it:   *)
(* it is nested in all the loops that the producer still has.               *)
IsDirect(read) == IsNestPrefix(Names(loops[read[2]]), Names(loops[read[1]]))

(* The map operations that define operands of op, and that use its results. *)
Producers(op) == {p \in Ops : <<op, p>> \in reads /\ IsDirect(<<op, p>>)}
Readers(op) == {r \in Ops : <<r, op>> \in reads /\ IsDirect(<<r, op>>)}

-----------------------------------------------------------------------------
(* What the verifiers and NormalizeLoops leave to the pass: the loops form a *)
(* tree, loop number k iterates on dimension k of every operation in it, an  *)
(* fby is read in the loops of its value and initialized before its loop.    *)
IsNormal(p) ==
  /\ IsTree([i \in DOMAIN p.order |-> Names(p.nests[p.order[i]])])
  /\ \A op \in Ops : \A k \in DOMAIN p.nests[op] : p.nests[op][k].iter = k - 1
  /\ \A r \in p.reads : r[1] # r[2]
  /\ \A f \in p.fbys :
       /\ Names(p.nests[f.user]) = Names(p.nests[f.value])
       /\ p.nests[f.value] # <<>>
       /\ f.init # NullOp =>
            ~ SharesLoops(Names(p.nests[f.value]), Names(p.nests[f.init]), Len(p.nests[f.value]))

-----------------------------------------------------------------------------
(* The vectors of a vector, one after the other.                            *)
Concat(pieces) ==
  LET Upto[i \in 0 .. Len(pieces)] == IF i = 0 THEN <<>> ELSE Upto[i - 1] \o pieces[i]
  IN  Upto[Len(pieces)]

(* The operations of a set in the order they have in a list.                *)
Ordered(S, list) == Concat([i \in DOMAIN list |-> IF list[i] \in S THEN <<list[i]>> ELSE <<>>])

(* The work list after some operations of it were erased and others were    *)
(* added.  Simplify runs next: what its patterns rewrite depends on the     *)
(* bodies, and an operation that they rewrite is queued anew.               *)
Queue(kept, added, list, ops) == Ordered(kept, list) \o Ordered(added \ kept, ops)

Queues(list, erased, added, ops) ==
  {Queue(Range(list) \ (erased \union rewritten), added \union rewritten, list, ops) :
     rewritten \in {r \in SUBSET Range(ops) : Cardinality(r) <= MaxRewritten}}

Popped == Head(mapOps)   \* the operation that PopMapOp returns

-----------------------------------------------------------------------------
(* RegisterOperations and the first Simplify.  Programs with sair.proj_any, *)
(* several instances, compute operations other than sair.map, or loops that *)
(* are missing or strip-mined are rejected.                                 *)
Register ==
  /\ phase = "register"
  /\ IF program.supported
     THEN phase' = "run" /\ mapOps' \in Queues(computeOps, {}, {}, computeOps)
     ELSE phase' = "failed" /\ UNCHANGED mapOps
  /\ UNCHANGED <<program, computeOps, loops, body, reads, fbys>>

Running == phase = "run" /\ mapOps # <<>>

(* A faulty Drop: the operation is queued again.                            *)
DropForLater ==
  /\ Running
  /\ ~ FusesWithPrev(Popped) /\ ~ FusesWithNext(Popped)
  /\ loops[Popped] = <<>> \/ WaitsForNeighbor(Popped)
  /\ mapOps' = Append(Tail(mapOps), Popped)
  /\ UNCHANGED <<program, computeOps, loops, body, reads, fbys, phase>>

(* The popped operation is left as it is: another one will come back to it, *)
(* or nothing is left to do.                                                *)
Drop ==
  /\ Running
  /\ ~ FusesWithPrev(Popped) /\ ~ FusesWithNext(Popped)
  /\ loops[Popped] = <<>> \/ WaitsForNeighbor(Popped)
  /\ mapOps' = Tail(mapOps)
  /\ UNCHANGED <<program, computeOps, loops, body, reads, fbys, phase>>

Rename(op, from, to) == IF op = from THEN to ELSE op

(* A faulty MovedFbys: the values of the sair.fby are not replaced.         *)
MovedUsers(first, second) ==
  {[f EXCEPT !.user = Rename(@, second, first)] : f \in fbys}

MovedFbys(first, second) ==
  {[value |-> Rename(f.value, second, first), user |-> Rename(f.user, second, first),
    init |-> Rename(f.init, second, first), projected |-> f.projected] : f \in fbys}

(* The fused operation is placed where the second one is and has the loops  *)
(* of the first.  Creating it, replacing its parts and erasing them queues  *)
(* it, and the readers and the producers of both parts.                     *)
Fuse(first, second) ==
  /\ LET n == Position(second)
     IN  computeOps' = SubSeq(computeOps, 1, n - 1)
                         \o SubSeq(computeOps, n + 1, Len(computeOps))
  /\ body' = [body EXCEPT ![first] = body[first] \o body[second]]
  /\ reads' = {<<Rename(r[1], second, first), Rename(r[2], second, first)>> : r \in reads}
                \ {<<first, first>>}
  /\ fbys' = MovedFbys(first, second)
  /\ mapOps' \in Queues(Tail(mapOps), {first, second},
                        ({first} \union Readers(first) \union Producers(first)
                           \union Readers(second) \union Producers(second)) \ {second},
                        computeOps')
  /\ UNCHANGED <<program, loops, phase>>

FuseWithPrev ==
  /\ Running
  /\ FusesWithPrev(Popped)
  /\ Fuse(PrevOp(Popped), Popped)

FuseWithNext ==
  /\ Running
  /\ ~ FusesWithPrev(Popped) /\ FusesWithNext(Popped)
  /\ Fuse(Popped, NextOp(Popped))

-----------------------------------------------------------------------------
(* IntroduceLoop is reached for op.                                         *)
Lowers(op) ==
  /\ ~ FusesWithPrev(op) /\ ~ FusesWithNext(op)
  /\ loops[op] # <<>> /\ ~ WaitsForNeighbor(op)

IsLowerable(op) == loops[op][Len(loops[op])].name \notin program.unlowerable

(* A value carried by the new loop must be a result of op.                  *)
ReadsForeignFby(op) == \E f \in fbys : f.user = op /\ f.value # op

(* A value of op that the new loop carries is read by something else.       *)
FbyEscapes(op) == \E f \in fbys : f.value = op /\ (f.user # op \/ f.projected)

(* assert(result_pos >= 0), and cast<SairFbyOp> of a user that is not a     *)
(* sair.proj_last.  What the pass does when one of them fails is undefined. *)
AssertsHold(op) == ~ ReadsForeignFby(op) /\ Readers(op) = {}

(* The range cannot be lowered, or an fby is read after its loop: an error. *)
Reject ==
  /\ Running
  /\ Lowers(Popped)
  /\ ~ IsLowerable(Popped) \/ (AssertsHold(Popped) /\ FbyEscapes(Popped))
  /\ phase' = "failed"
  /\ UNCHANGED <<program, computeOps, loops, body, reads, fbys, mapOps>>

Statement(op) == <<"op", op>>
For(name) == <<"for", name>>
End(name) == <<"end", name>>

(* The body of op in a loop.                                                *)
InLoop(op) ==
  LET name == loops[op][Len(loops[op])].name
  IN  <<For(name)>> \o body[op] \o <<End(name)>>

(* The body of the popped operation moves into a loop.  An fby that the     *)
(* loop carried is folded: the operation reads its initial value.           *)
IntroduceLoop ==
  /\ Running
  /\ Lowers(Popped)
  /\ IsLowerable(Popped) /\ AssertsHold(Popped) /\ ~ FbyEscapes(Popped)
  /\ loops' = [loops EXCEPT ![Popped] = EraseInnermost(@)]
  /\ body' = [body EXCEPT ![Popped] = InLoop(Popped)]
  /\ reads' = reads \union {<<Popped, f.init>> :
                              f \in {f \in fbys : f.value = Popped /\ f.init # NullOp}}
  /\ fbys' = {f \in fbys : f.value # Popped}
  /\ mapOps' \in Queues(Tail(mapOps), {}, {Popped} \union Producers(Popped), computeOps)
  /\ UNCHANGED <<program, computeOps, phase>>

Finish ==
  /\ phase = "run"
  /\ mapOps = <<>>
  /\ phase' = "done"
  /\ UNCHANGED <<program, computeOps, loops, body, reads, fbys, mapOps>>
-----------------------------------------------------------------------------
Init ==
  /\ program \in Programs
  /\ computeOps = program.order
  /\ loops = program.nests
  /\ body = [op \in Ops |-> <<Statement(op)>>]
  /\ reads = program.reads
  /\ fbys = program.fbys
  /\ mapOps = <<>>
  /\ phase = "register"

Next ==
  \/ Register \/ Drop \/ FuseWithPrev \/ FuseWithNext
  \/ Reject \/ IntroduceLoop \/ Finish

Spec == Init /\ [][Next]_vars /\ WF_vars(Next)
-----------------------------------------------------------------------------
(* The number of outer loops that two nests share.                          *)
NumShared(a, b) ==
  CHOOSE n \in 0 .. Len(a) : SharesLoops(a, b, n) /\ ~ SharesLoops(a, b, n + 1)

(* The loops that are opened for a nest after a neighbour, from the outside *)
(* in, and those that are closed before a neighbour, from the inside out.   *)
Opened(nest, neighbour) ==
  LET shared == NumShared(nest, neighbour)
  IN  [k \in 1 .. Len(nest) - shared |-> For(nest[shared + k])]
Closed(nest, neighbour) ==
  [k \in 1 .. Len(nest) - NumShared(nest, neighbour) |-> End(nest[Len(nest) + 1 - k])]

(* The nest at place i; the program begins and ends outside of all loops.   *)
NestAt(nests, i) == IF i \in DOMAIN nests THEN nests[i] ELSE <<>>

(* The code of operation i: a loop that it shares with a neighbour is       *)
(* neither opened nor closed between the two.                               *)
Piece(nests, bodies, i) ==
  Opened(nests[i], NestAt(nests, i - 1)) \o bodies[i] \o Closed(nests[i], NestAt(nests, i + 1))

(* The code that operations with the given nests and bodies stand for.      *)
Code(nests, bodies) == Concat([i \in DOMAIN nests |-> Piece(nests, bodies, i)])

Bodies == [i \in DOMAIN computeOps |-> body[computeOps[i]]]

-----------------------------------------------------------------------------
(* Properties.                                                             *)

TypeOK ==
  /\ computeOps \in Seq(Ops)
  /\ \A i, j \in DOMAIN computeOps : computeOps[i] = computeOps[j] => i = j
  /\ mapOps \in Seq(Range(computeOps))
  /\ \A i, j \in DOMAIN mapOps : mapOps[i] = mapOps[j] => i = j
  /\ phase \in {"register", "run", "done", "failed"}

(* Whatever the order in which the work list is processed, the operations   *)
(* and the loops built so far stand for the code that the sequence and the  *)
(* loop nests asked for: no loop is split in two, none is built around the  *)
(* operations of another one, and no statement is moved.  An operation is   *)
(* dropped from the work list only if another one comes back to it: when    *)
(* the list is empty a single operation without loops is left.              *)
CodeIsKept ==
  /\ Code(Nests, Bodies)
       = Code([i \in DOMAIN program.order |-> Names(program.nests[program.order[i]])],
              [i \in DOMAIN program.order |-> <<Statement(program.order[i])>>])
  /\ phase = "done" => Len(computeOps) <= 1 /\ \A i \in DOMAIN Nests : Nests[i] = <<>>

(* assert(result_pos >= 0) (introduce_loops.cc:633) holds, and the users of *)
(* a value whose loop is introduced are projections or fby                  *)
(* (introduce_loops.cc:508): all others were fused before.                  *)
NeverCrashes ==
  Running /\ Lowers(Popped) /\ IsLowerable(Popped) => AssertsHold(Popped)

(* The hooks queue operations while the list is processed, but the pass     *)
(* ends.                                                                    *)
PassEnds == <>(phase \in {"done", "failed"})
=============================================================================
