------------------------ MODULE MaterializeInstances ------------------------
(***************************************************************************)
(* The MaterializeInstances pass (transforms/materialize_instances.cc).  An *)
(* operation lists its instances, and the copies to make of its result; an  *)
(* instance says for each operand which instance or copy of the producer it *)
(* reads.  The pass drops the operations without instances, creates the     *)
(* clones and the copies, then redirects their operands, and erases the     *)
(* original operations.                                                     *)
(*                                                                          *)
(* A value is the operation that produces it: results of one operation      *)
(* differ only in the copies that they have.                                *)
(***************************************************************************)
EXTENDS Integers, Sequences, FiniteSets, Functions

CONSTANTS
  Ops,             \* operations of the program
  Exit,            \* the sair.exit among them
  External,        \* a value that no Sair operation produces
  Programs

(* Attributes that designate a value: InstanceAttr, CopyAttr, UnitAttr, and  *)
(* a missing one.                                                            *)
Instance(i) == <<"instance", i>>
Copy(c) == <<"copy", c>>
Unit == <<"unit", 0>>
Null == <<"null", 0>>

Attributes == ({"instance", "copy"} \X Nat) \union {Unit}

(* A program: operands[o] are the operands of o, of which the first rank[o]  *)
(* are the dimensions of its result; instances[o] lists the decisions of its *)
(* instances, if it has the attribute; copies[o] lists the copy_of of the    *)
(* copies of its result.  order is the order in which they are visited.      *)
IsProgram(p) ==
  /\ p.order \in Seq(Ops) /\ Range(p.order) = Ops
  /\ \A i, j \in DOMAIN p.order : p.order[i] = p.order[j] => i = j
  /\ p.operands \in [Ops -> Seq(Ops \union {External})]
  /\ p.rank \in [Ops -> Nat]
  /\ \A op \in Ops : p.rank[op] <= Len(p.operands[op])
  /\ p.hasInstances \in [Ops -> BOOLEAN]
  /\ p.instances \in [Ops -> Seq([specified : BOOLEAN, operands : Seq(Attributes)])]
  /\ \A op \in Ops : ~ p.hasInstances[op] => p.instances[op] = <<>>
  /\ p.copies \in [Ops -> Seq(Attributes \union {Null})]

(* The verifiers of the attributes.                                         *)

Designates(p, value, attr) ==
  CASE attr[1] = "copy" -> value # External /\ attr[2] < Len(p.copies[value])
    [] attr[1] = "instance" ->
         value # External /\ p.hasInstances[value] => attr[2] < Len(p.instances[value])
    [] OTHER -> TRUE

VerifyInstancesAttr(p, op) ==
  \A i \in DOMAIN p.instances[op] :
    p.instances[op][i].specified =>
      LET attrs == p.instances[op][i].operands
      IN  /\ Len(attrs) = Len(p.operands[op])
          /\ \A k \in DOMAIN attrs : Designates(p, p.operands[op][k], attrs[k])

VerifyValueProducerOp(p, op) ==
  \A c \in DOMAIN p.copies[op] : Designates(p, op, p.copies[op][c])

IsVerified(p) == \A op \in Ops : VerifyInstancesAttr(p, op) /\ VerifyValueProducerOp(p, op)

(* Every value is an operation, an operation with an attribute, or External. *)
ASSUME ProgramsAssumption ==
  /\ External \notin Ops
  /\ Ops \intersect (Ops \X Attributes) = {}
  /\ \A p \in Programs : IsProgram(p) /\ IsVerified(p)

(* An operation without instances is read by operations without instances,  *)
(* and an exit without instances reads nothing.                             *)
EmptyOpsAreUnused(p) ==
  /\ \A o, u \in Ops :
       p.instances[o] = <<>> /\ o \in Range(p.operands[u]) => p.instances[u] = <<>>
  /\ p.instances[Exit] = <<>> => p.operands[Exit] = <<>>
-----------------------------------------------------------------------------
VARIABLES
  program,
  phase,           \* "check", "create", "update", "done", "failed"
  rest,            \* operations that the phase has still to visit
  ops,
  erased,
  chase,           \* FindCopiedInstance: <<copy, position>>, or <<>>
  newOps,          \* [key, uses, specified, attrs]: the clones and the copies
  updated          \* how many of newOps are updated

vars == <<program, phase, rest, ops, erased, chase, newOps, updated>>

NumInstances(op) == Len(program.instances[op])
Decisions(op, i) == program.instances[op][i + 1]
CopyOf(op, c) == program.copies[op][c + 1]
-----------------------------------------------------------------------------
(* The check before the stages.                                             *)

Users(op) == {u \in Ops \ erased : op \in Range(program.operands[u])}

HasInstances(op) == program.hasInstances[op] /\ NumInstances(op) # 0

(* A faulty IsRejected: the users of an operation are not looked at.        *)
LacksInstances(op) == ~ program.hasInstances[op]

IsRejected(op) ==
  \/ ~ program.hasInstances[op]
  \/ NumInstances(op) = 0 /\ op # Exit /\ \E u \in Users(op) : ~ HasInstances(u)

Checks == phase = "check" /\ rest # <<>>

RejectOp ==
  /\ Checks
  /\ IsRejected(Head(rest))
  /\ phase' = "failed"
  /\ UNCHANGED <<program, rest, ops, erased, chase, newOps, updated>>

(* An operation without instances is erased, an exit is left as it is, any  *)
(* other operation is kept for the stages.                                  *)
VisitOp ==
  /\ Checks
  /\ ~ IsRejected(Head(rest))
  /\ rest' = Tail(rest)
  /\ ops' = IF HasInstances(Head(rest)) THEN Append(ops, Head(rest)) ELSE ops
  /\ erased' = IF HasInstances(Head(rest)) \/ Head(rest) = Exit
               THEN erased ELSE erased \union {Head(rest)}
  /\ UNCHANGED <<program, phase, chase, newOps, updated>>

EndCheck ==
  /\ phase = "check" /\ rest = <<>>
  /\ phase' = "create" /\ rest' = ops
  /\ UNCHANGED <<program, ops, erased, chase, newOps, updated>>
-----------------------------------------------------------------------------
(* Stage 1.                                                                 *)

Creates == phase = "create" /\ rest # <<>>

Clone(op, i) ==
  [key |-> <<op, Instance(i)>>, uses |-> program.operands[op],
   specified |-> Decisions(op, i).specified, attrs |-> Decisions(op, i).operands]

(* The instances of the dimensions of the result of an instance.            *)
Dims(op, i) ==
  IF Decisions(op, i).specified
  THEN SubSeq(Decisions(op, i).operands, 1, program.rank[op])
  ELSE [k \in 1 .. program.rank[op] |-> Instance(0)]

(* A faulty CopyOp: the copy has the dimensions of the first instance.      *)
CopyOfFirst(op, c, copied) ==
  [key |-> <<op, Copy(c)>>,
   uses |-> Append(SubSeq(program.operands[op], 1, program.rank[op]), op),
   specified |-> TRUE, attrs |-> Append(Dims(op, 0), CopyOf(op, c))]

(* The sair.copy for copy c of op: it iterates on the dimensions of the     *)
(* instance that is copied.                                                 *)
CopyOp(op, c, copied) ==
  [key |-> <<op, Copy(c)>>,
   uses |-> Append(SubSeq(program.operands[op], 1, program.rank[op]), op),
   specified |-> TRUE, attrs |-> Append(Dims(op, copied), CopyOf(op, c))]

(* The next copy to create for op, after copy c of it.                      *)
NextCopy(op, c) ==
  IF c + 1 < Len(program.copies[op])
  THEN chase' = <<c + 1, c + 1>> /\ UNCHANGED rest
  ELSE chase' = <<>> /\ rest' = Tail(rest)

CreateClones ==
  /\ Creates
  /\ chase = <<>>
  /\ newOps' = newOps \o [i \in 1 .. NumInstances(Head(rest)) |-> Clone(Head(rest), i - 1)]
  /\ NextCopy(Head(rest), -1)
  /\ UNCHANGED <<program, phase, ops, erased, updated>>

(* A faulty FollowCopy: the search stays where it is.                       *)
StayAtCopy ==
  /\ Creates /\ chase # <<>>
  /\ CopyOf(Head(rest), chase[2])[1] = "copy"
  /\ chase' = chase
  /\ UNCHANGED <<program, phase, rest, ops, erased, newOps, updated>>

(* FindCopiedInstance, when a copy is the copy of another copy.             *)
FollowCopy ==
  /\ Creates /\ chase # <<>>
  /\ CopyOf(Head(rest), chase[2])[1] = "copy"
  /\ chase' = <<chase[1], CopyOf(Head(rest), chase[2])[2]>>
  /\ UNCHANGED <<program, phase, rest, ops, erased, newOps, updated>>

CreateCopy ==
  /\ Creates /\ chase # <<>>
  /\ CopyOf(Head(rest), chase[2])[1] = "instance"
  /\ newOps' = Append(newOps, CopyOp(Head(rest), chase[1], CopyOf(Head(rest), chase[2])[2]))
  /\ NextCopy(Head(rest), chase[1])
  /\ UNCHANGED <<program, phase, ops, erased, updated>>

RejectCopy ==
  /\ Creates /\ chase # <<>>
  /\ CopyOf(Head(rest), chase[2]) \in {Null, Unit}
  /\ phase' = "failed"
  /\ UNCHANGED <<program, rest, ops, erased, chase, newOps, updated>>

EndCreate ==
  /\ phase = "create" /\ rest = <<>>
  /\ phase' = "update"
  /\ UNCHANGED <<program, rest, ops, erased, chase, newOps, updated>>
-----------------------------------------------------------------------------
(* Stages 2 and 3.                                                          *)

Mapping == {n.key : n \in Range(newOps)}

Updates == phase = "update" /\ updated < Len(newOps)
Current == newOps[updated + 1]

IsIncomplete(n) == ~ n.specified \/ Unit \in Range(n.attrs)

(* A faulty Replacements: only the operands created before n are found.     *)
EarlierReplacements(n) ==
  [k \in DOMAIN n.uses |->
     IF <<n.uses[k], n.attrs[k]>> \in {newOps[i].key : i \in 1 .. updated}
     THEN <<n.uses[k], n.attrs[k]>> ELSE n.uses[k]]

Replacements(n) ==
  [k \in DOMAIN n.uses |->
     IF <<n.uses[k], n.attrs[k]>> \in Mapping THEN <<n.uses[k], n.attrs[k]>> ELSE n.uses[k]]

(* An operand that is replaced has a single instance.                       *)
WithUses(n, uses) ==
  [key |-> n.key, uses |-> uses, specified |-> n.specified,
   attrs |-> [k \in DOMAIN uses |->
                IF uses[k] = n.uses[k] THEN n.attrs[k] ELSE Instance(0)]]

RejectUpdate ==
  /\ Updates
  /\ IsIncomplete(Current)
  /\ phase' = "failed"
  /\ UNCHANGED <<program, rest, ops, erased, chase, newOps, updated>>

UpdateOp ==
  /\ Updates
  /\ ~ IsIncomplete(Current)
  /\ newOps' = [newOps EXCEPT ![updated + 1] = WithUses(Current, Replacements(Current))]
  /\ updated' = updated + 1
  /\ UNCHANGED <<program, phase, rest, ops, erased, chase>>

EraseOriginals ==
  /\ phase = "update" /\ updated = Len(newOps)
  /\ erased' = erased \union Range(ops)
  /\ phase' = "done"
  /\ UNCHANGED <<program, rest, ops, chase, newOps, updated>>
-----------------------------------------------------------------------------
Init ==
  /\ program \in Programs
  /\ phase = "check"
  /\ rest = program.order
  /\ ops = <<>> /\ erased = {} /\ chase = <<>> /\ newOps = <<>> /\ updated = 0

Next ==
  \/ RejectOp \/ VisitOp \/ EndCheck
  \/ CreateClones \/ FollowCopy \/ CreateCopy \/ RejectCopy \/ EndCreate
  \/ RejectUpdate \/ UpdateOp \/ EraseOriginals

Spec == Init /\ [][Next]_vars /\ WF_vars(Next)
-----------------------------------------------------------------------------
(* Properties.                                                              *)

(* An operation that is erased has no users left, in the original program   *)
(* or among the new operations ("Ops with no instances can be removed. They *)
(* shouldn't have any users.", materialize_instances.cc:66).                *)
ErasedOpsAreUnused ==
  \A op \in erased :
    /\ Users(op) = {}
    /\ phase = "done" => \A n \in Range(newOps) : op \notin Range(n.uses)

NewOp(key) == CHOOSE n \in Range(newOps) : n.key = key

(* One comes from a key to another one of the same operation, in any number *)
(* of steps from a copy to what it reads.                                   *)
Source(uses) == uses[Len(uses)]

HoldsSources(S) == \A key \in S : key[2][1] = "copy" => Source(NewOp(key).uses) \in S

Reaches(from, to) ==
  \A S \in SUBSET {key \in Mapping : key[1] = from[1]} :
    from \in S /\ HoldsSources(S) => to \in S

(* In the result each copy, however many copies it is away from it,         *)
(* iterates on the dimensions of the instance that it copies.               *)
CopiesMatchInstances ==
  phase = "done" =>
    \A n \in Range(newOps) : n.key[2][1] = "copy" =>
      \E origin \in Range(newOps) :
        /\ origin.key[1] = n.key[1] /\ origin.key[2][1] = "instance"
        /\ \A k \in 1 .. program.rank[n.key[1]] : n.uses[k] = origin.uses[k]
        /\ Reaches(n.key, origin.key)

(* Every instance reads the clones and the copies that its decisions        *)
(* designate, wherever in the program they are, and each new operation is   *)
(* a single instance that reads instance zero of its operands.  An operand  *)
(* that is not replaced comes from outside of the program, as the assertion *)
(* value.getDefiningOp<SairOp>() == nullptr says (materialize_instances.cc  *)
(* :187).                                                                   *)
InstancesReadTheirOperands ==
  /\ \A n \in 1 .. updated : \A k \in DOMAIN newOps[n].uses : newOps[n].uses[k] \notin Ops
  /\ phase = "done" =>
       \A op \in Range(ops) : \A i \in 0 .. NumInstances(op) - 1 :
         LET clone == NewOp(<<op, Instance(i)>>)
         IN  \A k \in DOMAIN clone.uses :
               program.operands[op][k] # External =>
                 /\ clone.uses[k] = <<program.operands[op][k], Decisions(op, i).operands[k]>>
                 /\ clone.uses[k] \in Mapping
                 /\ clone.attrs[k] = Instance(0)

(* The pass ends, with a result or with an error.                           *)
PassEnds == <>(phase \in {"done", "failed"})
=============================================================================
