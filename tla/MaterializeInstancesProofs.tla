--------------------- MODULE MaterializeInstancesProofs ---------------------
(***************************************************************************)
(* For every program the MaterializeInstances pass erases only what nothing *)
(* reads, redirects each operand to what the decisions designate, and gives *)
(* a copy the dimensions of the instance at the end of its chain.           *)
(*                                                                          *)
(* The invariant follows the stages: which operations the walk has kept or  *)
(* erased, which clones and copies the first stage has made of the kept     *)
(* ones, that no two have the same key, and that each of them is what was   *)
(* made of an instance or a copy (IsFresh), with its operands redirected    *)
(* once the second stage has passed it (IsRedirected).  The chain that      *)
(* FindCopiedInstance follows is a closure: what every set that holds the   *)
(* copy and all that its members copy must hold.                            *)
(***************************************************************************)
EXTENDS MaterializeInstances, VectorLemmas

(* Copy d of op is met on the way from copy c to the instance it copies.    *)
CopiesOf(op) == 0 .. Len(program.copies[op]) - 1
InstancesOf(op) == 0 .. NumInstances(op) - 1

HoldsCopied(op, S) ==
  \A c \in S : CopyOf(op, c)[1] = "copy" => CopyOf(op, c)[2] \in S

IsOnChain(op, c, d) ==
  \A S \in SUBSET CopiesOf(op) : c \in S /\ HoldsCopied(op, S) => d \in S

(* FindCopiedInstance finds instance i for copy c.                          *)
IsCopied(op, c, i) ==
  \E d \in CopiesOf(op) : IsOnChain(op, c, d) /\ CopyOf(op, d) = Instance(i)
-----------------------------------------------------------------------------
(* A new operation that the second stage has not reached, and what that     *)
(* stage makes of it.                                                       *)
IsFresh(n) ==
  \E op \in Range(ops) : \E i \in InstancesOf(op) :
    \/ n = Clone(op, i)
    \/ \E c \in CopiesOf(op) :
         n = CopyOp(op, c, i) /\ IsCopied(op, c, i) /\ CopyOf(op, c) # Null

Redirection(n, k) == IF n.uses[k] \in Ops THEN <<n.uses[k], n.attrs[k]>> ELSE n.uses[k]

IsRedirected(n, old) ==
  /\ IsFresh(old) /\ ~ IsIncomplete(old)
  /\ n.key = old.key
  /\ DOMAIN n.uses = DOMAIN old.uses
  /\ \A k \in DOMAIN old.uses :
       /\ n.uses[k] = Redirection(old, k)
       /\ old.uses[k] \in Ops => n.uses[k] \in Mapping /\ n.attrs[k] = Instance(0)
-----------------------------------------------------------------------------
Keys == Ops \X Attributes

NewOpType ==
  [key : Keys, uses : Seq(Ops \union {External} \union Keys), specified : BOOLEAN,
   attrs : Seq(Attributes \union {Null})]

TypeOK ==
  /\ program \in Programs
  /\ phase \in {"check", "create", "update", "done", "failed"}
  /\ rest \in Seq(Ops)
  /\ ops \in Seq(Ops)
  /\ erased \in SUBSET Ops
  /\ newOps \in Seq(NewOpType)
  /\ updated \in 0 .. Len(newOps)

IsDistinct(s) == \A i, j \in DOMAIN s : s[i] = s[j] => i = j

(* What the walk over the operations has decided about op.                  *)
IsVisited(op) ==
  /\ program.hasInstances[op]
  /\ IF NumInstances(op) = 0 THEN op = Exit \/ op \in erased ELSE op \in Range(ops)

ChecksInOrder ==
  phase = "check" =>
    /\ IsDistinct(rest) /\ Range(rest) \intersect Range(ops) = {}
    /\ \A op \in Ops \ Range(rest) : IsVisited(op)
    /\ chase = <<>> /\ newOps = <<>> /\ updated = 0

OpsAreVisited ==
  /\ IsDistinct(ops)
  /\ \A op \in Range(ops) : NumInstances(op) # 0
  /\ phase \in {"create", "update", "done"} => \A op \in Ops : IsVisited(op)

ErasedAreUnused == \A op \in erased : Users(op) = {}

(* The instances and the copies of op before copy c are created.            *)
IsCreated(op, c) ==
  /\ \A i \in InstancesOf(op) : <<op, Instance(i)>> \in Mapping
  /\ \A d \in 0 .. c - 1 : <<op, Copy(d)>> \in Mapping

IsComplete(op) == IsCreated(op, Len(program.copies[op]))

IsChasing ==
  LET op == Head(rest)
  IN  /\ rest # <<>>
      /\ chase \in CopiesOf(op) \X CopiesOf(op)
      /\ IsOnChain(op, chase[1], chase[2])
      /\ chase[1] = chase[2] \/ CopyOf(op, chase[1]) # Null
      /\ IsCreated(op, chase[1])
      /\ \A c \in CopiesOf(op) : <<op, Copy(c)>> \in Mapping => c < chase[1]

CreatesInOrder ==
  phase = "create" =>
    /\ IsDistinct(rest) /\ Range(rest) \subseteq Range(ops)
    /\ \A op \in Range(ops) \ Range(rest) : IsComplete(op)
    /\ \A n \in Range(newOps) :
         n.key[1] \in Range(rest) => chase # <<>> /\ n.key[1] = Head(rest)
    /\ chase # <<>> => IsChasing
    /\ updated = 0

AllAreCreated ==
  /\ phase \in {"update", "done"} => \A op \in Range(ops) : IsComplete(op)
  /\ phase = "done" => updated = Len(newOps)

KeysAreDistinct == \A i, j \in DOMAIN newOps : newOps[i].key = newOps[j].key => i = j

NewOpsAreRight ==
  \A j \in DOMAIN newOps :
    IF j > updated THEN IsFresh(newOps[j]) ELSE \E old \in NewOpType : IsRedirected(newOps[j], old)

IInv ==
  /\ TypeOK /\ ChecksInOrder /\ OpsAreVisited /\ ErasedAreUnused
  /\ CreatesInOrder /\ AllAreCreated /\ KeysAreDistinct /\ NewOpsAreRight
-----------------------------------------------------------------------------
(* What the program is.                                                     *)
LEMMA ProgramIsVerified ==
  ASSUME program \in Programs
  PROVE  IsProgram(program) /\ IsVerified(program)
BY ProgramsAssumption, Zenon

(* The lists that a program holds.                                          *)
LEMMA LengthsTyped ==
  ASSUME program \in Programs, NEW op \in Ops
  PROVE  /\ NumInstances(op) \in Nat
         /\ Len(program.copies[op]) \in Nat
         /\ NumInstances(op) = 0 <=> program.instances[op] = <<>>
         /\ DOMAIN program.instances[op] = 1 .. NumInstances(op)
         /\ DOMAIN program.copies[op] = 1 .. Len(program.copies[op])
         /\ program.rank[op] \in 0 .. Len(program.operands[op])
         /\ program.operands[op] \in Seq(Ops \union {External})
         /\ Len(program.operands[op]) \in Nat
         /\ DOMAIN program.operands[op] = 1 .. Len(program.operands[op])
<1>1. /\ program.instances[op] \in Seq([specified : BOOLEAN, operands : Seq(Attributes)])
      /\ program.copies[op] \in Seq(Attributes \union {Null})
      /\ program.operands[op] \in Seq(Ops \union {External})
      /\ program.rank[op] \in Nat /\ program.rank[op] <= Len(program.operands[op])
  BY ProgramIsVerified, Zenon DEF IsProgram
<1>2. QED
  BY <1>1, LenProperties, EmptySeq DEF NumInstances

(* The instances and the copies that the decisions list.                    *)
LEMMA DecisionsTyped ==
  ASSUME program \in Programs, NEW op \in Ops
  PROVE  /\ \A i \in InstancesOf(op) :
              /\ i + 1 \in 1 .. NumInstances(op)
              /\ Decisions(op, i) \in [specified : BOOLEAN, operands : Seq(Attributes)]
         /\ \A c \in CopiesOf(op) :
              /\ c + 1 \in 1 .. Len(program.copies[op])
              /\ CopyOf(op, c) \in Attributes \union {Null}
<1>1. /\ program.instances[op] \in Seq([specified : BOOLEAN, operands : Seq(Attributes)])
      /\ program.copies[op] \in Seq(Attributes \union {Null})
  BY ProgramIsVerified, Zenon DEF IsProgram
<1>2. NumInstances(op) \in Nat /\ Len(program.copies[op]) \in Nat
  BY LengthsTyped, Zenon
<1>3. ASSUME NEW i \in InstancesOf(op)
      PROVE  /\ i + 1 \in 1 .. NumInstances(op)
             /\ Decisions(op, i) \in [specified : BOOLEAN, operands : Seq(Attributes)]
  <2>1. i + 1 \in 1 .. Len(program.instances[op])
    BY <1>2 DEF InstancesOf, NumInstances
  <2>2. QED
    BY <1>1, <2>1, ElementOfSeq, Zenon DEF Decisions, NumInstances
<1>4. ASSUME NEW c \in CopiesOf(op)
      PROVE  /\ c + 1 \in 1 .. Len(program.copies[op])
             /\ CopyOf(op, c) \in Attributes \union {Null}
  <2>1. c + 1 \in 1 .. Len(program.copies[op])
    BY <1>2 DEF CopiesOf
  <2>2. QED
    BY <1>1, <2>1, ElementOfSeq, Zenon DEF CopyOf
<1>5. QED
  BY <1>3, <1>4, Zenon

(* Before the walk nothing is visited, created or erased.                   *)
LEMMA InitIInv ==
  ASSUME Init
  PROVE  IInv
<1>1. program \in Programs /\ IsProgram(program)
  BY ProgramIsVerified, Zenon DEF Init
<1>2. newOps = <<>> /\ DOMAIN newOps = {} /\ Range(newOps) = {} /\ Len(newOps) = 0
  BY DEF Init, Range
<1>3. ops = <<>> /\ DOMAIN ops = {} /\ Range(ops) = {}
  BY DEF Init, Range
<1>4. TypeOK
  BY <1>1, <1>2 DEF TypeOK, Init, IsProgram
<1>5. ChecksInOrder
  BY <1>1, <1>3, Zenon DEF ChecksInOrder, Init, IsProgram, IsDistinct
<1>6. OpsAreVisited /\ ErasedAreUnused
  BY <1>3, Zenon DEF OpsAreVisited, ErasedAreUnused, Init, IsDistinct
<1>7. CreatesInOrder /\ AllAreCreated /\ KeysAreDistinct /\ NewOpsAreRight
  BY <1>2, Zenon DEF CreatesInOrder, AllAreCreated, KeysAreDistinct, NewOpsAreRight, Init
<1>8. QED
  BY <1>4, <1>5, <1>6, <1>7, Zenon DEF IInv
-----------------------------------------------------------------------------
(* The check before the stages.  An operation that it erases has no users:  *)
(* they have instances, or it would have been rejected, and an operation    *)
(* that has instances reads none without.                                   *)
LEMMA VisitOpKeepsInv ==
  ASSUME IInv, EmptyOpsAreUnused(program), VisitOp
  PROVE  IInv'
<1> DEFINE op == Head(rest)
<1>1. TypeOK /\ ChecksInOrder /\ OpsAreVisited /\ ErasedAreUnused
  BY Zenon DEF IInv
<1>2. /\ phase = "check" /\ rest # <<>> /\ ~ IsRejected(op)
      /\ rest' = Tail(rest)
      /\ ops' = IF HasInstances(op) THEN Append(ops, op) ELSE ops
      /\ erased' = IF HasInstances(op) \/ op = Exit THEN erased ELSE erased \union {op}
      /\ program' = program /\ phase' = phase /\ chase' = chase
      /\ newOps' = newOps /\ updated' = updated
  BY Zenon DEF VisitOp, Checks
<1>3. /\ op \in Ops /\ op \in Range(rest) /\ Tail(rest) \in Seq(Ops)
      /\ Range(rest) = {op} \union Range(Tail(rest))
      /\ op \notin Range(Tail(rest)) /\ IsDistinct(Tail(rest))
  BY <1>1, <1>2, HeadAndTail, Zenon DEF TypeOK, ChecksInOrder, IsDistinct
<1> HIDE DEF op
<1>4. program.hasInstances[op] /\ (HasInstances(op) <=> NumInstances(op) # 0)
  BY <1>2, Zenon DEF IsRejected, HasInstances
<1>5. op \notin Range(ops) /\ \A o \in Ops \ Range(rest) : IsVisited(o)
  BY <1>1, <1>2, <1>3, Zenon DEF ChecksInOrder
<1>6. /\ ops' \in Seq(Ops) /\ IsDistinct(ops')
      /\ Range(ops') = IF HasInstances(op) THEN Range(ops) \union {op} ELSE Range(ops)
  <2>1. CASE HasInstances(op)
    <3>1. ops' = Append(ops, op)
      BY <1>2, <2>1, Zenon
    <3>2. ops \in Seq(Ops) /\ \A i, j \in DOMAIN ops : ops[i] = ops[j] => i = j
      BY <1>1, Zenon DEF TypeOK, OpsAreVisited, IsDistinct
    <3>3. /\ Append(ops, op) \in Seq(Ops) /\ Range(Append(ops, op)) = Range(ops) \union {op}
          /\ IsDistinct(Append(ops, op))
      <4>1. /\ Append(ops, op) \in Seq(Ops) /\ Range(Append(ops, op)) = Range(ops) \union {op}
            /\ op \notin Range(ops) /\ (\A i, j \in DOMAIN ops : ops[i] = ops[j] => i = j) =>
                 \A i, j \in DOMAIN Append(ops, op) :
                   Append(ops, op)[i] = Append(ops, op)[j] => i = j
        BY <1>3, <3>2, AppendElements
      <4>2. QED
        BY <1>5, <3>2, <4>1, Zenon DEF IsDistinct
    <3>4. QED
      BY <2>1, <3>1, <3>3, Zenon
  <2>2. CASE ~ HasInstances(op)
    BY <1>1, <1>2, <2>2, Zenon DEF TypeOK, OpsAreVisited
  <2>3. QED
    BY <2>1, <2>2, Zenon
<1>7. TypeOK'
  BY <1>1, <1>2, <1>3, <1>6, Zenon DEF TypeOK
<1>8. ChecksInOrder'
  <2>1. ASSUME NEW o \in Ops \ Range(rest')
        PROVE  IsVisited(o)'
    <3>1. CASE o = op
      BY <1>2, <1>4, <1>6, <3>1, Zenon DEF IsVisited, NumInstances
    <3>2. CASE o # op
      <4>1. IsVisited(o)
        BY <1>2, <1>3, <1>5, <3>2, Zenon
      <4>2. QED
        BY <1>2, <1>6, <4>1, Zenon DEF IsVisited, NumInstances
    <3>3. QED
      BY <3>1, <3>2, Zenon
  <2>2. Range(rest') \intersect Range(ops') = {}
    BY <1>1, <1>2, <1>3, <1>6, Zenon DEF ChecksInOrder
  <2>3. QED
    BY <1>1, <1>2, <1>3, <2>1, <2>2, Zenon DEF ChecksInOrder
<1>9. OpsAreVisited'
  BY <1>1, <1>2, <1>4, <1>6, Zenon DEF OpsAreVisited, NumInstances
<1>10. ErasedAreUnused'
  <2>1. ASSUME NEW o \in erased'
        PROVE  Users(o)' = {}
    <3>1. Users(o)' \subseteq Users(o)
      BY <1>2, Zenon DEF Users
    <3>2. CASE o \in erased
      BY <1>1, <3>1, <3>2, Zenon DEF ErasedAreUnused
    <3>3. CASE o \notin erased
      <4>1. o = op /\ ~ HasInstances(op) /\ op # Exit
        BY <1>2, <3>3, Zenon
      <4>2. NumInstances(op) = 0 /\ program.instances[op] = <<>>
        BY <1>1, <1>3, <1>4, <4>1, LengthsTyped, Zenon DEF TypeOK
      <4>3. ASSUME NEW u \in Users(op)
            PROVE  FALSE
        <5>1. HasInstances(u)
          BY <1>2, <4>1, <4>2, <4>3, Zenon DEF IsRejected
        <5>2. u \in Ops /\ op \in Range(program.operands[u])
          BY <4>3, Zenon DEF Users
        <5>3. program.instances[u] = <<>>
          BY <1>3, <4>2, <5>2, Zenon DEF EmptyOpsAreUnused
        <5>4. QED
          BY <1>1, <5>1, <5>2, <5>3, LengthsTyped, Zenon DEF HasInstances, TypeOK
      <4>4. QED
        BY <3>1, <4>1, <4>3, Zenon
    <3>4. QED
      BY <3>2, <3>3, Zenon
  <2>2. QED
    BY <2>1, Zenon DEF ErasedAreUnused
<1>11. /\ CreatesInOrder' /\ AllAreCreated'
       /\ KeysAreDistinct' /\ NewOpsAreRight'
  <2>1. newOps' = <<>> /\ DOMAIN newOps' = {}
    BY <1>1, <1>2 DEF ChecksInOrder
  <2>2. QED
    BY <1>2, <2>1, Zenon DEF CreatesInOrder, AllAreCreated, KeysAreDistinct, NewOpsAreRight
<1>12. QED
  BY <1>7, <1>8, <1>9, <1>10, <1>11, Zenon DEF IInv

(* After the walk each operation is kept, erased, or the exit.              *)
LEMMA EndCheckKeepsInv ==
  ASSUME IInv, EndCheck
  PROVE  IInv'
<1>1. TypeOK /\ ChecksInOrder /\ OpsAreVisited /\ ErasedAreUnused
  BY Zenon DEF IInv
<1>2. /\ phase = "check" /\ rest = <<>> /\ phase' = "create" /\ rest' = ops
      /\ program' = program /\ ops' = ops /\ erased' = erased /\ chase' = chase
      /\ newOps' = newOps /\ updated' = updated
  BY Zenon DEF EndCheck
<1>3. chase = <<>> /\ newOps = <<>> /\ updated = 0 /\ DOMAIN newOps = {} /\ Range(newOps) = {}
  BY <1>1, <1>2 DEF ChecksInOrder, Range
<1>4. \A op \in Ops : IsVisited(op)
  BY <1>1, <1>2 DEF ChecksInOrder, Range
<1>5. TypeOK' /\ ChecksInOrder' /\ ErasedAreUnused'
  BY <1>1, <1>2, Zenon DEF TypeOK, ChecksInOrder, ErasedAreUnused, Users
<1>6. OpsAreVisited'
  BY <1>1, <1>2, <1>4, Zenon DEF OpsAreVisited, IsVisited, NumInstances
<1>7. CreatesInOrder'
  BY <1>1, <1>2, <1>3, Zenon DEF CreatesInOrder, OpsAreVisited
<1>8. AllAreCreated' /\ KeysAreDistinct' /\ NewOpsAreRight'
  BY <1>2, <1>3, Zenon DEF AllAreCreated, KeysAreDistinct, NewOpsAreRight
<1>9. QED
  BY <1>5, <1>6, <1>7, <1>8, Zenon DEF IInv
-----------------------------------------------------------------------------
(* What the new operations are depends on the program and on ops.           *)
LEMMA SameFreshOps ==
  ASSUME program' = program, ops' = ops, NEW n
  PROVE  IsFresh(n)' <=> IsFresh(n)
<1>1. \A op : CopiesOf(op)' = CopiesOf(op) /\ InstancesOf(op)' = InstancesOf(op)
  BY Zenon DEF CopiesOf, InstancesOf, NumInstances
<1>2. \A op, i : Clone(op, i)' = Clone(op, i)
  BY Zenon DEF Clone, Decisions
<1>3. \A op, c, i : CopyOp(op, c, i)' = CopyOp(op, c, i) /\ CopyOf(op, c)' = CopyOf(op, c)
  BY Zenon DEF CopyOp, CopyOf, Dims, Decisions
<1>4. \A op, c, i : IsCopied(op, c, i)' <=> IsCopied(op, c, i)
  <2>1. \A op, S : HoldsCopied(op, S)' <=> HoldsCopied(op, S)
    BY <1>3, Zenon DEF HoldsCopied
  <2>2. \A op, c, d : IsOnChain(op, c, d)' <=> IsOnChain(op, c, d)
    BY <1>1, <2>1, Zenon DEF IsOnChain
  <2>3. QED
    BY <1>1, <1>3, <2>2, Zenon DEF IsCopied
<1>5. Range(ops)' = Range(ops)
  BY Zenon
<1>6. QED
  BY <1>1, <1>2, <1>3, <1>4, <1>5, Zenon DEF IsFresh

(* An updated operation stays right while the mapping only grows.           *)
LEMMA RedirectedStays ==
  ASSUME program' = program, ops' = ops, Mapping \subseteq Mapping',
         NEW n, NEW old, IsRedirected(n, old)
  PROVE  IsRedirected(n, old)'
<1>1. IsFresh(old)'
  BY SameFreshOps, Zenon DEF IsRedirected
<1>2. QED
  BY <1>1, Zenon DEF IsRedirected, IsIncomplete, Redirection

(* An error ends the pass.                                                  *)
LEMMA FailureKeepsInv ==
  ASSUME IInv, phase' = "failed",
         UNCHANGED <<program, rest, ops, erased, chase, newOps, updated>>
  PROVE  IInv'
<1>1. TypeOK /\ OpsAreVisited /\ ErasedAreUnused /\ KeysAreDistinct /\ NewOpsAreRight
  BY Zenon DEF IInv
<1>2. TypeOK' /\ ChecksInOrder' /\ CreatesInOrder' /\ AllAreCreated'
  BY <1>1, Zenon DEF TypeOK, ChecksInOrder, CreatesInOrder, AllAreCreated
<1>3. OpsAreVisited' /\ ErasedAreUnused' /\ KeysAreDistinct'
  BY <1>1, Zenon DEF OpsAreVisited, ErasedAreUnused, KeysAreDistinct, Users, NumInstances
<1>4. NewOpsAreRight'
  <2>1. Mapping \subseteq Mapping'
    BY Zenon DEF Mapping
  <2>2. ASSUME NEW j \in DOMAIN newOps
        PROVE  IF j > updated THEN IsFresh(newOps[j])'
               ELSE \E old \in NewOpType : IsRedirected(newOps[j], old)'
    BY <1>1, <2>1, SameFreshOps, RedirectedStays, Zenon DEF NewOpsAreRight
  <2>3. QED
    BY <2>2, Zenon DEF NewOpsAreRight
<1>5. QED
  BY <1>2, <1>3, <1>4, Zenon DEF IInv
-----------------------------------------------------------------------------
(* The clones and the copies.                                               *)
LEMMA AttributesAre ==
  ASSUME NEW i \in Nat
  PROVE  Instance(i) \in Attributes /\ Copy(i) \in Attributes
BY Zenon DEF Instance, Copy, Attributes

(* A clone is a new operation.                                              *)
LEMMA CloneTyped ==
  ASSUME program \in Programs, NEW op \in Ops, NEW i \in InstancesOf(op)
  PROVE  Clone(op, i) \in NewOpType /\ i \in Nat
<1>1. Decisions(op, i) \in [specified : BOOLEAN, operands : Seq(Attributes)]
  BY DecisionsTyped, Zenon
<1>2. i \in Nat
  BY LengthsTyped DEF InstancesOf
<1>3. <<op, Instance(i)>> \in Keys
  BY <1>2, AttributesAre, Zenon DEF Keys
<1>4. program.operands[op] \in Seq(Ops \union {External} \union Keys)
  BY LengthsTyped, SeqMonotonic, Zenon
<1>5. Decisions(op, i).operands \in Seq(Attributes \union {Null})
  BY <1>1, SeqMonotonic, Zenon
<1>6. QED
  BY <1>1, <1>2, <1>3, <1>4, <1>5, Zenon DEF Clone, NewOpType

(* The verifier compares the attributes of an instance with its operands.   *)
LEMMA DecisionsVerified ==
  ASSUME program \in Programs, NEW op \in Ops, NEW i \in InstancesOf(op),
         Decisions(op, i).specified
  PROVE  /\ Len(Decisions(op, i).operands) = Len(program.operands[op])
         /\ \A k \in 1 .. Len(program.operands[op]) :
              /\ Decisions(op, i).operands[k] \in Attributes
              /\ Designates(program, program.operands[op][k], Decisions(op, i).operands[k])
<1>1. /\ i + 1 \in DOMAIN program.instances[op]
      /\ Decisions(op, i) \in [specified : BOOLEAN, operands : Seq(Attributes)]
  BY DecisionsTyped, LengthsTyped, Zenon
<1>2. VerifyInstancesAttr(program, op)
  BY ProgramIsVerified, Zenon DEF IsVerified
<1>3. /\ Len(Decisions(op, i).operands) = Len(program.operands[op])
      /\ \A k \in DOMAIN Decisions(op, i).operands :
           Designates(program, program.operands[op][k], Decisions(op, i).operands[k])
  BY <1>1, <1>2, Zenon DEF VerifyInstancesAttr, Decisions
<1>4. Decisions(op, i).operands \in Seq(Attributes)
  BY <1>1, Zenon
<1>5. DOMAIN Decisions(op, i).operands = 1 .. Len(program.operands[op])
  BY <1>3, <1>4, LenProperties, Zenon
<1>6. QED
  BY <1>3, <1>4, <1>5, ElementOfSeq, Zenon

(* The dimensions of an instance are what its first operands designate.     *)
LEMMA DimsAre ==
  ASSUME program \in Programs, NEW op \in Ops, NEW i \in InstancesOf(op)
  PROVE  /\ Dims(op, i) \in Seq(Attributes) /\ Len(Dims(op, i)) = program.rank[op]
         /\ \A k \in 1 .. program.rank[op] :
              Dims(op, i)[k] = IF Decisions(op, i).specified THEN Decisions(op, i).operands[k]
                               ELSE Instance(0)
<1> DEFINE r == program.rank[op]
           attrs == Decisions(op, i).operands
<1>1. r \in Nat /\ r <= Len(program.operands[op]) /\ Len(program.operands[op]) \in Nat
  BY LengthsTyped
<1>2. CASE Decisions(op, i).specified
  <2>1. \A k \in 1 .. r : attrs[k] \in Attributes
    BY <1>1, <1>2, DecisionsVerified
  <2>2. Dims(op, i) = SubSeq(attrs, 1, r)
    BY <1>2, Zenon DEF Dims
  <2>3. /\ SubSeq(attrs, 1, r) \in Seq(Attributes)
        /\ Len(SubSeq(attrs, 1, r)) = IF 1 <= r THEN r - 1 + 1 ELSE 0
        /\ \A k \in 1 .. r - 1 + 1 : SubSeq(attrs, 1, r)[k] = attrs[1 + k - 1]
    <3> HIDE DEF attrs, r
    <3> QED
      BY <1>1, <2>1, SubSeqProperties
  <2>4. /\ \A k \in 1 .. r : k \in 1 .. r - 1 + 1 /\ 1 + k - 1 = k
        /\ (IF 1 <= r THEN r - 1 + 1 ELSE 0) = r
    BY <1>1
  <2>5. QED
    <3> HIDE DEF attrs, r
    <3> QED
      BY <1>2, <2>2, <2>3, <2>4, Zenon DEF attrs, r
<1>3. CASE ~ Decisions(op, i).specified
  <2>1. Dims(op, i) = [k \in 1 .. r |-> Instance(0)]
    BY <1>3, Zenon DEF Dims
  <2>2. Instance(0) \in Attributes
    BY AttributesAre, Zenon
  <2>3. QED
    BY <1>1, <1>3, <2>1, <2>2
<1>4. QED
  BY <1>2, <1>3, Zenon

(* A copy reads the dimensions of its instance, then the copied value.      *)
LEMMA CopyOpIs ==
  ASSUME program \in Programs, NEW op \in Ops, NEW i \in InstancesOf(op), NEW c \in CopiesOf(op)
  PROVE  LET n == CopyOp(op, c, i)
             r == program.rank[op]
         IN  /\ n \in NewOpType /\ c \in Nat
             /\ DOMAIN n.uses = 1 .. r + 1 /\ r \in Nat
             /\ \A k \in 1 .. r : n.uses[k] = program.operands[op][k] /\ n.attrs[k] = Dims(op, i)[k]
             /\ n.uses[r + 1] = op /\ n.attrs[r + 1] = CopyOf(op, c)
<1> DEFINE n == CopyOp(op, c, i)
           r == program.rank[op]
           values == program.operands[op]
           first == SubSeq(values, 1, r)
           dims == Dims(op, i)
           V == Ops \union {External} \union Keys
           A == Attributes \union {Null}
<1>1. r \in Nat /\ r <= Len(values) /\ Len(values) \in Nat /\ values \in Seq(Ops \union {External})
  BY LengthsTyped
<1>2. first \in Seq(V) /\ Len(first) = r /\ \A k \in 1 .. r : first[k] = values[k]
  <2>1. \A k \in 1 .. r : values[k] \in V
    BY <1>1, ElementOfSeq
  <2>2. /\ first \in Seq(V) /\ Len(first) = IF 1 <= r THEN r - 1 + 1 ELSE 0
        /\ \A k \in 1 .. r - 1 + 1 : first[k] = values[1 + k - 1]
    <3> HIDE DEF V, values, r
    <3> QED
      BY <1>1, <2>1, SubSeqProperties
  <2>3. /\ \A k \in 1 .. r : k \in 1 .. r - 1 + 1 /\ 1 + k - 1 = k
        /\ (IF 1 <= r THEN r - 1 + 1 ELSE 0) = r
    BY <1>1
  <2>4. QED
    <3> HIDE DEF V, values, r, first
    <3> QED
      BY <2>2, <2>3
<1>3. dims \in Seq(A) /\ Len(dims) = r
  BY DimsAre, SeqMonotonic, Zenon
<1>4. op \in V /\ CopyOf(op, c) \in A /\ c \in Nat
  BY DecisionsTyped, LengthsTyped DEF CopiesOf
<1>5. /\ n.uses = Append(first, op) /\ n.attrs = Append(dims, CopyOf(op, c))
      /\ n.key = <<op, Copy(c)>> /\ n.specified = TRUE
      /\ n = [key |-> <<op, Copy(c)>>, uses |-> Append(first, op), specified |-> TRUE,
              attrs |-> Append(dims, CopyOf(op, c))]
  BY Zenon DEF CopyOp
<1>6. <<op, Copy(c)>> \in Keys
  BY <1>4, AttributesAre, Zenon DEF Keys
<1> HIDE DEF n, r, values, first, dims, V, A
<1>7. /\ Append(first, op) \in Seq(V) /\ Append(dims, CopyOf(op, c)) \in Seq(A)
      /\ DOMAIN Append(first, op) = 1 .. r + 1
      /\ \A k \in 1 .. r : Append(first, op)[k] = first[k]
      /\ \A k \in 1 .. r : Append(dims, CopyOf(op, c))[k] = dims[k]
      /\ Append(first, op)[r + 1] = op /\ Append(dims, CopyOf(op, c))[r + 1] = CopyOf(op, c)
  BY <1>1, <1>2, <1>3, <1>4
<1>8. n \in NewOpType
  BY <1>5, <1>6, <1>7, Zenon DEF NewOpType, V, A
<1>9. QED
  BY <1>1, <1>2, <1>4, <1>5, <1>7, <1>8 DEF n, r, values, dims
-----------------------------------------------------------------------------
(* The first stage.                                                         *)
LEMMA MappingGrows ==
  ASSUME newOps \in Seq(NewOpType), NEW t \in Seq(NewOpType), newOps' = newOps \o t
  PROVE  /\ Mapping' = Mapping \union {n.key : n \in Range(t)}
         /\ Range(newOps') = Range(newOps) \union Range(t)
<1>1. Range(newOps') = Range(newOps) \union Range(t)
  BY ConcatElements
<1>2. QED
  BY <1>1, Zenon DEF Mapping

(* Operations with other keys are added.                                    *)
LEMMA DistinctKeysGrow ==
  ASSUME newOps \in Seq(NewOpType), NEW t \in Seq(NewOpType), newOps' = newOps \o t,
         KeysAreDistinct,
         \A i, j \in DOMAIN t : t[i].key = t[j].key => i = j,
         \A i \in DOMAIN t : t[i].key \notin Mapping
  PROVE  KeysAreDistinct'
<1> DEFINE m == Len(newOps)
           l == Len(t)
           u == newOps'
<1>1. /\ DOMAIN u = 1 .. m + l
      /\ \A i \in 1 .. m : u[i] = newOps[i]
      /\ \A i \in 1 .. l : u[m + i] = t[i]
      /\ \A i \in 1 .. m + l : i \in 1 .. m \/ \E j \in 1 .. l : i = m + j
  BY ConcatElements
<1>2. DOMAIN newOps = 1 .. m /\ DOMAIN t = 1 .. l
  BY LenProperties, Zenon
<1> HIDE DEF u, m, l
<1>3. \A i \in 1 .. m, j \in 1 .. l : newOps[i].key # t[j].key
  BY <1>2 DEF Mapping, Range
<1>4. \A i, j \in 1 .. m + l : u[i].key = u[j].key => i = j
  <2> SUFFICES ASSUME NEW i \in 1 .. m + l, NEW j \in 1 .. m + l, u[i].key = u[j].key
               PROVE  i = j
    BY Zenon
  <2>1. CASE i \in 1 .. m /\ j \in 1 .. m
    BY <1>1, <1>2, <2>1, Zenon DEF KeysAreDistinct
  <2>2. CASE i \in 1 .. m /\ j \notin 1 .. m
    <3>1. PICK k \in 1 .. l : j = m + k
      BY <1>1, <2>2, Zenon
    <3>2. u[i] = newOps[i] /\ u[j] = t[k]
      BY <1>1, <2>2, <3>1, Zenon
    <3>3. QED
      BY <1>3, <2>2, <3>2, Zenon
  <2>3. CASE i \notin 1 .. m /\ j \in 1 .. m
    <3>1. PICK k \in 1 .. l : i = m + k
      BY <1>1, <2>3, Zenon
    <3>2. u[j] = newOps[j] /\ u[i] = t[k]
      BY <1>1, <2>3, <3>1, Zenon
    <3>3. QED
      BY <1>3, <2>3, <3>2, Zenon
  <2>4. CASE i \notin 1 .. m /\ j \notin 1 .. m
    <3>1. PICK k \in 1 .. l : i = m + k
      BY <1>1, <2>4, Zenon
    <3>2. PICK h \in 1 .. l : j = m + h
      BY <1>1, <2>4, Zenon
    <3>3. u[i] = t[k] /\ u[j] = t[h]
      BY <1>1, <3>1, <3>2, Zenon
    <3>4. k = h
      BY <1>2, <3>3, Zenon
    <3>5. QED
      BY <3>1, <3>2, <3>4, Zenon
  <2>5. QED
    BY <2>1, <2>2, <2>3, <2>4, Zenon
<1>5. QED
  BY <1>1, <1>4, Zenon DEF KeysAreDistinct, u

(* The operations that the first stage adds are not updated yet.            *)
LEMMA FreshOpsGrow ==
  ASSUME newOps \in Seq(NewOpType), NEW t \in Seq(NewOpType), newOps' = newOps \o t,
         program' = program, ops' = ops, updated = 0, updated' = updated,
         NewOpsAreRight,
         \A i \in DOMAIN t : IsFresh(t[i])
  PROVE  NewOpsAreRight'
<1>1. \A j \in DOMAIN newOps : IsFresh(newOps[j])
  <2>1. \A j \in DOMAIN newOps : j > updated
    BY LenProperties
  <2>2. QED
    BY <2>1, Zenon DEF NewOpsAreRight
<1>2. \A n \in Range(newOps) \union Range(t) : IsFresh(n)'
  BY <1>1, SameFreshOps, Zenon DEF Range
<1>3. newOps' \in Seq(NewOpType) /\ Range(newOps') = Range(newOps) \union Range(t)
  BY ConcatElements
<1>4. ASSUME NEW j \in DOMAIN newOps'
      PROVE  j > updated' /\ IsFresh(newOps[j])'
  <2>1. j > updated'
    BY <1>3, LenProperties
  <2>2. PICK n : n = newOps'[j]
    BY Zenon
  <2>3. n \in Range(newOps')
    BY <2>2, Zenon DEF Range
  <2>4. IsFresh(n)'
    BY <1>2, <1>3, <2>3, Zenon
  <2>5. QED
    BY <2>1, <2>2, <2>4, Zenon DEF IsFresh
<1>5. QED
  BY <1>4, Zenon DEF NewOpsAreRight

(* What is created stays created.                                           *)
LEMMA CreatedStays ==
  ASSUME program' = program, Mapping \subseteq Mapping', NEW op, NEW c, IsCreated(op, c)
  PROVE  IsCreated(op, c)'
BY Zenon DEF IsCreated, InstancesOf, NumInstances

(* What the creation of new operations leaves alone.                        *)
LEMMA CreationFrame ==
  ASSUME IInv, phase = "create", UNCHANGED <<program, phase, ops, erased, updated>>
  PROVE  ChecksInOrder' /\ OpsAreVisited' /\ ErasedAreUnused' /\ AllAreCreated'
<1>1. OpsAreVisited /\ ErasedAreUnused
  BY Zenon DEF IInv
<1>2. ChecksInOrder' /\ AllAreCreated'
  BY Zenon DEF ChecksInOrder, AllAreCreated
<1>3. OpsAreVisited'
  BY <1>1, Zenon DEF OpsAreVisited, IsVisited, NumInstances
<1>4. ErasedAreUnused'
  BY <1>1, Zenon DEF ErasedAreUnused, Users
<1>5. QED
  BY <1>2, <1>3, <1>4, Zenon

(* After copy c of the operation at hand the next one follows, or the next  *)
(* operation.                                                               *)
LEMMA NextCopyInOrder ==
  ASSUME TypeOK, CreatesInOrder, phase = "create", rest # <<>>,
         UNCHANGED <<program, phase, ops, updated>>,
         NEW op, op = Head(rest),
         NEW c \in Int, -1 <= c, c < Len(program.copies[op]),
         NextCopy(op, c),
         Mapping \subseteq Mapping',
         IsCreated(op, c + 1)',
         \A d \in CopiesOf(op) : <<op, Copy(d)>> \in Mapping' => d <= c,
         \A n \in Range(newOps') : n.key[1] \in Range(rest) => n.key[1] = op
  PROVE  CreatesInOrder' /\ rest' \in Seq(Ops)
<1> DEFINE size == Len(program.copies[op])
<1>1. /\ op \in Ops /\ op \in Range(rest) /\ Tail(rest) \in Seq(Ops)
      /\ Range(rest) = {op} \union Range(Tail(rest))
      /\ op \notin Range(Tail(rest)) /\ IsDistinct(Tail(rest))
  BY HeadAndTail, Zenon DEF TypeOK, CreatesInOrder, IsDistinct
<1>2. size \in Nat
  BY <1>1, LengthsTyped, Zenon DEF TypeOK
<1>3. \A o \in Range(ops) \ Range(rest) : IsComplete(o)'
  BY CreatedStays, Zenon DEF CreatesInOrder, IsComplete
<1>4. CASE c + 1 < size
  <2>1. chase' = <<c + 1, c + 1>> /\ rest' = rest
    BY <1>4, Zenon DEF NextCopy
  <2>2. c + 1 \in CopiesOf(op) /\ CopiesOf(op)' = CopiesOf(op)
    BY <1>2, <1>4 DEF CopiesOf
  <2>3. IsOnChain(op, c + 1, c + 1)'
    BY Zenon DEF IsOnChain
  <2>4. \A d \in CopiesOf(op) : <<op, Copy(d)>> \in Mapping' => d < c + 1
    BY <1>2 DEF CopiesOf
  <2>5. IsChasing'
    <3>1. rest' # <<>> /\ Head(rest)' = op
      BY <2>1, Zenon
    <3>2. chase' \in CopiesOf(op)' \X CopiesOf(op)' /\ chase'[1] = c + 1 /\ chase'[2] = c + 1
      BY <2>1, <2>2, Zenon
    <3>3. QED
      BY <2>2, <2>3, <2>4, <3>1, <3>2, Zenon DEF IsChasing
  <2>6. chase' # <<>>
    BY <2>1, Zenon
  <2>7. QED
    BY <1>3, <2>1, <2>5, <2>6, Zenon DEF CreatesInOrder, TypeOK
<1>5. CASE ~ (c + 1 < size)
  <2>1. chase' = <<>> /\ rest' = Tail(rest) /\ c + 1 = size
    BY <1>2, <1>5 DEF NextCopy
  <2>2. IsComplete(op)'
    BY <2>1, Zenon DEF IsComplete
  <2>3. \A o \in Range(ops) \ Range(rest') : IsComplete(o)'
    BY <1>1, <1>3, <2>1, <2>2, Zenon
  <2>4. \A n \in Range(newOps') : n.key[1] \notin Range(rest')
    BY <1>1, <2>1, Zenon
  <2>5. IsDistinct(rest') /\ Range(rest') \subseteq Range(ops) /\ rest' \in Seq(Ops)
    BY <1>1, <2>1, Zenon DEF CreatesInOrder
  <2>6. QED
    BY <2>1, <2>3, <2>4, <2>5, Zenon DEF CreatesInOrder
<1>6. QED
  BY <1>4, <1>5, Zenon

(* The clones of the next operation are created, under new keys.            *)
LEMMA CreateClonesKeepsInv ==
  ASSUME IInv, CreateClones
  PROVE  IInv'
<1>0. PICK op : op = Head(rest)
  BY Zenon
<1> DEFINE N == NumInstances(op)
           clones == [i \in 1 .. N |-> Clone(op, i - 1)]
<1>1. TypeOK /\ OpsAreVisited /\ CreatesInOrder /\ KeysAreDistinct /\ NewOpsAreRight
  BY Zenon DEF IInv
<1>2. /\ phase = "create" /\ rest # <<>> /\ chase = <<>>
      /\ newOps' = newOps \o clones /\ NextCopy(op, -1)
      /\ program' = program /\ phase' = phase /\ ops' = ops /\ erased' = erased
      /\ updated' = updated
  BY <1>0, Zenon DEF CreateClones, Creates
<1>3. op \in Ops /\ op \in Range(rest) /\ op \in Range(ops) /\ program \in Programs
  BY <1>0, <1>1, <1>2, HeadAndTail, Zenon DEF TypeOK, CreatesInOrder
<1>4. N \in Nat /\ \A i \in 1 .. N : i - 1 \in InstancesOf(op)
  BY <1>3, LengthsTyped DEF InstancesOf
<1>5. \A i \in InstancesOf(op) : i + 1 \in 1 .. N /\ (i + 1) - 1 = i
  BY <1>4 DEF InstancesOf
<1> HIDE DEF N
<1>6. clones \in Seq(NewOpType) /\ DOMAIN clones = 1 .. N
  <2>1. \A i \in 1 .. N : Clone(op, i - 1) \in NewOpType
    BY <1>3, <1>4, CloneTyped, Zenon
  <2>2. QED
    BY <1>4, <2>1
<1>7. \A i \in 1 .. N : clones[i] = Clone(op, i - 1) /\ clones[i].key = <<op, Instance(i - 1)>>
  BY Zenon DEF Clone
<1> HIDE DEF clones
<1>8. newOps \in Seq(NewOpType) /\ updated = 0
  BY <1>1, <1>2, Zenon DEF TypeOK, CreatesInOrder
<1>9. /\ Mapping' = Mapping \union {n.key : n \in Range(clones)}
      /\ Range(newOps') = Range(newOps) \union Range(clones)
  BY <1>2, <1>6, <1>8, MappingGrows, Zenon
<1>10. {n.key : n \in Range(clones)} = {<<op, Instance(i)>> : i \in InstancesOf(op)}
  <2>1. \A i \in InstancesOf(op) : \E n \in Range(clones) : n.key = <<op, Instance(i)>>
    <3> SUFFICES ASSUME NEW i \in InstancesOf(op)
                 PROVE  \E n \in Range(clones) : n.key = <<op, Instance(i)>>
      BY Zenon
    <3>1. clones[i + 1].key = <<op, Instance(i)>> /\ i + 1 \in DOMAIN clones
      BY <1>5, <1>6, <1>7, Zenon
    <3>2. QED
      BY <3>1, Zenon DEF Range
  <2>2. \A n \in Range(clones) : \E i \in InstancesOf(op) : n.key = <<op, Instance(i)>>
    BY <1>4, <1>6, <1>7, Zenon DEF Range
  <2>3. QED
    BY <2>1, <2>2, Zenon
<1>11. \A n \in Range(newOps) : n.key[1] \notin Range(rest)
  BY <1>1, <1>2, Zenon DEF CreatesInOrder
<1>12. TypeOK' /\ NewOpsAreRight' /\ KeysAreDistinct'
  <2>1. newOps' \in Seq(NewOpType) /\ updated' \in 0 .. Len(newOps')
    <3>1. newOps' \in Seq(NewOpType)
      BY <1>2, <1>6, <1>8, ConcatElements, Zenon
    <3>2. QED
      BY <1>2, <1>8, <3>1, LenProperties
  <2>2. rest' \in Seq(Ops)
    <3>1. rest' = rest \/ rest' = Tail(rest)
      BY <1>2, Zenon DEF NextCopy
    <3>2. rest \in Seq(Ops)
      BY <1>1, Zenon DEF TypeOK
    <3>3. Tail(rest) \in Seq(Ops)
      BY <1>2, <3>2, HeadTailProperties, Zenon
    <3>4. QED
      BY <3>1, <3>2, <3>3, Zenon
  <2>3. TypeOK'
    BY <1>1, <1>2, <2>1, <2>2, Zenon DEF TypeOK
  <2>4. \A i \in DOMAIN clones : IsFresh(clones[i])
    BY <1>3, <1>4, <1>6, <1>7, Zenon DEF IsFresh
  <2>5. NewOpsAreRight'
    BY <1>1, <1>2, <1>6, <1>8, <2>4, FreshOpsGrow, Zenon
  <2>6. \A i, j \in DOMAIN clones : clones[i].key = clones[j].key => i = j
    BY <1>4, <1>6, <1>7 DEF Instance
  <2>7. \A i \in DOMAIN clones : clones[i].key \notin Mapping
    BY <1>3, <1>6, <1>7, <1>11 DEF Mapping
  <2>8. KeysAreDistinct'
    BY <1>1, <1>2, <1>6, <1>8, <2>6, <2>7, DistinctKeysGrow, Zenon
  <2>9. QED
    BY <2>3, <2>5, <2>8, Zenon
<1>13. CreatesInOrder'
  <2>1. IsCreated(op, -1 + 1)'
    <3>1. \A i \in InstancesOf(op) : <<op, Instance(i)>> \in Mapping'
      BY <1>9, <1>10, Zenon
    <3>2. InstancesOf(op)' = InstancesOf(op)
      BY <1>2, Zenon DEF InstancesOf, NumInstances
    <3>3. QED
      BY <3>1, <3>2 DEF IsCreated
  <2>2. \A d \in CopiesOf(op) : <<op, Copy(d)>> \notin Mapping'
    <3>1. \A d \in CopiesOf(op) : <<op, Copy(d)>> \notin Mapping
      BY <1>3, <1>11 DEF Mapping
    <3>2. QED
      BY <1>9, <1>10, <3>1, Zenon DEF Copy, Instance
  <2>3. \A n \in Range(newOps') : n.key[1] \in Range(rest) => n.key[1] = op
    <3>1. \A n \in Range(clones) : n.key[1] = op
      BY <1>6, <1>7 DEF Range
    <3>2. QED
      BY <1>9, <1>11, <3>1, Zenon
  <2>4. Mapping \subseteq Mapping'
    BY <1>9, Zenon
  <2>5. -1 < Len(program.copies[op])
    BY <1>3, LengthsTyped
  <2>6. QED
    <3>1. -1 \in Int /\ \A d \in CopiesOf(op) : <<op, Copy(d)>> \in Mapping' => d <= -1
      BY <2>2
    <3>2. QED
      BY <1>0, <1>1, <1>2, <2>1, <2>3, <2>4, <2>5, <3>1, NextCopyInOrder
<1>14. QED
  BY <1>2, <1>12, <1>13, CreationFrame, Zenon DEF IInv

(* The verifier checks what a copy says it is a copy of.                    *)
LEMMA CopyVerified ==
  ASSUME program \in Programs, NEW op \in Ops, NEW c \in CopiesOf(op)
  PROVE  /\ CopyOf(op, c)[1] = "copy" =>
              CopyOf(op, c)[2] \in CopiesOf(op) /\ CopyOf(op, c) = Copy(CopyOf(op, c)[2])
         /\ CopyOf(op, c)[1] = "instance" /\ program.hasInstances[op] =>
              CopyOf(op, c)[2] \in InstancesOf(op) /\ CopyOf(op, c) = Instance(CopyOf(op, c)[2])
<1> DEFINE attr == CopyOf(op, c)
<1>1. c + 1 \in DOMAIN program.copies[op] /\ attr \in Attributes \union {Null}
  BY DecisionsTyped, LengthsTyped, Zenon
<1>2. Designates(program, op, attr)
  BY <1>1, ProgramIsVerified, Zenon DEF IsVerified, VerifyValueProducerOp, CopyOf
<1>3. op # External /\ NumInstances(op) \in Nat /\ Len(program.copies[op]) \in Nat
  BY ProgramsAssumption, LengthsTyped, Zenon
<1> HIDE DEF attr
<1>4. ASSUME attr[1] \in {"copy", "instance"}
      PROVE  attr[2] \in Nat /\ attr = <<attr[1], attr[2]>>
  <2>1. attr # Unit /\ attr # Null
    BY <1>4 DEF Unit, Null
  <2>2. attr \in {"instance", "copy"} \X Nat
    BY <1>1, <2>1, Zenon DEF Attributes
  <2>3. QED
    BY <2>2
<1>5. ASSUME attr[1] = "copy"
      PROVE  attr[2] \in CopiesOf(op) /\ attr = Copy(attr[2])
  <2>1. attr[2] < Len(program.copies[op])
    BY <1>2, <1>5, Zenon DEF Designates
  <2>2. QED
    BY <1>3, <1>4, <1>5, <2>1 DEF CopiesOf, Copy
<1>6. ASSUME attr[1] = "instance", program.hasInstances[op]
      PROVE  attr[2] \in InstancesOf(op) /\ attr = Instance(attr[2])
  <2>1. attr[2] < NumInstances(op)
    BY <1>2, <1>3, <1>6, Zenon DEF Designates, NumInstances
  <2>2. QED
    BY <1>3, <1>4, <1>6, <2>1 DEF InstancesOf, Instance
<1>7. QED
  BY <1>5, <1>6, Zenon DEF attr

(* FindCopiedInstance stays on the chain of the copy it started from.       *)
LEMMA FollowCopyKeepsInv ==
  ASSUME IInv, FollowCopy
  PROVE  IInv'
<1>0. PICK op : op = Head(rest)
  BY Zenon
<1>1. TypeOK /\ OpsAreVisited /\ CreatesInOrder /\ KeysAreDistinct /\ NewOpsAreRight
  BY Zenon DEF IInv
<1>2. /\ phase = "create" /\ rest # <<>> /\ chase # <<>>
      /\ CopyOf(op, chase[2])[1] = "copy"
      /\ chase' = <<chase[1], CopyOf(op, chase[2])[2]>>
      /\ program' = program /\ phase' = phase /\ rest' = rest /\ ops' = ops
      /\ erased' = erased /\ newOps' = newOps /\ updated' = updated
  BY <1>0, Zenon DEF FollowCopy, Creates
<1>3. /\ IsChasing /\ op \in Ops /\ program \in Programs
      /\ chase[1] \in CopiesOf(op) /\ chase[2] \in CopiesOf(op)
  <2>1. IsChasing /\ op \in Ops /\ program \in Programs
    BY <1>0, <1>1, <1>2, HeadTailProperties, Zenon DEF TypeOK, CreatesInOrder
  <2>2. QED
    BY <1>0, <2>1, Zenon DEF IsChasing
<1> DEFINE next == CopyOf(op, chase[2])[2]
<1>4. next \in CopiesOf(op)
  BY <1>2, <1>3, CopyVerified, Zenon
<1>5. IsOnChain(op, chase[1], next)
  BY <1>0, <1>2, <1>3, Zenon DEF IsChasing, IsOnChain, HoldsCopied
<1>6. CopyOf(op, chase[1]) # Null
  <2>1. CASE chase[1] = chase[2]
    BY <1>2, <2>1 DEF Null
  <2>2. CASE chase[1] # chase[2]
    BY <1>0, <1>3, <2>2, Zenon DEF IsChasing
  <2>3. QED
    BY <2>1, <2>2, Zenon
<1> HIDE DEF next
<1>7. IsChasing'
  <2>1. rest' # <<>> /\ Head(rest)' = op /\ chase'[1] = chase[1] /\ chase'[2] = next
    BY <1>0, <1>2, Zenon DEF next
  <2>2. chase' \in CopiesOf(op) \X CopiesOf(op)
    BY <1>2, <1>3, <1>4, Zenon DEF next
  <2>3. CopiesOf(op)' = CopiesOf(op) /\ Mapping' = Mapping
    BY <1>2, Zenon DEF CopiesOf, Mapping
  <2>4. ASSUME NEW c, NEW d
        PROVE  /\ IsOnChain(op, c, d)' <=> IsOnChain(op, c, d)
               /\ IsCreated(op, c)' <=> IsCreated(op, c)
               /\ CopyOf(op, c)' = CopyOf(op, c)
    BY <1>2, <2>3, Zenon DEF IsOnChain, HoldsCopied, CopyOf, IsCreated, InstancesOf, NumInstances
  <2>5. PICK c, d : c = chase[1] /\ d = next
    BY Zenon
  <2>6. IsOnChain(op, c, d)' /\ IsCreated(op, c)' /\ CopyOf(op, c)' # Null
    BY <1>0, <1>3, <1>5, <1>6, <2>4, <2>5, Zenon DEF IsChasing
  <2>7. \A x \in CopiesOf(op) : <<op, Copy(x)>> \in Mapping' => x < c
    BY <1>0, <1>3, <2>3, <2>5, Zenon DEF IsChasing
  <2>8. chase'[1] = c /\ chase'[2] = d
    BY <2>1, <2>5, Zenon
  <2>9. IsOnChain(Head(rest), chase[1], chase[2])' /\ IsCreated(Head(rest), chase[1])'
    BY <2>1, <2>6, <2>8, Zenon DEF IsOnChain, IsCreated
  <2>10. CopyOf(Head(rest), chase[1])' # Null
    BY <2>1, <2>6, <2>8, Zenon DEF CopyOf
  <2>11. CopiesOf(Head(rest))' = CopiesOf(op)
    BY <2>1, <2>3, Zenon DEF CopiesOf
  <2>12. QED
    BY <2>1, <2>2, <2>7, <2>8, <2>9, <2>10, <2>11, Zenon DEF IsChasing
<1>8. CreatesInOrder'
  <2>1. \A o \in Range(ops) \ Range(rest) : IsComplete(o)'
    BY <1>1, <1>2, Zenon DEF CreatesInOrder, IsComplete, IsCreated, InstancesOf, NumInstances, Mapping
  <2>2. chase' # <<>>
    BY <1>2, Zenon
  <2>3. QED
    BY <1>1, <1>2, <1>7, <2>1, <2>2, Zenon DEF CreatesInOrder
<1>9. TypeOK' /\ KeysAreDistinct'
  BY <1>1, <1>2, Zenon DEF TypeOK, KeysAreDistinct
<1>10. NewOpsAreRight'
  <2>1. <<>> \in Seq(NewOpType) /\ newOps \in Seq(NewOpType) /\ newOps \o <<>> = newOps
    BY <1>1 DEF TypeOK
  <2>2. updated = 0
    BY <1>1, <1>2, Zenon DEF CreatesInOrder
  <2>3. newOps' = newOps \o <<>> /\ \A i \in DOMAIN <<>> : IsFresh(<<>>[i])
    BY <1>2, <2>1
  <2>4. QED
    BY <1>1, <1>2, <2>1, <2>2, <2>3, FreshOpsGrow, Zenon
<1>11. QED
  BY <1>2, <1>8, <1>9, <1>10, CreationFrame, Zenon DEF IInv

(* The chain of a copy ends at the instance whose dimensions it gets.       *)
LEMMA CreateCopyKeepsInv ==
  ASSUME IInv, CreateCopy
  PROVE  IInv'
<1>0. PICK op, c, d : op = Head(rest) /\ c = chase[1] /\ d = chase[2]
  BY Zenon
<1> DEFINE i == CopyOf(op, d)[2]
           new == CopyOp(op, c, i)
           t == <<new>>
<1>1. TypeOK /\ OpsAreVisited /\ CreatesInOrder /\ KeysAreDistinct /\ NewOpsAreRight
  BY Zenon DEF IInv
<1>2. /\ phase = "create" /\ rest # <<>> /\ chase # <<>>
      /\ CopyOf(op, d)[1] = "instance"
      /\ newOps' = Append(newOps, new) /\ NextCopy(op, c)
      /\ program' = program /\ phase' = phase /\ ops' = ops
      /\ erased' = erased /\ updated' = updated
  BY <1>0, Zenon DEF CreateCopy, Creates
<1>3. /\ IsChasing /\ op \in Ops /\ program \in Programs
      /\ op \in Range(rest) /\ op \in Range(ops)
  BY <1>0, <1>1, <1>2, HeadAndTail, Zenon DEF TypeOK, CreatesInOrder
<1>4. /\ c \in CopiesOf(op) /\ d \in CopiesOf(op) /\ IsOnChain(op, c, d)
      /\ c = d \/ CopyOf(op, c) # Null
      /\ IsCreated(op, c)
      /\ \A x \in CopiesOf(op) : <<op, Copy(x)>> \in Mapping => x < c
  BY <1>0, <1>3, Zenon DEF IsChasing
<1>5. i \in InstancesOf(op) /\ CopyOf(op, d) = Instance(i)
  <2>1. program.hasInstances[op]
    BY <1>1, <1>2, <1>3, Zenon DEF OpsAreVisited, IsVisited
  <2>2. QED
    BY <1>2, <1>3, <1>4, <2>1, CopyVerified, Zenon
<1>6. CopyOf(op, c) # Null /\ IsCopied(op, c, i)
  <2>1. CopyOf(op, d) # Null
    BY <1>2 DEF Null
  <2>2. QED
    BY <1>4, <1>5, <2>1, Zenon DEF IsCopied
<1> HIDE DEF i
<1>7. new \in NewOpType /\ c \in Nat /\ new.key = <<op, Copy(c)>>
  <2>1. new \in NewOpType /\ c \in Nat
    BY <1>3, <1>4, <1>5, CopyOpIs, Zenon
  <2>2. QED
    BY <2>1, Zenon DEF CopyOp
<1>8. IsFresh(new)
  BY <1>3, <1>4, <1>5, <1>6, Zenon DEF IsFresh
<1> HIDE DEF new
<1>9. newOps \in Seq(NewOpType) /\ updated = 0
  BY <1>1, <1>2, Zenon DEF TypeOK, CreatesInOrder
<1>10. newOps' = newOps \o t /\ t \in Seq(NewOpType) /\ DOMAIN t = {1} /\ t[1] = new
  BY <1>2, <1>7, <1>9
<1>11. Range(t) = {new}
  BY <1>10, Zenon DEF Range
<1> HIDE DEF t
<1>12. /\ Mapping' = Mapping \union {<<op, Copy(c)>>}
       /\ Range(newOps') = Range(newOps) \union {new}
  <2>1. /\ Mapping' = Mapping \union {n.key : n \in Range(t)}
        /\ Range(newOps') = Range(newOps) \union Range(t)
    BY <1>9, <1>10, MappingGrows, Zenon
  <2>2. QED
    BY <1>7, <1>11, <2>1
<1>13. <<op, Copy(c)>> \notin Mapping
  BY <1>4, <1>7
<1>14. KeysAreDistinct'
  <2>1. /\ \A x, y \in DOMAIN t : t[x].key = t[y].key => x = y
        /\ \A x \in DOMAIN t : t[x].key \notin Mapping
    BY <1>7, <1>10, <1>13, Zenon
  <2>2. QED
    BY <1>1, <1>9, <1>10, <2>1, DistinctKeysGrow, Zenon
<1>15. NewOpsAreRight'
  <2>1. \A x \in DOMAIN t : IsFresh(t[x])
    BY <1>8, <1>10, Zenon
  <2>2. QED
    BY <1>1, <1>2, <1>9, <1>10, <2>1, FreshOpsGrow, Zenon
<1>16. CreatesInOrder' /\ rest' \in Seq(Ops)
  <2>1. IsCreated(op, c + 1)'
    <3>1. IsCreated(op, c)'
      BY <1>2, <1>4, <1>12, CreatedStays, Zenon
    <3>2. \A x \in 0 .. (c + 1) - 1 : x \in 0 .. c - 1 \/ x = c
      BY <1>7
    <3>3. QED
      BY <1>12, <3>1, <3>2, Zenon DEF IsCreated
  <2>2. \A x \in CopiesOf(op) : <<op, Copy(x)>> \in Mapping' => x <= c
    <3> SUFFICES ASSUME NEW x \in CopiesOf(op), <<op, Copy(x)>> \in Mapping'
                 PROVE  x <= c
      BY Zenon
    <3>1. x \in Int /\ c \in Int
      BY <1>7 DEF CopiesOf
    <3>2. CASE <<op, Copy(x)>> \in Mapping
      BY <1>4, <3>1, <3>2
    <3>3. CASE <<op, Copy(x)>> = <<op, Copy(c)>>
      BY <3>1, <3>3 DEF Copy
    <3>4. QED
      BY <1>12, <3>2, <3>3, Zenon
  <2>3. \A n \in Range(newOps') : n.key[1] \in Range(rest) => n.key[1] = op
    BY <1>0, <1>1, <1>2, <1>7, <1>12 DEF CreatesInOrder
  <2>4. c \in Int /\ -1 <= c /\ c < Len(program.copies[op])
    BY <1>3, <1>4, <1>7, LengthsTyped DEF CopiesOf
  <2>5. Mapping \subseteq Mapping'
    BY <1>12, Zenon
  <2>6. QED
    BY <1>0, <1>1, <1>2, <2>1, <2>2, <2>3, <2>4, <2>5, NextCopyInOrder, Zenon
<1>17. TypeOK'
  <2>1. newOps' \in Seq(NewOpType) /\ updated' \in 0 .. Len(newOps')
    BY <1>2, <1>7, <1>9
  <2>2. QED
    BY <1>1, <1>2, <1>16, <2>1, Zenon DEF TypeOK
<1>18. QED
  BY <1>2, <1>14, <1>15, <1>16, <1>17, CreationFrame, Zenon DEF IInv

(* After the first stage every designated value is in the mapping.          *)
LEMMA EndCreateKeepsInv ==
  ASSUME IInv, EndCreate
  PROVE  IInv'
<1>1. TypeOK /\ OpsAreVisited /\ ErasedAreUnused /\ CreatesInOrder
      /\ KeysAreDistinct /\ NewOpsAreRight
  BY Zenon DEF IInv
<1>2. /\ phase = "create" /\ rest = <<>> /\ phase' = "update"
      /\ program' = program /\ rest' = rest /\ ops' = ops /\ erased' = erased
      /\ chase' = chase /\ newOps' = newOps /\ updated' = updated
  BY Zenon DEF EndCreate
<1>3. \A op \in Range(ops) : IsComplete(op)
  BY <1>1, <1>2 DEF CreatesInOrder, Range
<1>4. Mapping \subseteq Mapping'
  BY <1>2, Zenon DEF Mapping
<1>5. AllAreCreated'
  BY <1>2, <1>3, <1>4, CreatedStays, Zenon DEF AllAreCreated, IsComplete
<1>6. TypeOK' /\ ChecksInOrder' /\ CreatesInOrder' /\ KeysAreDistinct'
  BY <1>1, <1>2, Zenon DEF TypeOK, ChecksInOrder, CreatesInOrder, KeysAreDistinct
<1>7. OpsAreVisited' /\ ErasedAreUnused'
  BY <1>1, <1>2, Zenon DEF OpsAreVisited, ErasedAreUnused, IsVisited, NumInstances, Users
<1>8. NewOpsAreRight'
  <2>1. <<>> \in Seq(NewOpType) /\ newOps \in Seq(NewOpType) /\ newOps \o <<>> = newOps
    BY <1>1 DEF TypeOK
  <2>2. updated = 0
    BY <1>1, <1>2, Zenon DEF CreatesInOrder
  <2>3. newOps' = newOps \o <<>> /\ \A i \in DOMAIN <<>> : IsFresh(<<>>[i])
    BY <1>2, <2>1
  <2>4. QED
    BY <1>1, <1>2, <2>1, <2>2, <2>3, FreshOpsGrow, Zenon
<1>9. QED
  BY <1>5, <1>6, <1>7, <1>8, Zenon DEF IInv
-----------------------------------------------------------------------------
(* The second stage.  An attribute that the verifier accepts designates a   *)
(* clone or a copy that was created.                                        *)
LEMMA DesignatedIsFound ==
  ASSUME TypeOK, OpsAreVisited, AllAreCreated, phase = "update",
         NEW v \in Ops, program.instances[v] # <<>>,
         NEW attr \in Attributes, attr # Unit, Designates(program, v, attr)
  PROVE  <<v, attr>> \in Mapping
<1>1. program \in Programs /\ v # External
  BY ProgramsAssumption, Zenon DEF TypeOK
<1>2. NumInstances(v) \in Nat /\ NumInstances(v) # 0 /\ Len(program.copies[v]) \in Nat
  BY <1>1, LengthsTyped, Zenon
<1>3. program.hasInstances[v] /\ v \in Range(ops)
  BY <1>2, Zenon DEF OpsAreVisited, IsVisited
<1>4. IsComplete(v)
  BY <1>3, Zenon DEF AllAreCreated
<1>5. attr = <<attr[1], attr[2]>> /\ attr[1] \in {"instance", "copy"} /\ attr[2] \in Nat
  BY DEF Attributes
<1>6. CASE attr[1] = "instance"
  <2>1. attr[2] < NumInstances(v)
    BY <1>1, <1>3, <1>6, Zenon DEF Designates, NumInstances
  <2>2. attr[2] \in InstancesOf(v) /\ attr = Instance(attr[2])
    BY <1>2, <1>5, <1>6, <2>1 DEF InstancesOf, Instance
  <2>3. QED
    BY <1>4, <2>2, Zenon DEF IsComplete, IsCreated
<1>7. CASE attr[1] = "copy"
  <2>1. attr[2] < Len(program.copies[v])
    BY <1>7, Zenon DEF Designates
  <2>2. attr[2] \in 0 .. Len(program.copies[v]) - 1 /\ attr = Copy(attr[2])
    BY <1>2, <1>5, <1>7, <2>1 DEF Copy
  <2>3. QED
    BY <1>4, <2>2, Zenon DEF IsComplete, IsCreated
<1>8. QED
  BY <1>5, <1>6, <1>7, Zenon

(* An operation that has instances reads operations that have instances.    *)
LEMMA OperandsHaveInstances ==
  ASSUME TypeOK, OpsAreVisited, EmptyOpsAreUnused(program),
         NEW op \in Range(ops), NEW k \in DOMAIN program.operands[op],
         program.operands[op][k] \in Ops
  PROVE  program.instances[program.operands[op][k]] # <<>>
<1>1. op \in Ops /\ program \in Programs
  BY DEF TypeOK, Range
<1>2. program.instances[op] # <<>>
  BY <1>1, LengthsTyped, Zenon DEF OpsAreVisited
<1>3. program.operands[op][k] \in Range(program.operands[op])
  BY Zenon DEF Range
<1>4. QED
  BY <1>1, <1>2, <1>3, Zenon DEF EmptyOpsAreUnused

(* The kept operations are operations of the program.                       *)
LEMMA OpsTyped ==
  ASSUME TypeOK, NEW op \in Range(ops)
  PROVE  op \in Ops /\ program \in Programs
BY DEF TypeOK, Range

(* The operands of a new operation with complete decisions.                 *)
LEMMA FreshOpIs ==
  ASSUME TypeOK, OpsAreVisited, AllAreCreated, phase = "update", EmptyOpsAreUnused(program),
         NEW n, IsFresh(n), ~ IsIncomplete(n)
  PROVE  /\ n \in NewOpType /\ DOMAIN n.attrs = DOMAIN n.uses
         /\ \A k \in DOMAIN n.uses :
              /\ n.uses[k] \in Ops \union {External}
              /\ n.uses[k] \in Ops => <<n.uses[k], n.attrs[k]>> \in Mapping
<1>0. PICK op \in Range(ops) : \E i \in InstancesOf(op) :
        \/ n = Clone(op, i)
        \/ \E c \in CopiesOf(op) :
             n = CopyOp(op, c, i) /\ IsCopied(op, c, i) /\ CopyOf(op, c) # Null
  BY Zenon DEF IsFresh
<1>1. PICK i \in InstancesOf(op) :
        \/ n = Clone(op, i)
        \/ \E c \in CopiesOf(op) :
             n = CopyOp(op, c, i) /\ IsCopied(op, c, i) /\ CopyOf(op, c) # Null
  BY <1>0, Zenon
<1>2. op \in Ops /\ program \in Programs
  BY OpsTyped, Zenon
<1> DEFINE values == program.operands[op]
           attrs == Decisions(op, i).operands
           r == program.rank[op]
<1>3. /\ values \in Seq(Ops \union {External}) /\ DOMAIN values = 1 .. Len(values)
      /\ Len(values) \in Nat /\ r \in Nat /\ r <= Len(values)
  BY <1>2, LengthsTyped
<1>4. \A k \in 1 .. Len(values) : values[k] \in Ops \union {External}
  BY <1>3, ElementOfSeq, Zenon
<1>5. \A k \in 1 .. Len(values) : values[k] \in Ops => program.instances[values[k]] # <<>>
  BY <1>3, OperandsHaveInstances, Zenon
<1>6. Unit \notin Range(n.attrs) /\ n.specified
  BY Zenon DEF IsIncomplete
<1>7. CASE n = Clone(op, i)
  <2>1. n.uses = values /\ n.attrs = attrs /\ Decisions(op, i).specified
    BY <1>6, <1>7, Zenon DEF Clone
  <2>2. n \in NewOpType
    BY <1>2, <1>7, CloneTyped, Zenon
  <2>3. /\ Len(attrs) = Len(values) /\ attrs \in Seq(Attributes)
        /\ \A k \in 1 .. Len(values) : attrs[k] \in Attributes /\ Designates(program, values[k], attrs[k])
    BY <1>2, <2>1, DecisionsVerified, DecisionsTyped, Zenon
  <2>4. DOMAIN attrs = 1 .. Len(values)
    BY <2>3, LenProperties, Zenon
  <2>5. ASSUME NEW k \in 1 .. Len(values), values[k] \in Ops
        PROVE  <<values[k], attrs[k]>> \in Mapping
    <3>1. attrs[k] # Unit
      BY <1>6, <2>1, <2>4, Zenon DEF Range
    <3>2. QED
      BY <1>5, <2>3, <2>5, <3>1, DesignatedIsFound, Zenon
  <2>6. QED
    BY <1>3, <1>4, <2>1, <2>2, <2>4, <2>5, Zenon
<1>8. CASE \E c \in CopiesOf(op) :
             n = CopyOp(op, c, i) /\ IsCopied(op, c, i) /\ CopyOf(op, c) # Null
  <2>1. PICK c \in CopiesOf(op) : n = CopyOp(op, c, i) /\ CopyOf(op, c) # Null
    BY <1>8, Zenon
  <2>2. /\ n \in NewOpType /\ DOMAIN n.uses = 1 .. r + 1
        /\ \A k \in 1 .. r : n.uses[k] = values[k] /\ n.attrs[k] = Dims(op, i)[k]
        /\ n.uses[r + 1] = op /\ n.attrs[r + 1] = CopyOf(op, c)
    BY <1>2, <2>1, CopyOpIs
  <2>3. DOMAIN n.attrs = 1 .. r + 1
    <3>1. n.attrs = Append(Dims(op, i), CopyOf(op, c))
      BY <2>1, Zenon DEF CopyOp
    <3>2. Dims(op, i) \in Seq(Attributes \union {Null}) /\ Len(Dims(op, i)) = r
      BY <1>2, DimsAre, SeqMonotonic, Zenon
    <3>3. CopyOf(op, c) \in Attributes \union {Null}
      BY <1>2, DecisionsTyped, Zenon
    <3>4. QED
      BY <3>1, <3>2, <3>3
  <2>4. ASSUME NEW k \in 1 .. r
        PROVE  /\ n.uses[k] \in Ops \union {External}
               /\ n.uses[k] \in Ops => <<n.uses[k], n.attrs[k]>> \in Mapping
    <3>1. k \in 1 .. Len(values) /\ k \in 1 .. r + 1
      BY <1>3
    <3>2. n.uses[k] = values[k] /\ n.attrs[k] # Unit
      BY <1>6, <2>2, <2>3, <3>1, Zenon DEF Range
    <3>3. ASSUME values[k] \in Ops
          PROVE  <<values[k], n.attrs[k]>> \in Mapping
      <4>1. program.instances[values[k]] # <<>>
        BY <1>5, <3>1, <3>3, Zenon
      <4>2. n.attrs[k] \in Attributes /\ Designates(program, values[k], n.attrs[k])
        <5>1. CASE Decisions(op, i).specified
          <6>1. n.attrs[k] = attrs[k]
            BY <1>2, <2>2, <5>1, DimsAre
          <6>2. QED
            BY <1>2, <3>1, <5>1, <6>1, DecisionsVerified, Zenon
        <5>2. CASE ~ Decisions(op, i).specified
          <6>1. n.attrs[k] = Instance(0)
            BY <1>2, <2>2, <5>2, DimsAre, Zenon
          <6>2. NumInstances(values[k]) \in Nat /\ NumInstances(values[k]) # 0
            BY <1>2, <3>3, <4>1, LengthsTyped, Zenon
          <6>3. 0 < Len(program.instances[values[k]])
            BY <6>2 DEF NumInstances
          <6>4. QED
            BY <6>1, <6>3, AttributesAre DEF Designates, Instance
        <5>3. QED
          BY <5>1, <5>2, Zenon
      <4>3. QED
        BY <3>2, <3>3, <4>1, <4>2, DesignatedIsFound, Zenon
    <3>4. QED
      BY <1>4, <3>1, <3>2, <3>3, Zenon
  <2>5. <<op, CopyOf(op, c)>> \in Mapping
    <3>1. CopyOf(op, c) # Unit
      BY <1>3, <1>6, <2>2, <2>3 DEF Range
    <3>2. CopyOf(op, c) \in Attributes
      BY <1>2, <2>1, DecisionsTyped, Zenon
    <3>3. Designates(program, op, CopyOf(op, c))
      <4>1. c + 1 \in DOMAIN program.copies[op]
        BY <1>2, DecisionsTyped, LengthsTyped, Zenon
      <4>2. QED
        BY <1>2, <4>1, ProgramIsVerified, Zenon DEF IsVerified, VerifyValueProducerOp, CopyOf
    <3>4. program.instances[op] # <<>>
      BY <1>2, LengthsTyped, Zenon DEF OpsAreVisited
    <3>5. QED
      BY <1>2, <3>1, <3>2, <3>3, <3>4, DesignatedIsFound, Zenon
  <2>6. \A k \in 1 .. r + 1 : k \in 1 .. r \/ k = r + 1
    BY <1>3
  <2>7. QED
    BY <1>2, <2>2, <2>3, <2>4, <2>5, <2>6, Zenon
<1>9. QED
  BY <1>1, <1>7, <1>8, Zenon

(* An operand that Sair operations produce is replaced, no other one is.    *)
LEMMA UpdateOpKeepsInv ==
  ASSUME IInv, EmptyOpsAreUnused(program), UpdateOp
  PROVE  IInv'
<1>0. PICK n, u, at : n = Current /\ u = Replacements(n) /\ at = updated + 1
  BY Zenon
<1>1. /\ TypeOK /\ OpsAreVisited /\ ErasedAreUnused /\ AllAreCreated
      /\ KeysAreDistinct /\ NewOpsAreRight
  BY Zenon DEF IInv
<1>2. /\ phase = "update" /\ updated < Len(newOps) /\ ~ IsIncomplete(n)
      /\ program' = program /\ phase' = phase /\ rest' = rest /\ ops' = ops
      /\ erased' = erased /\ chase' = chase /\ updated' = at
  BY <1>0, Zenon DEF UpdateOp, Updates
<1>3. /\ newOps \in Seq(NewOpType) /\ updated \in Nat /\ Len(newOps) \in Nat
      /\ at \in 1 .. Len(newOps) /\ at = updated + 1 /\ DOMAIN newOps = 1 .. Len(newOps)
  BY <1>0, <1>1, <1>2, LenProperties DEF TypeOK
<1>4. n = newOps[at] /\ IsFresh(n)
  <2>1. n = newOps[at]
    BY <1>0, Zenon DEF Current
  <2>2. at > updated /\ at \in DOMAIN newOps
    BY <1>3
  <2>3. QED
    BY <1>1, <2>1, <2>2, Zenon DEF NewOpsAreRight
<1>5. /\ n \in NewOpType /\ DOMAIN n.attrs = DOMAIN n.uses
      /\ \A k \in DOMAIN n.uses :
           /\ n.uses[k] \in Ops \union {External}
           /\ n.uses[k] \in Ops => <<n.uses[k], n.attrs[k]>> \in Mapping
  BY <1>1, <1>2, <1>4, FreshOpIs, Zenon
<1>6. Mapping \subseteq Keys
  <2>1. \A j \in DOMAIN newOps : newOps[j] \in NewOpType
    BY <1>3, ElementOfSeq, Zenon
  <2>2. \A j \in DOMAIN newOps : newOps[j].key \in Keys
    BY <2>1, Zenon DEF NewOpType
  <2>3. QED
    BY <2>2, Zenon DEF Mapping, Range
<1>7. ASSUME NEW k \in DOMAIN n.uses
      PROVE  u[k] = Redirection(n, k) /\ (u[k] = n.uses[k] <=> n.uses[k] \notin Ops)
  <2>1. u[k] = IF <<n.uses[k], n.attrs[k]>> \in Mapping
               THEN <<n.uses[k], n.attrs[k]>> ELSE n.uses[k]
    BY <1>0, Zenon DEF Replacements
  <2>2. CASE n.uses[k] \in Ops
    <3>1. <<n.uses[k], n.attrs[k]>> \in Mapping
      BY <1>5, <2>2, Zenon
    <3>2. <<n.uses[k], n.attrs[k]>> \in Ops \X Attributes
      BY <1>6, <3>1, Zenon DEF Keys
    <3>3. <<n.uses[k], n.attrs[k]>> \notin Ops
      BY <3>2, ProgramsAssumption, Zenon
    <3>4. QED
      BY <2>1, <2>2, <3>1, <3>3, Zenon DEF Redirection
  <2>3. CASE n.uses[k] \notin Ops
    <3>1. <<n.uses[k], n.attrs[k]>> \notin Mapping
      BY <1>6, <2>3, Zenon DEF Keys
    <3>2. QED
      BY <2>1, <2>3, <3>1, Zenon DEF Redirection
  <2>4. QED
    BY <2>2, <2>3, Zenon
<1>8. DOMAIN u = DOMAIN n.uses
  BY <1>0, Zenon DEF Replacements
<1> DEFINE attrs == [k \in DOMAIN u |-> IF u[k] = n.uses[k] THEN n.attrs[k] ELSE Instance(0)]
<1>9. PICK new : new = [key |-> n.key, uses |-> u, specified |-> n.specified, attrs |-> attrs]
  BY Zenon
<1>10. newOps' = [newOps EXCEPT ![at] = new]
  <2>1. new = WithUses(n, u)
    BY <1>9, Zenon DEF WithUses
  <2>2. QED
    BY <1>0, <2>1, Zenon DEF UpdateOp
<1>11. new \in NewOpType
  <2>1. /\ n.key \in Keys /\ n.specified \in BOOLEAN
        /\ n.uses \in Seq(Ops \union {External} \union Keys)
        /\ n.attrs \in Seq(Attributes \union {Null})
    BY <1>5, Zenon DEF NewOpType
  <2>2. PICK m \in Nat : DOMAIN n.uses = 1 .. m
    BY <2>1, LenProperties, Zenon
  <2>3. \A k \in 1 .. m : u[k] \in Ops \union {External} \union Keys
    BY <1>5, <1>6, <1>7, <2>2, Zenon DEF Redirection
  <2>4. u = [k \in 1 .. m |-> u[k]]
    BY <1>0, <2>2, Zenon DEF Replacements
  <2>5. u \in Seq(Ops \union {External} \union Keys)
    BY <2>3, <2>4
  <2>6. \A k \in 1 .. m : n.attrs[k] \in Attributes \union {Null}
    <3>1. DOMAIN n.attrs = 1 .. Len(n.attrs) /\ \A k \in 1 .. Len(n.attrs) :
            n.attrs[k] \in Attributes \union {Null}
      BY <2>1, LenProperties, ElementOfSeq, Zenon
    <3>2. QED
      BY <1>5, <2>2, <3>1, Zenon
  <2>7. attrs = [k \in 1 .. m |-> attrs[k]] /\ \A k \in 1 .. m : attrs[k] \in Attributes \union {Null}
    BY <1>8, <2>2, <2>6, AttributesAre, Zenon
  <2>8. attrs \in Seq(Attributes \union {Null})
    <3> HIDE DEF attrs
    <3> QED
      BY <2>7
  <2>9. QED
    <3> HIDE DEF attrs
    <3> QED
      BY <1>9, <2>1, <2>5, <2>8, Zenon DEF NewOpType
<1>12. /\ newOps' \in Seq(NewOpType) /\ Len(newOps') = Len(newOps)
       /\ DOMAIN newOps' = DOMAIN newOps
       /\ \A j \in DOMAIN newOps : newOps'[j] = IF j = at THEN new ELSE newOps[j]
  BY <1>3, <1>10, <1>11
<1>13. new.key = n.key /\ new.uses = u /\ new.attrs = attrs
  BY <1>9, Zenon
<1> HIDE DEF attrs
<1>14. \A j \in DOMAIN newOps : newOps'[j].key = newOps[j].key
  BY <1>4, <1>12, <1>13, Zenon
<1>15. Mapping' = Mapping
  <2>1. Mapping = {newOps[j].key : j \in DOMAIN newOps}
    BY Zenon DEF Mapping, Range
  <2>2. Mapping' = {newOps'[j].key : j \in DOMAIN newOps'}
    BY Zenon DEF Mapping, Range
  <2>3. QED
    BY <1>12, <1>14, <2>1, <2>2, Zenon
<1>16. TypeOK' /\ KeysAreDistinct' /\ ChecksInOrder' /\ CreatesInOrder'
  <2>1. TypeOK'
    BY <1>1, <1>2, <1>3, <1>12 DEF TypeOK
  <2>2. KeysAreDistinct'
    BY <1>1, <1>12, <1>14, Zenon DEF KeysAreDistinct
  <2>3. QED
    BY <1>2, <2>1, <2>2, Zenon DEF ChecksInOrder, CreatesInOrder
<1>17. OpsAreVisited' /\ ErasedAreUnused'
  BY <1>1, <1>2, Zenon DEF OpsAreVisited, ErasedAreUnused, IsVisited, NumInstances, Users
<1>18. AllAreCreated'
  BY <1>1, <1>2, <1>15, CreatedStays, Zenon DEF AllAreCreated, IsComplete
<1>19. IsRedirected(new, n)'
  <2>1. IsFresh(n)'
    BY <1>2, <1>4, SameFreshOps, Zenon
  <2>2. ASSUME NEW k \in DOMAIN n.uses, n.uses[k] \in Ops
        PROVE  new.uses[k] \in Mapping /\ new.attrs[k] = Instance(0)
    <3>1. u[k] = <<n.uses[k], n.attrs[k]>> /\ u[k] # n.uses[k]
      BY <1>7, <2>2, Zenon DEF Redirection
    <3>2. QED
      BY <1>5, <1>8, <1>13, <2>2, <3>1, Zenon DEF attrs
  <2>3. /\ DOMAIN new.uses = DOMAIN n.uses
        /\ \A k \in DOMAIN n.uses : new.uses[k] = Redirection(n, k)
    BY <1>7, <1>8, <1>13, Zenon
  <2>4. ~ IsIncomplete(n)' /\ new.key = n.key
    BY <1>2, <1>13, Zenon DEF IsIncomplete
  <2>5. QED
    BY <1>15, <2>1, <2>2, <2>3, <2>4, Zenon DEF IsRedirected, IsIncomplete, Redirection
<1>20. NewOpsAreRight'
  <2> SUFFICES ASSUME NEW j \in DOMAIN newOps
               PROVE  IF j > updated' THEN IsFresh(newOps[j])'
                      ELSE \E old \in NewOpType : IsRedirected(newOps[j], old)'
    BY <1>12, Zenon DEF NewOpsAreRight
  <2>1. PICK x : x = newOps'[j]
    BY Zenon
  <2>2. CASE j > at
    <3>1. j > updated /\ j # at
      BY <1>3, <2>2
    <3>2. IsFresh(newOps[j]) /\ x = newOps[j]
      BY <1>1, <1>12, <2>1, <3>1, Zenon DEF NewOpsAreRight
    <3>3. IsFresh(x)'
      BY <1>2, <3>2, SameFreshOps, Zenon
    <3>4. IsFresh(newOps[j])'
      BY <2>1, <3>3, Zenon DEF IsFresh
    <3>5. QED
      BY <1>2, <2>2, <3>4, Zenon
  <2>3. CASE j = at
    <3>1. x = new
      BY <1>12, <2>1, <2>3, Zenon
    <3>2. IsRedirected(newOps[j], n)'
      BY <1>19, <2>1, <3>1, Zenon DEF IsRedirected
    <3>3. ~ (j > updated')
      BY <1>2, <1>3, <2>3
    <3>4. QED
      BY <1>5, <3>2, <3>3, Zenon
  <2>4. CASE j < at
    <3>1. ~ (j > updated) /\ ~ (j > updated') /\ j # at
      BY <1>2, <1>3, <2>4
    <3>2. x = newOps[j]
      BY <1>12, <2>1, <3>1, Zenon
    <3>3. PICK old \in NewOpType : IsRedirected(x, old)
      BY <1>1, <3>1, <3>2, Zenon DEF NewOpsAreRight
    <3>4. IsRedirected(x, old)'
      BY <1>2, <1>15, <3>3, RedirectedStays, Zenon
    <3>5. IsRedirected(newOps[j], old)'
      BY <2>1, <3>4, Zenon DEF IsRedirected
    <3>6. QED
      BY <3>1, <3>5, Zenon
  <2>5. j > at \/ j = at \/ j < at
    BY <1>3
  <2>6. QED
    BY <2>2, <2>3, <2>4, <2>5, Zenon
<1>21. QED
  BY <1>16, <1>17, <1>18, <1>20, Zenon DEF IInv

(* At the end nothing is left of the program but an exit that reads nothing. *)
LEMMA EraseOriginalsKeepsInv ==
  ASSUME IInv, EmptyOpsAreUnused(program), EraseOriginals
  PROVE  IInv'
<1>1. /\ TypeOK /\ OpsAreVisited /\ ErasedAreUnused /\ AllAreCreated
      /\ KeysAreDistinct /\ NewOpsAreRight
  BY Zenon DEF IInv
<1>2. /\ phase = "update" /\ updated = Len(newOps) /\ phase' = "done"
      /\ erased' = erased \union Range(ops)
      /\ program' = program /\ rest' = rest /\ ops' = ops /\ chase' = chase
      /\ newOps' = newOps /\ updated' = updated
  BY Zenon DEF EraseOriginals
<1>3. Range(ops) \subseteq Ops
  BY <1>1, OpsTyped, Zenon
<1>4. TypeOK' /\ ChecksInOrder' /\ CreatesInOrder' /\ KeysAreDistinct'
  BY <1>1, <1>2, <1>3, Zenon DEF TypeOK, ChecksInOrder, CreatesInOrder, KeysAreDistinct
<1>5. OpsAreVisited'
  BY <1>1, <1>2, Zenon DEF OpsAreVisited, IsVisited, NumInstances
<1>6. Mapping \subseteq Mapping'
  BY <1>2, Zenon DEF Mapping
<1>7. AllAreCreated'
  BY <1>1, <1>2, <1>6, CreatedStays, Zenon DEF AllAreCreated, IsComplete
<1>8. ErasedAreUnused'
  <2>1. ASSUME NEW o, NEW u \in Users(o)'
        PROVE  FALSE
    <3>1. u \in Ops /\ u \notin erased /\ u \notin Range(ops) /\ o \in Range(program.operands[u])
      BY <1>2, <2>1, Zenon DEF Users
    <3>2. u = Exit /\ NumInstances(u) = 0
      BY <1>1, <1>2, <3>1, Zenon DEF OpsAreVisited, IsVisited
    <3>3. program.instances[u] = <<>>
      BY <1>1, <3>1, <3>2, LengthsTyped, Zenon DEF TypeOK
    <3>4. program.operands[u] = <<>>
      BY <3>2, <3>3, Zenon DEF EmptyOpsAreUnused
    <3>5. QED
      BY <3>1, <3>4 DEF Range
  <2>2. QED
    BY <2>1, Zenon DEF ErasedAreUnused
<1>9. NewOpsAreRight'
  <2> SUFFICES ASSUME NEW j \in DOMAIN newOps
               PROVE  IF j > updated THEN IsFresh(newOps[j])'
                      ELSE \E old \in NewOpType : IsRedirected(newOps[j], old)'
    BY <1>2, Zenon DEF NewOpsAreRight
  <2>1. ~ (j > updated)
    BY <1>1, <1>2, LenProperties DEF TypeOK
  <2>2. PICK x : x = newOps[j]
    BY Zenon
  <2>3. PICK old \in NewOpType : IsRedirected(x, old)
    BY <1>1, <2>1, <2>2, Zenon DEF NewOpsAreRight
  <2>4. IsRedirected(x, old)'
    BY <1>2, <1>6, <2>3, RedirectedStays, Zenon
  <2>5. IsRedirected(newOps[j], old)'
    BY <1>2, <2>2, <2>4, Zenon DEF IsRedirected
  <2>6. QED
    BY <2>1, <2>5, Zenon
<1>10. QED
  BY <1>4, <1>5, <1>7, <1>8, <1>9, Zenon DEF IInv

(* Every step keeps the invariant.                                          *)
LEMMA NextKeepsInv ==
  ASSUME \A p \in Programs : EmptyOpsAreUnused(p), IInv, [Next]_vars
  PROVE  IInv'
<1>1. EmptyOpsAreUnused(program)
  BY Zenon DEF IInv, TypeOK
<1>2. CASE RejectOp \/ RejectCopy \/ RejectUpdate
  BY <1>2, FailureKeepsInv, Zenon DEF RejectOp, RejectCopy, RejectUpdate
<1>3. CASE VisitOp
  BY <1>1, <1>3, VisitOpKeepsInv, Zenon
<1>4. CASE EndCheck
  BY <1>4, EndCheckKeepsInv, Zenon
<1>5. CASE CreateClones
  BY <1>5, CreateClonesKeepsInv, Zenon
<1>6. CASE FollowCopy
  BY <1>6, FollowCopyKeepsInv, Zenon
<1>7. CASE CreateCopy
  BY <1>7, CreateCopyKeepsInv, Zenon
<1>8. CASE EndCreate
  BY <1>8, EndCreateKeepsInv, Zenon
<1>9. CASE UpdateOp
  BY <1>1, <1>9, UpdateOpKeepsInv, Zenon
<1>10. CASE EraseOriginals
  BY <1>1, <1>10, EraseOriginalsKeepsInv, Zenon
<1>11. CASE UNCHANGED vars
  <2>1. UNCHANGED <<program, phase, rest, ops, erased, chase, newOps, updated>>
    BY <1>11, Zenon DEF vars
  <2>2. TypeOK' /\ KeysAreDistinct'
    BY <2>1, Zenon DEF IInv, TypeOK, KeysAreDistinct
  <2>3. ChecksInOrder' /\ OpsAreVisited' /\ ErasedAreUnused'
    BY <2>1, Zenon DEF IInv, ChecksInOrder, OpsAreVisited, ErasedAreUnused, IsVisited, NumInstances, Users
  <2>4. Mapping' = Mapping
    BY <2>1, Zenon DEF Mapping
  <2>5. \A op, c : IsCreated(op, c)' <=> IsCreated(op, c)
    BY <2>1, <2>4, Zenon DEF IsCreated, InstancesOf, NumInstances
  <2>6. \A op : IsComplete(op)' <=> IsComplete(op)
    BY <2>1, <2>5, Zenon DEF IsComplete
  <2>7. IsChasing' <=> IsChasing
    <3>1. IsOnChain(Head(rest), chase[1], chase[2])' <=> IsOnChain(Head(rest), chase[1], chase[2])
      BY <2>1, Zenon DEF IsOnChain, CopiesOf, HoldsCopied, CopyOf
    <3>2. IsCreated(Head(rest), chase[1])' <=> IsCreated(Head(rest), chase[1])
      BY <2>1, <2>4, Zenon DEF IsCreated, InstancesOf, NumInstances
    <3>3. CopyOf(Head(rest), chase[1])' = CopyOf(Head(rest), chase[1])
      BY <2>1, Zenon DEF CopyOf
    <3>4. CopiesOf(Head(rest))' = CopiesOf(Head(rest))
      BY <2>1, Zenon DEF CopiesOf
    <3>5. QED
      BY <2>1, <2>4, <3>1, <3>2, <3>3, <3>4, Zenon DEF IsChasing
  <2>8. CreatesInOrder' /\ AllAreCreated'
    BY <2>1, <2>6, <2>7, Zenon DEF IInv, CreatesInOrder, AllAreCreated
  <2>9. NewOpsAreRight'
    <3> SUFFICES ASSUME NEW j \in DOMAIN newOps
                 PROVE  IF j > updated THEN IsFresh(newOps[j])'
                        ELSE \E old \in NewOpType : IsRedirected(newOps[j], old)'
      BY <2>1, Zenon DEF NewOpsAreRight
    <3>1. PICK x : x = newOps[j]
      BY Zenon
    <3>2. IF j > updated THEN IsFresh(x) ELSE \E old \in NewOpType : IsRedirected(x, old)
      BY <3>1, Zenon DEF IInv, NewOpsAreRight
    <3>3. IF j > updated THEN IsFresh(x)' ELSE \E old \in NewOpType : IsRedirected(x, old)'
      BY <2>1, <2>4, <3>2, SameFreshOps, RedirectedStays, Zenon
    <3>4. QED
      BY <2>1, <3>1, <3>3, Zenon DEF IsFresh, IsRedirected
  <2>10. QED
    BY <2>2, <2>3, <2>8, <2>9, Zenon DEF IInv
<1>12. QED
  BY <1>2, <1>3, <1>4, <1>5, <1>6, <1>7, <1>8, <1>9, <1>10, <1>11, Zenon DEF Next
-----------------------------------------------------------------------------
(* What the invariant says of the result.                                   *)

(* No operation has two results, so a key finds the one that was made.      *)
LEMMA KeyFinds ==
  ASSUME KeysAreDistinct, NEW n \in Range(newOps)
  PROVE  NewOp(n.key) = n
<1>1. \A m \in Range(newOps) : m.key = n.key => m = n
  BY Zenon DEF KeysAreDistinct, Range
<1>2. QED
  BY <1>1, Zenon DEF NewOp

(* A clone in the result was made from the instance that its key names.     *)
LEMMA CloneInResult ==
  ASSUME IInv, phase = "done", NEW op \in Range(ops), NEW i \in InstancesOf(op)
  PROVE  LET n == NewOp(<<op, Instance(i)>>)
         IN  /\ n \in Range(newOps) /\ n.key = <<op, Instance(i)>>
             /\ IsRedirected(n, Clone(op, i))
<1>1. TypeOK /\ AllAreCreated /\ KeysAreDistinct /\ NewOpsAreRight
  BY Zenon DEF IInv
<1>2. <<op, Instance(i)>> \in Mapping
  BY <1>1, Zenon DEF AllAreCreated, IsComplete, IsCreated
<1>3. PICK j \in DOMAIN newOps : newOps[j].key = <<op, Instance(i)>>
  BY <1>2, Zenon DEF Mapping, Range
<1>4. PICK n : n = newOps[j]
  BY Zenon
<1>5. n \in Range(newOps) /\ NewOp(<<op, Instance(i)>>) = n
  BY <1>1, <1>3, <1>4, KeyFinds, Zenon DEF Range
<1>6. ~ (j > updated)
  BY <1>1, LenProperties DEF TypeOK, AllAreCreated
<1>7. PICK old \in NewOpType : IsRedirected(n, old)
  BY <1>1, <1>4, <1>6, Zenon DEF NewOpsAreRight
<1>8. IsFresh(old) /\ old.key = <<op, Instance(i)>>
  BY <1>3, <1>4, <1>7, Zenon DEF IsRedirected
<1>9. old = Clone(op, i)
  BY <1>8 DEF IsFresh, Clone, CopyOp, Instance, Copy
<1>10. QED
  BY <1>3, <1>4, <1>5, <1>7, <1>9, Zenon

(* A copy in the result was made from an instance at the end of its chain.  *)
LEMMA CopyInResult ==
  ASSUME IInv, phase = "done", NEW n \in Range(newOps), n.key[2][1] = "copy"
  PROVE  \E op \in Range(ops) : \E i \in InstancesOf(op) : \E c \in CopiesOf(op) :
           /\ n.key = <<op, Copy(c)>> /\ IsCopied(op, c, i)
           /\ IsRedirected(n, CopyOp(op, c, i))
<1>1. TypeOK /\ AllAreCreated /\ NewOpsAreRight
  BY Zenon DEF IInv
<1>2. PICK j \in DOMAIN newOps : n = newOps[j]
  BY Zenon DEF Range
<1>3. ~ (j > updated)
  BY <1>1, LenProperties DEF TypeOK, AllAreCreated
<1>4. PICK old \in NewOpType : IsRedirected(n, old)
  BY <1>1, <1>2, <1>3, Zenon DEF NewOpsAreRight
<1>5. IsFresh(old) /\ old.key = n.key
  BY <1>4, Zenon DEF IsRedirected
<1>6. PICK op \in Range(ops) : \E i \in InstancesOf(op) :
        \/ old = Clone(op, i)
        \/ \E c \in CopiesOf(op) :
             old = CopyOp(op, c, i) /\ IsCopied(op, c, i) /\ CopyOf(op, c) # Null
  BY <1>5, Zenon DEF IsFresh
<1>7. PICK i \in InstancesOf(op) :
        \/ old = Clone(op, i)
        \/ \E c \in CopiesOf(op) :
             old = CopyOp(op, c, i) /\ IsCopied(op, c, i) /\ CopyOf(op, c) # Null
  BY <1>6, Zenon
<1>8. old # Clone(op, i)
  BY <1>5 DEF Clone, Instance
<1>9. PICK c \in CopiesOf(op) : old = CopyOp(op, c, i) /\ IsCopied(op, c, i)
  BY <1>7, <1>8, Zenon
<1>10. n.key = <<op, Copy(c)>>
  BY <1>5, <1>9, Zenon DEF CopyOp
<1>11. QED
  BY <1>4, <1>9, <1>10, Zenon

(* What CopyOpIs says of a copy operation, as a fact about its fields.       *)
IsCopyOpOf(n, op, c) ==
  /\ DOMAIN n.uses = 1 .. program.rank[op] + 1 /\ program.rank[op] \in Nat
  /\ \A k \in 1 .. program.rank[op] : k \in DOMAIN n.uses /\ n.uses[k] = program.operands[op][k]
  /\ n.uses[program.rank[op] + 1] = op /\ n.attrs[program.rank[op] + 1] = CopyOf(op, c)

(* The copy CreateInstancesAndCopies builds reads its dimensions from the
   operands of the operation and its value from the copy_of of the copy.    *)
LEMMA CopyOpReads ==
  ASSUME program \in Programs, NEW op \in Ops, NEW i \in InstancesOf(op), NEW c \in CopiesOf(op),
         NEW n, n = CopyOp(op, c, i)
  PROVE  IsCopyOpOf(n, op, c)
<1>1. /\ DOMAIN n.uses = 1 .. program.rank[op] + 1 /\ program.rank[op] \in Nat
      /\ \A k \in 1 .. program.rank[op] : n.uses[k] = program.operands[op][k]
      /\ n.uses[program.rank[op] + 1] = op /\ n.attrs[program.rank[op] + 1] = CopyOf(op, c)
  BY CopyOpIs
<1>2. \A k \in 1 .. program.rank[op] : k \in 1 .. program.rank[op] + 1
  BY <1>1
<1>3. QED
  BY <1>1, <1>2 DEF IsCopyOpOf

(* Its dimensions are those of the instance, when the instance has decisions. *)
LEMMA CopyOpDims ==
  ASSUME program \in Programs, NEW op \in Ops, NEW i \in InstancesOf(op), NEW c \in CopiesOf(op),
         Decisions(op, i).specified, NEW n, n = CopyOp(op, c, i), NEW k \in 1 .. program.rank[op]
  PROVE  n.attrs[k] = Decisions(op, i).operands[k]
<1>1. n.attrs[k] = Dims(op, i)[k]
  BY CopyOpIs
<1>2. Dims(op, i)[k] = Decisions(op, i).operands[k]
  BY DimsAre
<1>3. QED
  BY <1>1, <1>2

(* The copy of a value reads what its copy_of designates.                   *)
LEMMA SourceOfCopy ==
  ASSUME IInv, phase = "done", NEW op \in Range(ops), NEW x \in CopiesOf(op)
  PROVE  Source(NewOp(<<op, Copy(x)>>).uses) = <<op, CopyOf(op, x)>>
<1>1. TypeOK /\ AllAreCreated /\ KeysAreDistinct /\ op \in Ops /\ program \in Programs
  BY OpsTyped, Zenon DEF IInv
<1>2. x \in Nat /\ x \in 0 .. Len(program.copies[op]) - 1
  BY <1>1, LengthsTyped DEF CopiesOf
<1>3. <<op, Copy(x)>> \in Mapping
  BY <1>1, <1>2, Zenon DEF AllAreCreated, IsComplete, IsCreated
<1>4. PICK n \in Range(newOps) : n.key = <<op, Copy(x)>>
  BY <1>3, Zenon DEF Mapping
<1>5. NewOp(<<op, Copy(x)>>) = n
  BY <1>1, <1>4, KeyFinds, Zenon
<1>6. n.key[2][1] = "copy"
  BY <1>4 DEF Copy
<1>7. PICK o \in Range(ops) : \E i \in InstancesOf(o) : \E c \in CopiesOf(o) :
        n.key = <<o, Copy(c)>> /\ IsCopied(o, c, i) /\ IsRedirected(n, CopyOp(o, c, i))
  BY <1>6, CopyInResult, Zenon
<1>8. PICK i \in InstancesOf(o), c \in Nat :
        c \in CopiesOf(o) /\ n.key = <<o, Copy(c)>> /\ IsRedirected(n, CopyOp(o, c, i))
  BY <1>1, <1>7, OpsTyped, LengthsTyped DEF CopiesOf
<1>9. o = op /\ c = x
  BY <1>4, <1>8 DEF Copy
<1>10. PICK old : old = CopyOp(op, x, i)
  BY Zenon
<1>11. /\ DOMAIN old.uses = 1 .. program.rank[op] + 1 /\ program.rank[op] \in Nat
       /\ old.uses[program.rank[op] + 1] = op /\ old.attrs[program.rank[op] + 1] = CopyOf(op, x)
  <2>1. i \in InstancesOf(op)
    BY <1>8, <1>9, Zenon
  <2>2. IsCopyOpOf(old, op, x)
    BY <1>1, <1>10, <2>1, CopyOpReads, Zenon
  <2>3. QED
    BY <2>2, Zenon DEF IsCopyOpOf
<1>12. DOMAIN n.uses = 1 .. program.rank[op] + 1
  BY <1>8, <1>9, <1>10, <1>11, Zenon DEF IsRedirected
<1>13. n.uses[program.rank[op] + 1] = <<op, CopyOf(op, x)>>
  <2>1. program.rank[op] + 1 \in DOMAIN old.uses /\ op \in Ops
    BY <1>1, <1>11
  <2>2. IsRedirected(n, old)
    BY <1>8, <1>9, <1>10, Zenon
  <2>3. n.uses[program.rank[op] + 1] = Redirection(old, program.rank[op] + 1)
    BY <2>1, <2>2, Zenon DEF IsRedirected
  <2>4. QED
    BY <1>11, <2>1, <2>3, Zenon DEF Redirection
<1>14. n.uses \in Seq(Ops \union {External} \union Keys)
  <2>1. newOps \in Seq(NewOpType)
    BY <1>1, Zenon DEF TypeOK
  <2>2. n \in NewOpType
    BY <2>1, ElementOfSeq, LenProperties, Zenon DEF Range
  <2>3. QED
    BY <2>2, Zenon DEF NewOpType
<1>15. Len(n.uses) = program.rank[op] + 1
  BY <1>11, <1>12, <1>14, LenProperties
<1>16. QED
  BY <1>5, <1>13, <1>15, Zenon DEF Source

(* From a copy of the result one comes to the clone that it copies.         *)
LEMMA CopyReachesClone ==
  ASSUME IInv, phase = "done", NEW op \in Range(ops), NEW c \in CopiesOf(op),
         NEW i \in InstancesOf(op), IsCopied(op, c, i)
  PROVE  Reaches(<<op, Copy(c)>>, <<op, Instance(i)>>)
<1>1. PICK d \in CopiesOf(op) : IsOnChain(op, c, d) /\ CopyOf(op, d) = Instance(i)
  BY Zenon DEF IsCopied
<1>2. op \in Ops /\ program \in Programs
  BY OpsTyped, Zenon DEF IInv
<1>3. ASSUME NEW S, <<op, Copy(c)>> \in S, HoldsSources(S)
      PROVE  <<op, Instance(i)>> \in S
  <2> DEFINE T == {x \in CopiesOf(op) : <<op, Copy(x)>> \in S}
  <2>1. \A x \in T : <<op, CopyOf(op, x)>> \in S
    BY <1>3, SourceOfCopy, Zenon DEF HoldsSources, Copy
  <2>2. \A x \in T : CopyOf(op, x)[1] = "copy" =>
          CopyOf(op, x)[2] \in CopiesOf(op) /\ CopyOf(op, x) = Copy(CopyOf(op, x)[2])
    BY <1>2, CopyVerified, Zenon
  <2>3. HoldsCopied(op, T)
    BY <2>1, <2>2, Zenon DEF HoldsCopied
  <2>4. c \in T /\ T \in SUBSET CopiesOf(op)
    BY <1>3, Zenon
  <2>5. d \in T
    BY <1>1, <2>3, <2>4, Zenon DEF IsOnChain
  <2>6. QED
    BY <1>1, <2>1, <2>5, Zenon
<1>4. QED
  BY <1>3, Zenon DEF Reaches

(* Behaviours keep the invariant.                                           *)
LEMMA InvHolds ==
  ASSUME \A p \in Programs : EmptyOpsAreUnused(p)
  PROVE  Spec => []IInv
<1>1. Init => IInv
  BY InitIInv, Zenon
<1>2. IInv /\ [Next]_vars => IInv'
  BY NextKeepsInv, Zenon
<1>3. QED
  BY <1>1, <1>2, PTL DEF Spec

(* An operand of an updated operation is no longer a value of the program.  *)
LEMMA UpdatedReadsNoOriginal ==
  ASSUME TypeOK, NEW n, NEW old \in NewOpType, IsRedirected(n, old), NEW k \in DOMAIN n.uses
  PROVE  n.uses[k] \notin Ops
<1>1. k \in DOMAIN old.uses /\ n.uses[k] = Redirection(old, k)
  BY Zenon DEF IsRedirected
<1>2. CASE old.uses[k] \notin Ops
  BY <1>1, <1>2, Zenon DEF Redirection
<1>3. CASE old.uses[k] \in Ops
  <2>1. n.uses[k] \in Mapping
    BY <1>1, <1>3, Zenon DEF IsRedirected
  <2>2. newOps \in Seq(NewOpType)
    BY Zenon DEF TypeOK
  <2>3. \A m \in Range(newOps) : m \in NewOpType
    BY <2>2, ElementOfSeq, LenProperties, Zenon DEF Range
  <2>4. n.uses[k] \in Ops \X Attributes
    BY <2>1, <2>3, Zenon DEF Mapping, NewOpType, Keys
  <2>5. QED
    BY <2>4, ProgramsAssumption, Zenon
<1>4. QED
  BY <1>2, <1>3, Zenon

(* Whatever the pass erases, in the walk over the operations without        *)
(* instances and at the end, has no users: not among the operations of the  *)
(* program that are left, and in the result not among the new ones.  This   *)
(* takes programs in which no operation with instances reads one without.   *)
THEOREM ErasedOperationsAreUnused ==
  ASSUME \A p \in Programs : EmptyOpsAreUnused(p)
  PROVE  Spec => []ErasedOpsAreUnused
<1>1. IInv => ErasedOpsAreUnused
  <2> SUFFICES ASSUME IInv, NEW op \in erased
               PROVE  /\ Users(op) = {}
                      /\ phase = "done" => \A n \in Range(newOps) : op \notin Range(n.uses)
    BY Zenon DEF ErasedOpsAreUnused
  <2>1. TypeOK /\ ErasedAreUnused /\ AllAreCreated /\ NewOpsAreRight
    BY Zenon DEF IInv
  <2>2. ASSUME phase = "done", NEW n \in Range(newOps)
        PROVE  op \notin Range(n.uses)
    <3>1. PICK j \in DOMAIN newOps : n = newOps[j]
      BY <2>2, Zenon DEF Range
    <3>2. ~ (j > updated)
      BY <2>1, <2>2, LenProperties DEF TypeOK, AllAreCreated
    <3>3. PICK old \in NewOpType : IsRedirected(n, old)
      BY <2>1, <3>1, <3>2, Zenon DEF NewOpsAreRight
    <3>4. \A k \in DOMAIN n.uses : n.uses[k] \notin Ops
      BY <2>1, <3>3, UpdatedReadsNoOriginal, Zenon
    <3>5. QED
      BY <2>1, <3>4, Zenon DEF TypeOK, Range
  <2>3. QED
    BY <2>1, <2>2, Zenon DEF ErasedAreUnused
<1>2. QED
  BY <1>1, InvHolds, PTL

(* In the result, wherever the operations are in the program, each clone    *)
(* reads exactly the instance or the copy that its decisions designate, and *)
(* no updated operation reads a value of the program, which is the          *)
(* assertion on the operands that are not replaced.                         *)
THEOREM InstancesReadDesignated ==
  ASSUME \A p \in Programs : EmptyOpsAreUnused(p)
  PROVE  Spec => []InstancesReadTheirOperands
<1>1. IInv => InstancesReadTheirOperands
  <2> SUFFICES ASSUME IInv
               PROVE  InstancesReadTheirOperands
    BY Zenon
  <2>1. TypeOK /\ NewOpsAreRight
    BY Zenon DEF IInv
  <2>2. ASSUME NEW n \in 1 .. updated, NEW k \in DOMAIN newOps[n].uses
        PROVE  newOps[n].uses[k] \notin Ops
    <3>1. n \in DOMAIN newOps /\ ~ (n > updated)
      BY <2>1, LenProperties DEF TypeOK
    <3>2. PICK old \in NewOpType : IsRedirected(newOps[n], old)
      BY <2>1, <3>1, Zenon DEF NewOpsAreRight
    <3>3. QED
      BY <2>1, <2>2, <3>2, UpdatedReadsNoOriginal, Zenon
  <2>3. ASSUME phase = "done", NEW op \in Range(ops), NEW i \in 0 .. NumInstances(op) - 1,
               NEW n, n = NewOp(<<op, Instance(i)>>),
               NEW k \in DOMAIN n.uses, program.operands[op][k] # External
        PROVE  /\ n.uses[k] = <<program.operands[op][k], Decisions(op, i).operands[k]>>
               /\ n.uses[k] \in Mapping
               /\ n.attrs[k] = Instance(0)
    <3>1. i \in InstancesOf(op)
      BY Zenon DEF InstancesOf
    <3>2. IsRedirected(n, Clone(op, i))
      BY <2>3, <3>1, CloneInResult, Zenon
    <3>3. PICK old : old = Clone(op, i)
      BY Zenon
    <3>4. old.uses = program.operands[op] /\ old.attrs = Decisions(op, i).operands
      BY <3>3, Zenon DEF Clone
    <3>5. k \in DOMAIN program.operands[op]
      BY <2>3, <3>2, <3>3, <3>4, Zenon DEF IsRedirected
    <3>6. op \in Ops /\ program \in Programs
      BY <2>1, OpsTyped, Zenon
    <3>7. program.operands[op] \in Seq(Ops \union {External})
      BY <3>6, LengthsTyped, Zenon
    <3>8. program.operands[op][k] \in Ops
      BY <2>3, <3>5, <3>7, ElementOfSeq, LenProperties
    <3>9. QED
      BY <3>2, <3>3, <3>4, <3>5, <3>8, Zenon DEF IsRedirected, Redirection
  <2>4. QED
    BY <2>2, <2>3 DEF InstancesReadTheirOperands
<1>2. QED
  BY <1>1, InvHolds, PTL

(* In the result, however long its chain of copies, each copy is connected  *)
(* through the copies it reads to a clone of the same operation that        *)
(* iterates on the same dimensions.                                         *)
THEOREM CopiesFollowInstances ==
  ASSUME \A p \in Programs : EmptyOpsAreUnused(p)
  PROVE  Spec => []CopiesMatchInstances
<1>1. IInv => CopiesMatchInstances
  <2> SUFFICES ASSUME IInv, phase = "done", NEW n \in Range(newOps), n.key[2][1] = "copy"
               PROVE  \E origin \in Range(newOps) :
                        /\ origin.key[1] = n.key[1] /\ origin.key[2][1] = "instance"
                        /\ \A k \in 1 .. program.rank[n.key[1]] : n.uses[k] = origin.uses[k]
                        /\ Reaches(n.key, origin.key)
    BY Zenon DEF CopiesMatchInstances
  <2>1. PICK op \in Range(ops) : \E i \in InstancesOf(op) : \E c \in CopiesOf(op) :
          n.key = <<op, Copy(c)>> /\ IsCopied(op, c, i) /\ IsRedirected(n, CopyOp(op, c, i))
    BY CopyInResult, Zenon
  <2>2. PICK i \in InstancesOf(op), c \in CopiesOf(op) :
          n.key = <<op, Copy(c)>> /\ IsCopied(op, c, i) /\ IsRedirected(n, CopyOp(op, c, i))
    BY <2>1, Zenon
  <2>3. PICK origin : origin = NewOp(<<op, Instance(i)>>)
    BY Zenon
  <2>4. /\ origin \in Range(newOps) /\ origin.key = <<op, Instance(i)>>
        /\ IsRedirected(origin, Clone(op, i))
    BY <2>3, CloneInResult, Zenon
  <2>5. op \in Ops /\ program \in Programs
    BY OpsTyped, Zenon DEF IInv
  <2>6. PICK copy, clone : copy = CopyOp(op, c, i) /\ clone = Clone(op, i)
    BY Zenon
  <2>7. /\ clone.uses = program.operands[op] /\ clone.attrs = Decisions(op, i).operands
        /\ Decisions(op, i).specified
    BY <2>4, <2>6, Zenon DEF Clone, IsRedirected, IsIncomplete
  <2>8. ASSUME NEW k \in 1 .. program.rank[op]
        PROVE  n.uses[k] = origin.uses[k]
    <3>1. /\ k \in DOMAIN copy.uses /\ copy.uses[k] = program.operands[op][k]
          /\ copy.attrs[k] = Decisions(op, i).operands[k]
      <4>1. IsCopyOpOf(copy, op, c)
        BY <2>5, <2>6, CopyOpReads, Zenon
      <4>2. copy.attrs[k] = Decisions(op, i).operands[k]
        BY <2>5, <2>6, <2>7, CopyOpDims, Zenon
      <4>3. QED
        BY <4>1, <4>2, Zenon DEF IsCopyOpOf
    <3>2. k \in DOMAIN clone.uses
      BY <2>5, <2>7, LengthsTyped
    <3>3. Redirection(copy, k) = Redirection(clone, k)
      BY <2>7, <3>1, Zenon DEF Redirection
    <3>4. QED
      BY <2>2, <2>4, <2>6, <3>1, <3>2, <3>3, Zenon DEF IsRedirected
  <2>9. Reaches(n.key, origin.key)
    BY <2>2, <2>4, CopyReachesClone, Zenon
  <2>10. n.key[1] = op /\ origin.key[1] = op /\ origin.key[2][1] = "instance"
    BY <2>2, <2>4 DEF Instance
  <2>11. QED
    BY <2>4, <2>8, <2>9, <2>10, Zenon
<1>2. QED
  BY <1>1, InvHolds, PTL
=============================================================================
