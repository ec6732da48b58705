--------------------------- MODULE DefaultStorage ---------------------------
(***************************************************************************)
(* The DefaultStorage pass (default_lowering_attributes.cc) on a program   *)
(* that passed VerifyStorages (storage.cc): it completes the storage of    *)
(* every value, registers where possible and the fewest buffer dimensions  *)
(* otherwise, and writes the attributes back.  The program it leaves is    *)
(* verified again, by a second storage analysis.                           *)
(***************************************************************************)
EXTENDS Overwrite, StorageSemantics

CONSTANT Programs      \* the programs the pass may be given

VARIABLES
  round,               \* 1 up to the end of the pass, 2 when its result is verified
  decided              \* value_storages_ at the end of the pass

allVars == <<vars, round, decided>>

VerifyCalls(p) ==
  AnalysisCalls(p)
    \o OnResults("verify_in_place", p, ComputeOps(p))
    \o OnOperands("verify_volume", p, Ops(p))
    \o <<[call |-> "verify_overwrite", op |-> 0]>>

PassCalls(p) ==
  OnOperands("create", p, Ops(p))
    \o OnResults("initialize", p, Ops(p))
    \o OnOperands("extend", p, Ops(p))
    \o OnResults("specify", p, Ops(p))
    \o [i \in 1..3 |-> [call |-> <<"minimize", "verify_overwrite", "commit">>[i], op |-> 0]]

Init ==
  /\ program \in Programs
  /\ spaces = IterationSpaceAnalysis(program)
  /\ SatisfiesDependencies(program, spaces)
  /\ StartAnalysis(program)
  /\ todo = VerifyCalls(program) \o PassCalls(program)
  /\ round = 1
  /\ decided = storage

----------------------------------------------------------------------------
(* VerifyStorages.                                                         *)

\* An operation that updates a buffer in place uses one layout.
UpdatesInPlace(v) ==
  \A a \in DOMAIN program[v[1]].args :
    LET operand == program[v[1]].args[a].v
    IN  (storage[v].name # NoName /\ storage[operand].name = storage[v].name) =>
          MapToUser(program, spaces, storage[operand], v[1], a).layout = storage[v].layout

VerifyInPlace ==
  /\ Calling("verify_in_place")
  /\ status' = IF UpdatesInPlace(<<Head(todo).op, Head(todo).item>>) THEN status ELSE "error"
  /\ UNCHANGED <<buffers, storage, work, round, decided>>

\* The sub-domain of a value of the given rank that must be stored for a use.
CommunicationVolume(rank, def, use) ==
  LET common == NumCommonLoops(def.names, use.names)
      domain_to_common_loops == Resize(ResizeUseDomain(def.mapping, rank), common)
  IN  DropFront(InverseOf(MakeSurjective(InverseOf(domain_to_common_loops))), common)

LayoutToVolume(o, arg) ==
  LET operand == program[o].args[arg]
      def == spaces[operand.v[1]]
      layout_to_operand == InverseOf(Compose(def.mapping, storage[operand.v].layout))
  IN  Compose(layout_to_operand,
              CommunicationVolume(Size(operand.m), def, spaces[o]))

VolumeIsStored(o, arg) ==
  LET v == program[o].args[arg].v
  IN  spaces[o].full /\ spaces[v[1]].full /\ storage[v].layout # Null =>
        IsSurjective(Canonicalize(LayoutToVolume(o, arg)))

VerifyVolume ==
  /\ Calling("verify_volume")
  /\ status' = IF VolumeIsStored(Head(todo).op, Head(todo).item) THEN status ELSE "error"
  /\ UNCHANGED <<buffers, storage, work, round, decided>>

VerifyOverwrite ==
  /\ Calling("verify_overwrite")
  /\ status' = IF ValuesNotOverwritten THEN status ELSE "error"
  /\ UNCHANGED <<buffers, storage, work, round, decided>>

----------------------------------------------------------------------------
(* The pass.                                                               *)

\* The loops of an operand's value that its user has to see.
AccessedLoops(o, arg) ==
  LET operand == program[o].args[arg]
      d == operand.v[1]
  IN  TranslateMapping(spaces[o], spaces[d], Resize(operand.m, program[d].domain))

FitsInRegisters(o, arg) ==
  MinDomainSize(AccessedLoops(o, arg)) <=
    NumCommonLoops(spaces[o].names, spaces[program[o].args[arg].v[1]].names)

GetFreshBufferName ==
  CHOOSE name \in {"buffer_" \o ToString(k) : k \in 0..Cardinality(DOMAIN buffers)} :
    name \notin DOMAIN buffers

CreateBufferIfNeeded ==
  /\ Calling("create")
  /\ LET o == Head(todo).op
         v == program[o].args[Head(todo).item].v
         name == GetFreshBufferName
         new == [storage[v] EXCEPT !.name = name, !.space = Memory]
         created == [State EXCEPT !.buffers = (name :> NewBuffer(spaces[o].names, FALSE)) @@ @]
     IN  IF storage[v].space # NoName THEN UNCHANGED <<buffers, storage, work, status>>
         ELSE IF Fails(AccessedLoops(o, Head(todo).item)) THEN Fail("assertion")
         ELSE IF FitsInRegisters(o, Head(todo).item)
         THEN UNCHANGED <<buffers, storage, work, status>>
         ELSE Become(Update(created, v, new))
  /\ UNCHANGED <<round, decided>>

InitializeStorage ==
  /\ Calling("initialize")
  /\ LET v == <<Head(todo).op, Head(todo).item>>
         old == storage[v]
         rank == IF old.name = NoName THEN 0 ELSE Len(buffers[old.name].dims)
         unknown == MappingOf(Size(spaces[v[1]].mapping), [i \in 1..rank |-> Unknown])
     IN  Set(v, [space |-> MergeName(old.space, Register), name |-> old.name,
                 layout |-> IF old.layout = Null THEN unknown ELSE old.layout])
  /\ UNCHANGED <<round, decided>>

\* AddDimensionsToBuffer: the buffer gets the dimensions the new layout adds in
\* front, and every value in it the same number of unknown ones.
AddDimensionsToBuffer(s, name, space, layout) ==
  LET old == s.buffers[name]
      added == Size(layout) - Len(old.dims)
      extended == UnifyShape(AddNonePrefix(TrimForAccess(old, space, layout), added), layout)
      unknown == [i \in 1..added |-> Unknown]
  IN  [s EXCEPT
         !.buffers[name] = extended,
         !.storage = [v \in DOMAIN @ |->
                        IF v \in ToSet(old.values)
                        THEN [@[v] EXCEPT !.layout = AddPrefix(@, unknown)]
                        ELSE @[v]]]

\* The layout of the operand with dimensions in front for the part of the
\* communication volume it does not cover.
ExtendedLayout(o, arg) ==
  LET operand == program[o].args[arg]
      def == spaces[operand.v[1]]
      layout == storage[operand.v].layout
      rank == Len(buffers[storage[operand.v].name].dims)
      surjective == MakeSurjective(LayoutToVolume(o, arg))
      added == surjective.n - rank
      permutation == MappingOf(surjective.n,
                               [i \in 1..surjective.n |->
                                  Dim(IF i <= rank THEN added + i - 1 ELSE i - rank - 1)])
      volume == CommunicationVolume(Size(operand.m), def, spaces[o])
  IN  UnifyMappings(
        Compose(Compose(InverseOf(def.mapping), volume),
                InverseOf(Compose(permutation, surjective))),
        AddPrefix(layout, [i \in 1..added |-> None]), TRUE)

\* Mutant: a buffer that has dimensions is not extended.
ExtendLayoutOnce ==
  /\ Calling("extend")
  /\ LET o == Head(todo).op
         arg == Head(todo).item
         v == program[o].args[arg].v
         layout == ExtendedLayout(o, arg)
         extended == AddDimensionsToBuffer(State, storage[v].name, spaces[v[1]], layout)
     IN  IF IsSurjective(LayoutToVolume(o, arg)) \/ Size(storage[v].layout) > 0
         THEN UNCHANGED <<buffers, storage, work, status>>
         ELSE Become(Update(extended, v,
                            [extended.storage[v] EXCEPT !.layout = MergeLayout(@, layout)]))
  /\ UNCHANGED <<round, decided>>

ExtendLayout ==
  /\ Calling("extend")
  /\ LET o == Head(todo).op
         arg == Head(todo).item
         v == program[o].args[arg].v
         name == storage[v].name
         layout == ExtendedLayout(o, arg)
         extended == AddDimensionsToBuffer(State, name, spaces[v[1]], layout)
         new == [extended.storage[v] EXCEPT !.layout = MergeLayout(@, layout)]
     IN  IF IsSurjective(LayoutToVolume(o, arg))
         THEN UNCHANGED <<buffers, storage, work, status>>
         ELSE IF name = NoName THEN Fail("assertion")
         ELSE IF buffers[name].external THEN Fail("error")
         ELSE IF Fails(layout) THEN Fail("assertion")
         ELSE IF LayoutFails(new.layout) THEN Fail("assertion")
         ELSE Become(Update(extended, v, new))
  /\ UNCHANGED <<round, decided>>

MakeLayoutFullySpecified ==
  /\ Calling("specify")
  /\ LET v == <<Head(todo).op, Head(todo).item>>
     IN  Set(v, [storage[v] EXCEPT !.layout = MergeLayout(@, MakeFullySpecified(@))])
  /\ UNCHANGED <<round, decided>>

\* CommitStorage: the attribute that describes a storage by the loops it indexes.
Attribute(v) ==
  LET space == spaces[v[1]]
      indexed == SetToSortSeq(DependencyMask(storage[v].layout), <)
      renaming == MappingOf(Len(indexed),
                            [l \in 1..Size(space.mapping) |->
                               IF l - 1 \in ToSet(indexed)
                               THEN Dim((CHOOSE i \in DOMAIN indexed : indexed[i] = l - 1) - 1)
                               ELSE None])
  IN  [space |-> storage[v].space, name |-> storage[v].name,
       layout |-> [names |-> [i \in DOMAIN indexed |-> space.names[indexed[i] + 1]],
                   m |-> Compose(renaming, storage[v].layout)]]

\* The end of the pass: the attributes are written and the result is verified.
Commit ==
  /\ status = "run" /\ work = <<>> /\ todo # <<>> /\ Head(todo).call = "commit"
  /\ program' = [o \in DOMAIN program |->
                   [program[o] EXCEPT !.attr =
                      [r \in DOMAIN @ |-> IF IsCompute(program[o]) THEN Attribute(<<o, r>>)
                                          ELSE @[r]]]]
  /\ decided' = storage
  /\ round' = 2
  /\ spaces' = IterationSpaceAnalysis(program')
  /\ todo' = VerifyCalls(program')
  /\ buffers' = <<>>
  /\ storage' = [v \in Values(program) |-> NoStorage]
  /\ UNCHANGED <<work, status>>

\* The pass is over, or it stopped.
Busy == status = "run" /\ (work # <<>> \/ todo # <<>>)

Finished == ~Busy /\ UNCHANGED allVars

Next ==
  \/ AnalysisNext /\ UNCHANGED <<round, decided>>
  \/ VerifyInPlace \/ VerifyVolume \/ VerifyOverwrite
  \/ CreateBufferIfNeeded \/ InitializeStorage \/ ExtendLayout
  \/ MakeLayoutFullySpecified \/ Commit
  \/ Finished

\* A pass runs to its end.  This is WF_allVars(Next), with the condition that a
\* step is possible spelled out: no state that is busy is a deadlock.
Spec == Init /\ [][Next]_allVars /\ ([]<>~Busy \/ []<><<Next>>_allVars)

----------------------------------------------------------------------------
(* Properties.                                                             *)

\* A layout is a mapping from the loops of its value.
TypeOK ==
  /\ round \in 1..2
  /\ status \in {"run", "conflict", "error", "assertion"}
  /\ ToSet(work) \subseteq Values(program)
  /\ DOMAIN storage = Values(program) /\ DOMAIN decided = Values(program)
  /\ \A v \in Values(program) :
       /\ storage[v].space \in {NoName, Register, Memory}
       /\ storage[v].name \in DOMAIN buffers \cup {NoName}
       /\ storage[v].layout # Null => storage[v].layout.n = Size(spaces[v[1]].mapping)

Quiet == status = "run" /\ work = <<>>
Accepted == round = 2 /\ todo = <<>> /\ Quiet
InPass == round = 1 /\ Len(todo) < Len(PassCalls(program))

\* Values an operation only renames are stored together: once SetStorage has
\* emptied its work list, the result of a projection or of an fby and the
\* operands it comes from have one memory space and one buffer, in whatever
\* order the storages were set (storage.cc:541-624).
LinkedStoragesAgree ==
  Quiet =>
    \A o \in DOMAIN program : program[o].kind \in {"proj", "fby"} =>
      \A a \in DOMAIN program[o].args :
        LET operand == storage[program[o].args[a].v]
        IN  operand.space = storage[<<o, 1>>].space /\ operand.name = storage[<<o, 1>>].name

\* A buffer lists each value stored in it once, and no other: it is these lists
\* that AddDimensionsToBuffer extends and VerifyValuesNotOverwritten reads
\* (storage.cc:48-61, 471-493).
BuffersListTheirValues ==
  \A name \in DOMAIN buffers :
    /\ ToSet(buffers[name].values) = {v \in DOMAIN storage : storage[v].name = name}
    /\ IsInjective(buffers[name].values)

\* When the pass adds dimensions to a buffer for one use, every layout of every
\* value in the buffer gets them (storage.cc:471-493).
LayoutsHaveTheRankOfTheirBuffer ==
  \A v \in DOMAIN storage :
    storage[v].name # NoName /\ storage[v].layout # Null =>
      Size(storage[v].layout) = Len(buffers[storage[v].name].dims)

\* Whatever the order in which storages are set and propagated, the storages, the
\* buffers and the lists of values that the analysis keeps agree.
StoragesAreConsistent ==
  TypeOK /\ LinkedStoragesAgree /\ BuffersListTheirValues /\ LayoutsHaveTheRankOfTheirBuffer

\* The pass only adds compatible information: no MergeStorage fails, and no
\* assertion of the analysis or of the pass does ("The new information must be
\* compatible with existing information", storage.h).
PassOnlyRefines == status # "assertion" /\ (status = "conflict" => round = 1 /\ ~InPass)

\* The pass leaves a program that the verifier accepts, whenever it was given
\* one (storage.cc:1041-1087).
ResultVerifies == round = 2 => status = "run"

\* The attributes say all that was decided: the analysis of the program the
\* pass leaves finds the same storages (CommitStorage,
\* default_lowering_attributes.cc:66-95).
DecisionsAreCommitted == Accepted => storage = decided

\* The pass leaves no value without a space, a complete layout and, in memory,
\* a buffer (default_lowering_attributes.cc:252-353).
EveryValueIsStored ==
  round = 2 =>
    \A v \in DOMAIN decided :
      /\ decided[v].space # NoName
      /\ decided[v].layout # Null /\ IsFullySpecified(decided[v].layout)
      /\ decided[v].space = Memory => decided[v].name # NoName

\* What the pass promises: given a program that the verifier accepts it meets
\* no conflict and no failing assertion, stores every value, and leaves a program
\* that verifies and whose attributes say what was decided.
PassCompletesProgram ==
  PassOnlyRefines /\ EveryValueIsStored /\ ResultVerifies /\ DecisionsAreCommitted

\* What the verification of loop nests is for: when the loops of an accepted
\* program are executed, every value is computed before it is used
\* (loop_nest.cc:402-494).  "Returns the dimensions that must finish before using
\* results" (sair_base.td:352) says which loops to wait for.
UsersWaitForResults == Accepted => ProducersPrecedeUsers

\* What the verification of storages is for: when the loops of an accepted
\* program are executed, every read of a buffer, and every memref returned, gets
\* the element that the program asks for (storage.cc:748-998).
ReadsGetTheirElements == Accepted => ComputesItsValues

\* A program that the verifiers accept computes what it says, in its loops and
\* with its buffers.
AcceptedProgramsCompute == UsersWaitForResults /\ ReadsGetTheirElements

\* Propagation reaches a fixpoint, also around the cycle of an fby.
Terminates == <>~Busy

====
