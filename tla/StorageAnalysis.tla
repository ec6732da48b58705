-------------------------- MODULE StorageAnalysis ---------------------------
(***************************************************************************)
(* StorageAnalysis (storage.cc): where each value of a program is stored.  *)
(* Buffers are declared from the storage attributes, then the storage of   *)
(* every annotated value is set and propagated through the operations that *)
(* only rename values (projections, fby, the initial values of a           *)
(* map_reduce) with a work list, until nothing changes or two storages     *)
(* conflict.                                                               *)
(*                                                                         *)
(* All dimensions of a program are one static range, its loops iterate on  *)
(* plain dimensions and its values have one element type.  Unifying the    *)
(* shapes of two uses of a buffer then never fails; it only says which     *)
(* dimensions of the buffer a layout gives.                                *)
(***************************************************************************)
EXTENDS Dependencies

NoName == "null"
Register == "register"
Memory == "memory"

\* ValueStorage(): nothing is known yet.
NoStorage == [space |-> NoName, name |-> NoName, layout |-> Null]

\* A storage attribute: its layout is a mapping over named loops.
NoAttr == [space |-> NoName]
NoLayout == [names |-> <<>>, m |-> Null]

----------------------------------------------------------------------------
(* The program.                                                            *)

Ops(p) == [o \in DOMAIN p |-> o]
ComputeOps(p) == SelectSeq(Ops(p), LAMBDA o : IsCompute(p[o]))
OpsOf(p, kinds) == SelectSeq(Ops(p), LAMBDA o : p[o].kind \in kinds)

Values(p) == UNION {{<<o, r>> : r \in DOMAIN p[o].attr} : o \in DOMAIN p}

\* ResultInstance::GetUses: pairs of an operation and an operand position.
Uses(p, v) ==
  {u \in UNION {{<<o, a>> : a \in DOMAIN p[o].args} : o \in DOMAIN p} :
     p[u[1]].args[u[2]].v = v}

\* The result a use forwards its operand to, 0 if none.  The position of the
\* use counts the operands that are dimensions, that of a result does not.
ForwardResult(op, arg) ==
  CASE op.kind \in {"proj", "fby"} -> 1
    [] op.kind = "map_reduce" ->
         IF op.domain + arg - 1 >= op.inits THEN 0 ELSE arg
    [] OTHER -> 0

\* Mutant: a result is propagated back to the first operand only.
BackwardArgsFirst(op, result) ==
  IF op.kind \in {"proj", "fby"} THEN <<1>> ELSE <<>>

\* The operands a result is propagated back to.
BackwardArgs(op, result) ==
  CASE op.kind \in {"proj", "fby"} -> [a \in DOMAIN op.args |-> a]
    [] op.kind = "map_reduce" -> <<result>>
    [] OTHER -> <<>>

----------------------------------------------------------------------------
(* ValueStorage.                                                           *)

\* Merge*: a null field takes the new value, two values must be the same; `?`
\* expressions of a layout are replaced.
Conflict(old, new) == new # NoName /\ old # NoName /\ old # new
MergeName(old, new) == IF old = NoName THEN new ELSE old

MergeLayout(old, new) ==
  CASE new = Null -> old
    [] new # Null /\ old = Null -> new
    [] OTHER -> UnifyMappings(new, old, FALSE)

LayoutFails(layout) == layout # Null /\ Fails(layout)

\* What UnifyUnknownExprs asserts.
SameSizes(old, new) ==
  old # Null /\ new # Null => Size(old) = Size(new) /\ old.n = new.n

\* Map: the storage of a value of `from` seen from `to`, given a mapping from
\* the domain of `to` to that of `from`.
MapStorage(p, spaces, storage, from, to, m) ==
  LET domain_mapping == ResizeUseDomain(Resize(m, p[from].domain), p[to].domain)
      iter_space_mapping == TranslateMapping(spaces[to], spaces[from], domain_mapping)
  IN  [storage EXCEPT !.layout =
         IF storage.layout = Null THEN Null
         ELSE IF Fails(iter_space_mapping) THEN iter_space_mapping
         ELSE Canonicalize(Compose(iter_space_mapping, storage.layout))]

\* The storage of the operand `arg` of `o` as seen from `o`, and back.
MapToUser(p, spaces, storage, o, arg) ==
  MapStorage(p, spaces, storage, p[o].args[arg].v[1], o, p[o].args[arg].m)
MapToOperand(p, spaces, storage, o, arg) ==
  MapStorage(p, spaces, storage, o, p[o].args[arg].v[1], InverseOf(p[o].args[arg].m))

----------------------------------------------------------------------------
(* Buffers.                                                                *)

NewBuffer(nest, external) ==
  [nest |-> nest, dims |-> <<>>, ranked |-> FALSE, external |-> external,
   values |-> <<>>, writes |-> <<>>]

\* The buffer can be used from a space: only common loops that the layout does
\* not index remain in its loop nest.
TrimForAccess(buffer, space, layout) ==
  LET common == NumCommonLoops(space.names, buffer.nest)
      indexed == IF layout = Null THEN {} ELSE DependencyMask(layout)
  IN  [buffer EXCEPT !.nest = SubSeq(space.names, 1, Min({common} \cup indexed))]

\* UnifyBufferShape, as far as the dimensions of the buffer are known.
UnifyShape(buffer, layout) ==
  [buffer EXCEPT !.dims = [i \in DOMAIN buffer.dims |->
                             buffer.dims[i] \/ ~HasNoneExprs(layout.es[i])]]

AddNonePrefix(buffer, n) ==
  [buffer EXCEPT !.dims = [i \in 1..n |-> FALSE] \o buffer.dims]

AddValue(p, buffer, v) ==
  [buffer EXCEPT
     !.values = Append(@, v),
     !.writes = IF IsCompute(p[v[1]]) THEN Append(@, v) ELSE @]

\* GetBufferLayout: a layout over named loops as one over an iteration space.
GetBufferLayout(space, layout) ==
  LET position(name) == CHOOSE k \in DOMAIN space.names : space.names[k] = name
  IN  IF layout.m = Null THEN Null
      ELSE Compose(MappingOf(Size(space.mapping),
                             [i \in DOMAIN layout.names |->
                                Dim(position(layout.names[i]) - 1)]),
                   layout.m)

FromToMemRefLayout(op, space) ==
  Compose(InverseOf(space.mapping),
          ShiftRight(Identity(op.domain - op.parallel, op.domain - op.parallel),
                     op.parallel, 0))

----------------------------------------------------------------------------
(* The analysis.                                                           *)

VARIABLES
  program,             \* the program, with its storage attributes
  spaces,              \* IterationSpaceAnalysis of the program
  buffers,             \* buffers_: name -> buffer
  storage,             \* value_storages_: value -> storage
  work,                \* work_list of SetStorage
  todo,                \* the calls still to make, in order
  status               \* run, or why it stopped: conflict (SetStorage failed),
                       \* error (another diagnostic), assertion (an assert failed)

vars == <<program, spaces, buffers, storage, work, todo, status>>

\* The mutable part of the analysis, as SetStorage changes it.
State == [buffers |-> buffers, storage |-> storage, work |-> work, status |-> status]

Become(s) ==
  /\ buffers' = s.buffers
  /\ storage' = s.storage
  /\ work' = s.work
  /\ status' = s.status

\* The first value of a buffer name registers the value in the buffer and
\* trims the loop nest of the buffer to the loops of its definition and uses.
RegisterValue(bufs, v, old, new) ==
  IF old.name # NoName \/ new.name = NoName THEN bufs
  ELSE LET users == [u \in Uses(program, v) |-> spaces[u[1]]]
           trimmed == TrimForAccess(AddValue(program, bufs[new.name], v),
                                    spaces[v[1]], Null)
       IN  [bufs EXCEPT ![new.name] =
              FoldFunction(LAMBDA space, b : TrimForAccess(b, space, Null), trimmed, users)]

\* Mutant: a value whose storage does not change is put on the work list.
UpdateAlways(s, v, new) ==
  LET old == s.storage[v]
      layout == MergeLayout(old.layout,
                            IF new.layout = Null THEN Null ELSE Canonicalize(new.layout))
  IN  IF s.status # "run" THEN s
      ELSE IF Conflict(old.space, new.space) \/ Conflict(old.name, new.name)
      THEN [s EXCEPT !.status = "conflict"]
      ELSE [s EXCEPT
              !.work = IF v \in ToSet(@) THEN @ ELSE Append(@, v),
              !.buffers = RegisterValue(@, v, old, new),
              !.storage[v] = [space |-> MergeName(old.space, new.space),
                              name |-> MergeName(old.name, new.name),
                              layout |-> layout]]

\* update_storage of SetStorage, with UpdateStorage.
Update(s, v, new) ==
  LET old == s.storage[v]
      layout == MergeLayout(old.layout,
                            IF new.layout = Null THEN Null ELSE Canonicalize(new.layout))
  IN  IF s.status # "run" \/ new = old THEN s
      ELSE IF LayoutFails(new.layout) THEN [s EXCEPT !.status = "assertion"]
      ELSE IF Conflict(old.space, new.space) \/ Conflict(old.name, new.name)
      THEN [s EXCEPT !.status = "conflict"]
      ELSE IF ~SameSizes(old.layout, new.layout) THEN [s EXCEPT !.status = "assertion"]
      ELSE IF LayoutFails(layout) THEN [s EXCEPT !.status = "conflict"]
      ELSE [s EXCEPT
              !.work = Append(@, v),
              !.buffers = RegisterValue(@, v, old, new),
              !.storage[v] = [space |-> MergeName(old.space, new.space),
                              name |-> MergeName(old.name, new.name),
                              layout |-> layout]]

\* One turn of the loop of SetStorage: the storage of a value, as it was when
\* it was popped, goes to the results it is forwarded to, in the order of the
\* use list, then to the operands it comes from.
Propagate ==
  /\ status = "run"
  /\ work # <<>>
  /\ LET v == Last(work)
         op == program[v[1]]
         uses == {u \in Uses(program, v) : ForwardResult(program[u[1]], u[2]) # 0}
         forward(u) == <<<<u[1], ForwardResult(program[u[1]], u[2])>>,
                         MapToUser(program, spaces, storage[v], u[1], u[2])>>
         backward(a) == <<op.args[a].v,
                          MapToOperand(program, spaces, storage[v], v[1], a)>>
         args == BackwardArgs(op, v[2])
         popped == [State EXCEPT !.work = Front(@)]
     IN  \E order \in SetToSeqs(uses) :
           LET targets == [i \in DOMAIN order |-> forward(order[i])]
                            \o [i \in DOMAIN args |-> backward(args[i])]
           IN  Become(FoldLeft(LAMBDA s, t : Update(s, t[1], t[2]), popped, targets))
  /\ UNCHANGED <<program, spaces, todo>>

\* The calls of Init, in order: buffers are declared, storages are set.
Calls(name, ops) == [i \in DOMAIN ops |-> [call |-> name, op |-> ops[i]]]

\* One call for each result, or each operand, of each of the operations.
CallsOnEach(name, ops, Items(_)) ==
  FlattenSeq([i \in DOMAIN ops |->
                [k \in Items(ops[i]) |-> [call |-> name, op |-> ops[i], item |-> k]]])
OnResults(name, p, ops) == CallsOnEach(name, ops, LAMBDA o : DOMAIN p[o].attr)
OnOperands(name, p, ops) == CallsOnEach(name, ops, LAMBDA o : DOMAIN p[o].args)

AnalysisCalls(p) ==
  Calls("declare_external", OpsOf(p, {"from_memref", "to_memref"}))
    \o Calls("declare", ComputeOps(p))
    \o <<[call |-> "check_layouts", op |-> 0]>>
    \o OnResults("set_compute", p, ComputeOps(p))
    \o Calls("set_from_memref", OpsOf(p, {"from_memref"}))
    \o Calls("set_from_scalar", OpsOf(p, {"from_scalar"}))
    \o Calls("set_to_memref", OpsOf(p, {"to_memref"}))
    \o <<[call |-> "minimize", op |-> 0]>>

\* The next call is made once the work list of the previous one is empty.
Calling(name) ==
  /\ status = "run"
  /\ work = <<>>
  /\ todo # <<>>
  /\ Head(todo).call = name
  /\ todo' = Tail(todo)
  /\ UNCHANGED <<program, spaces>>

Fail(verdict) == status' = verdict /\ UNCHANGED <<buffers, storage, work>>

DeclareExternalBuffer ==
  /\ Calling("declare_external")
  /\ LET o == Head(todo).op
         op == program[o]
         layout == FromToMemRefLayout(op, spaces[o])
         buffer == AddNonePrefix([NewBuffer(spaces[o].names, TRUE) EXCEPT !.ranked = TRUE],
                                 Size(layout))
     IN  IF op.buffer \in DOMAIN buffers THEN Fail("error")
         ELSE /\ buffers' = (op.buffer :> UnifyShape(buffer, layout)) @@ buffers
              /\ UNCHANGED <<storage, work, status>>

\* DeclareBuffer for one result: the buffer, or the error of a wrong rank.
Declare(bufs, o, attr) ==
  LET space == spaces[o]
      layout == GetBufferLayout(space, attr.layout)
      old == IF attr.name \in DOMAIN bufs THEN bufs[attr.name]
             ELSE NewBuffer(space.names, FALSE)
      trimmed == TrimForAccess(old, space, layout)
      ranked == IF old.ranked THEN trimmed
                ELSE [AddNonePrefix(trimmed, Size(layout)) EXCEPT !.ranked = TRUE]
  IN  IF layout = Null THEN [ok |-> TRUE, buffer |-> trimmed]
      ELSE IF Len(ranked.dims) # Size(layout) THEN [ok |-> FALSE, buffer |-> old]
      ELSE [ok |-> TRUE, buffer |-> UnifyShape(ranked, layout)]

DeclareBuffers ==
  /\ Calling("declare")
  /\ LET o == Head(todo).op
         declare(s, attr) ==
           IF attr = NoAttr \/ s.status # "run" THEN s
           ELSE IF attr.name = NoName THEN s
           ELSE LET d == Declare(s.buffers, o, attr)
                IN  IF d.ok THEN [s EXCEPT !.buffers = (attr.name :> d.buffer) @@ @]
                    ELSE [s EXCEPT !.status = "error"]
     IN  Become(FoldLeft(declare, State, program[o].attr))

CheckLayouts ==
  /\ Calling("check_layouts")
  /\ IF \E b \in DOMAIN buffers : FALSE \in ToSet(buffers[b].dims)
     THEN Fail("error")
     ELSE UNCHANGED <<buffers, storage, work, status>>

\* SetStorage up to its loop.
Set(v, new) == Become(Update(State, v, new))

\* ComputeValueStorages, one action for each of its walks.
SetFromAttribute ==
  /\ Calling("set_compute")
  /\ LET v == <<Head(todo).op, Head(todo).item>>
         attr == program[v[1]].attr[v[2]]
     IN  IF attr = NoAttr THEN UNCHANGED <<buffers, storage, work, status>>
         ELSE Set(v, [space |-> attr.space, name |-> attr.name,
                      layout |-> GetBufferLayout(spaces[v[1]], attr.layout)])

SetFromMemRef ==
  /\ Calling("set_from_memref")
  /\ LET o == Head(todo).op
     IN  Set(<<o, 1>>, [space |-> Memory, name |-> program[o].buffer,
                        layout |-> FromToMemRefLayout(program[o], spaces[o])])

SetFromScalar ==
  /\ Calling("set_from_scalar")
  /\ Set(<<Head(todo).op, 1>>,
         [space |-> Register, name |-> NoName, layout |-> MappingOf(0, <<>>)])

SetToMemRef ==
  /\ Calling("set_to_memref")
  /\ LET o == Head(todo).op
         operand_storage == [space |-> Memory, name |-> program[o].buffer,
                             layout |-> FromToMemRefLayout(program[o], spaces[o])]
     IN  Set(program[o].args[2].v, MapToOperand(program, spaces, operand_storage, o, 2))

\* VerifyAndMinimizeBufferLoopNests: with dimensions that depend on nothing, an
\* internal buffer is allocated outside of all loops.  Its first write decides
\* where.
MinimizeLoopNests ==
  /\ Calling("minimize")
  /\ IF \E b \in DOMAIN buffers : ~buffers[b].external /\ buffers[b].writes = <<>>
     THEN Fail("assertion")
     ELSE /\ buffers' = [b \in DOMAIN buffers |->
                           IF buffers[b].external THEN buffers[b]
                           ELSE [buffers[b] EXCEPT !.nest = <<>>]]
          /\ UNCHANGED <<storage, work, status>>

AnalysisNext ==
  \/ Propagate
  \/ DeclareExternalBuffer \/ DeclareBuffers \/ CheckLayouts
  \/ SetFromAttribute \/ SetFromMemRef \/ SetFromScalar \/ SetToMemRef
  \/ MinimizeLoopNests

StartAnalysis(p) ==
  /\ buffers = <<>>
  /\ storage = [v \in Values(p) |-> NoStorage]
  /\ work = <<>>
  /\ status = "run"

====
