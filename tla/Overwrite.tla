----------------------------- MODULE Overwrite ------------------------------
(***************************************************************************)
(* VerifyValuesNotOverwritten (storage.cc): no operation writes into a     *)
(* buffer between the moment a value is stored in it and the moment the    *)
(* value is read.  Compute operations are sequenced in block order.        *)
(***************************************************************************)
EXTENDS StorageAnalysis

\* Program points: next to an operation, in a loop nest, or (operation 0) at
\* the limits of the program.
Point(op, direction, nest) == [op |-> op, direction |-> direction, nest |-> nest]

IsAtOrIn(point, o) == point.op \in {0, o}
IsBefore(point, o) ==
  IF IsAtOrIn(point, o) THEN point.direction = "before" ELSE point.op < o
IsAfter(point, o) ==
  IF IsAtOrIn(point, o) THEN point.direction = "after" ELSE o < point.op

\* LoopFusionClass::EndPoint: after the last operation in the loop.
EndPoint(loop) ==
  LET last == Max({o \in DOMAIN program :
                     IsCompute(program[o]) /\ loop \in ToSet(spaces[o].names)})
      names == spaces[last].names
      position == CHOOSE k \in DOMAIN names : names[k] = loop
  IN  Point(last, "after", SubSeq(names, 1, position - 1))

\* Mutant: writes after the use are not looked at.
NoWriteBetweenOnly(name, from, to, layout, allowed_write) ==
  \A v \in ToSet(buffers[name].writes) :
    \/ v[1] = allowed_write
    \/ IsAfter(from, v[1])
    \/ IsBefore(to, v[1])

\* VerifyNoWriteBetween: a write before `from` counts if it is in a loop around
\* `from` but not around `to` and uses another layout, one after `to` if it is
\* in a loop around `to` but not around `from`.
NoWriteBetween(name, from, to, layout, allowed_write) ==
  \A v \in ToSet(buffers[name].writes) :
    LET o == v[1]
        around(point) == NumCommonLoops(spaces[o].names, point.nest)
        both == NumCommonLoops(from.nest, to.nest)
        written == storage[v].layout
    IN  \/ o = allowed_write
        \/ /\ IsAfter(from, o)
           /\ \/ around(from) <= both
              \/ Null \in {layout, written}
              \/ ResizeUseDomain(written, around(from)) = ResizeUseDomain(layout, around(from))
        \/ ~IsAfter(from, o) /\ IsBefore(to, o) /\ around(to) <= both

\* Position of the outermost loop taken to carry the fby, from 0.
FirstCarryLoop(o) ==
  LET loops == MappingToLoops(spaces[o])
  IN  Min({Size(loops)} \cup
          {l - 1 : l \in {k \in DOMAIN loops.es :
                            MinDomainSize(MappingOf(0, <<loops.es[k]>>)) >= program[o].parallel}})

InitUsePoint(o, use) ==
  LET carry == FirstCarryLoop(o)
  IN  IF Len(use.nest) > carry /\ use.nest[carry + 1] = spaces[o].names[carry + 1]
      THEN [use EXCEPT !.nest = SubSeq(@, 1, carry)]
      ELSE use

\* VerifyValueNotOverwritten: the producers of a value are followed to where
\* they are stored, each fby once around its loop.
RECURSIVE NotOverwritten(_, _, _, _)
NotOverwritten(name, work_list, visited_fby, allowed_write) ==
  work_list = <<>> \/
  LET rest == Front(work_list)
      v == Last(work_list).value
      use == Last(work_list).use
      o == v[1]
      op == program[o]
      carry == FirstCarryLoop(o)
      operand(a, point) == [value |-> op.args[a].v, use |-> point]
      carried == IF o \in visited_fby \/ carry = Len(spaces[o].names) THEN <<>>
                 ELSE <<operand(2, EndPoint(spaces[o].names[carry + 1]))>>
  IN  CASE IsCompute(op) ->
             /\ NoWriteBetween(name, Point(o, "after", spaces[o].names), use,
                               storage[v].layout, allowed_write)
             /\ NotOverwritten(name, rest, visited_fby, allowed_write)
        [] op.kind = "proj" ->
             NotOverwritten(name, Append(rest, operand(1, use)), visited_fby, allowed_write)
        [] op.kind = "from_memref" ->
             /\ NoWriteBetween(name, Point(0, "before", <<>>), use,
                               FromToMemRefLayout(op, spaces[o]), allowed_write)
             /\ NotOverwritten(name, rest, visited_fby, allowed_write)
        [] op.kind = "fby" ->
             NotOverwritten(name,
                            Append(rest, operand(1, InitUsePoint(o, use))) \o carried,
                            visited_fby \cup {o}, allowed_write)

\* The operands of compute operations that are read from a buffer.
Reads(name) ==
  {u \in UNION {Uses(program, v) : v \in ToSet(buffers[name].values)} :
     IsCompute(program[u[1]])}

ReadsAreSafe(name) ==
  \A u \in Reads(name) :
    NotOverwritten(name,
                   <<[value |-> program[u[1]].args[u[2]].v,
                      use |-> Point(u[1], "before", spaces[u[1]].names)]>>, {}, u[1])

\* What a to_memref returns is still in the buffer after the program.
OutputIsSafe(name) ==
  \A o \in DOMAIN program :
    program[o].kind = "to_memref" /\ program[o].buffer = name =>
      NotOverwritten(name,
                     <<[value |-> program[o].args[2].v,
                        use |-> Point(0, "after", <<>>)]>>, {}, 0)

ValuesNotOverwritten ==
  \A name \in DOMAIN buffers : ReadsAreSafe(name) /\ OutputIsSafe(name)

====
