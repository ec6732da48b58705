----------------------- MODULE MCMaterializeInstances -----------------------
(***************************************************************************)
(* MaterializeInstances over every decision on the instances and copies of  *)
(* a range, a producer that iterates on it, a user of both and an exit.     *)
(***************************************************************************)
EXTENDS MaterializeInstances, TLC

CONSTANTS
  range, producer, user, exit,
  CyclicCopies,    \* a chain of copies may come back to itself
  EmptyProducers   \* an operation without instances may be read by one with instances

MCOps == {range, producer, user, exit}

(* The producer reads a value of its own user in a loop (through an fby, in *)
(* a graph region) or a value from outside, and the exit may read the user. *)
Operands(inner, last) ==
  (range :> <<>>) @@ (producer :> <<range, inner>>) @@ (user :> <<range, producer>>)
    @@ (exit :> last)

Rank == (range :> 0) @@ (producer :> 1) @@ (user :> 1) @@ (exit :> 0)

Unspecified == [specified |-> FALSE, operands |-> <<>>]
Reading(attrs) == [specified |-> TRUE, operands |-> attrs]

Readings(dims, values) == {Reading(<<d, v>>) : d \in dims, v \in values}

RangeInstances == {<<>>, <<Reading(<<>>)>>, <<Reading(<<>>), Reading(<<>>)>>}

ProducerInstances ==
  {<<>>, <<Unspecified>>}
    \union {<<a>> : a \in Readings({Instance(0), Instance(1)}, {Instance(0), Unit})}
    \union {<<a, b>> : a \in Readings({Instance(0), Instance(1)}, {Instance(0)}),
                       b \in Readings({Instance(0), Instance(1)}, {Instance(0)})}

UserInstances ==
  {<<>>, <<Unspecified>>}
    \union {<<a>> : a \in Readings({Instance(0), Instance(1)},
                                   {Unit, Instance(0), Instance(1), Copy(0), Copy(1)})}

CopyAttrs == {Null, Unit, Instance(0), Instance(1), Copy(0), Copy(1)}
Copies == {<<>>} \union {<<a>> : a \in CopyAttrs} \union (CopyAttrs \X CopyAttrs)

HasAttr == {[op \in MCOps |-> op # absent] : absent \in {External, range, producer, user, exit}}

AllPrograms ==
  [order : {<<range, producer, user, exit>>, <<user, producer, range, exit>>},
   operands : {Operands(inner, last) : inner \in {External, user}, last \in {<<>>, <<user>>}},
   rank : {Rank},
   hasInstances : HasAttr,
   instances : {(range :> r) @@ (producer :> p) @@ (user :> u) @@ (exit :> e) :
                  r \in RangeInstances, p \in ProducerInstances, u \in UserInstances,
                  e \in {<<>>, <<Reading(<<>>)>>, <<Reading(<<Instance(0)>>)>>}},
   copies : {(range :> <<>>) @@ (producer :> c) @@ (user :> <<>>) @@ (exit :> <<>>) : c \in Copies}]

(* No chain of copies is a cycle.                                           *)
ChainsEnd(p) ==
  ~ \E c \in DOMAIN p.copies[producer] :
      LET next == p.copies[producer][c]
      IN  /\ next[1] = "copy"
          /\ next[2] + 1 = c \/ p.copies[producer][next[2] + 1] = Copy(c - 1)

MCPrograms ==
  {p \in AllPrograms :
     /\ \A o \in MCOps : ~ p.hasInstances[o] => p.instances[o] = <<>>
     /\ IsVerified(p)
     /\ CyclicCopies \/ ChainsEnd(p)
     /\ EmptyProducers \/ EmptyOpsAreUnused(p)}

(* The hypothesis of the theorems holds of the programs of the run.          *)
ASSUME UsedOpsHaveInstances == ~ EmptyProducers => \A p \in Programs : EmptyOpsAreUnused(p)
=============================================================================
