------------------------- MODULE MCDefaultSequence -------------------------
(* Programs of four operations, in two layouts: a loop with its dimension,   *)
(* and two loops that may nest or feed each other.  Uses may come before     *)
(* definitions in the text, as Sair allows.                                 *)
EXTENDS DefaultSequence

CONSTANTS
  SharedOperand   \* may an fby take init and value from the same operation?

MCOps == 1 .. 4

MCFbyOperands(op, S) ==
  {s \in S \X S : s[1] # s[2] \/ (SharedOperand /\ s[1] # op)}

(* At most one operand, defined anywhere in the text.                       *)
MCOperands(S) == {<<>>} \union {<<op>> : op \in S}

(* Attributes of the two compute operations.                                *)
MCAttributes == {<<Unset, Unset>>, <<0, 1>>, <<1, 0>>, <<0, 0>>, <<2, Unset>>}

(* The fby runs over the dimension that the last operation defines.         *)
MCLoop ==
  [kind     : {<<"fby", "compute", "compute", "range">>},
   domain   : {<<<<4>>, <<>>, <<>>, <<>>>>},
   operands : MCFbyOperands(1, 1 .. 3) \X MCOperands(1 .. 3) \X MCOperands(1 .. 3)
                \X MCOperands(1 .. 3),
   sequence : {<<Unset, s[1], s[2], Unset>> : s \in MCAttributes}]

(* The value of the second fby may be missing.                              *)
MCTwoLoops ==
  [kind     : {<<"compute", "fby", "compute", "fby">>},
   domain   : {<<<<>>, <<>>, <<>>, <<>>>>},
   operands : MCOperands(MCOps) \X MCFbyOperands(2, MCOps) \X MCOperands(MCOps)
                \X (MCFbyOperands(4, MCOps) \union {<<1, NullOp>>}),
   sequence : {<<s[1], Unset, s[2], Unset>> : s \in {<<Unset, Unset>>, <<1, 0>>}}]

MCPrograms == MCLoop \union MCTwoLoops
=============================================================================
