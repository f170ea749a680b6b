-------------------------- MODULE MCPositionInsert --------------------------
(***************************************************************************)
(* An instance of PositionInsert: every code of at most three places over  *)
(* two instructions and the hole, and every position up to one too many.   *)
(***************************************************************************)
EXTENDS PositionInsert

konst == [id |-> "Const", op |-> "none", type |-> "i32"]
call  == [id |-> "Call", op |-> "none", type |-> "none"]

MCInst == {konst, call}
MCFunc == {"f"}
MCInputs == UNION {[1..n -> MCInst \cup {Hole}] : n \in 0..3}
MCPositions == 0..4

None == [instructions |-> <<>>, stack_context |-> 0]

MCOperation ==
  { [ targets           |-> {},
      pre_instructions  |-> None,
      post_instructions |-> [instructions |-> ir, stack_context |-> n] ] :
    ir \in {<<>>, <<call, Hole, konst>>}, n \in 0..1 }
=============================================================================
