--------------------------- MODULE MCMatchInsert ---------------------------
(***************************************************************************)
(* An instance of MatchInsert: every code of at most three places over     *)
(* four instructions and the hole for "f"; one code with a hole for "lib", *)
(* which is out of the scope; and no code for "hook", an import that the   *)
(* caller has added to the scope.                                          *)
(***************************************************************************)
EXTENDS MatchInsert

MCInst(id, op, type) == [id |-> id, op |-> op, type |-> type]

konst == MCInst("Const", "none", "i32")
add   == MCInst("Binary", "AddInt32", "i32")
begin == MCInst("Block", "BlockBegin", "none")
end   == MCInst("Block", "BlockEnd", "none")

MCAllInst == {konst, add, begin, end}

MCControlFlow == {"Block", "If", "Loop", "Try", "TryTable"}

MCFunc == {"f", "lib", "hook"}
MCScope == {"f", "hook"}
MCDefined == {"f", "lib"}

Codes == UNION {[1..n -> MCAllInst \cup {Hole}] : n \in 0..3}

MCInputs ==
  {[f |-> c, lib |-> <<konst, Hole>>, hook |-> <<>>] : c \in Codes}

Target(id, op, type) == [id |-> id, exp_op |-> op, exp_type |-> type]

Code(instructions, n) == [instructions |-> instructions, stack_context |-> n]

Op(targets, pre, post) ==
  [targets |-> targets, pre_instructions |-> pre, post_instructions |-> post]

\* What it inserts matches its own target, before and after.
self == Op({Target("Const", "null", "i32")}, Code(<<konst, Hole>>, 0), Code(<<konst>>, 0))

\* Matches both ends of a block, and finds a value on the stack.
block == Op({Target("Block", "null", "null")}, Code(<<konst, add>>, 1), Code(<<>>, 0))

\* Matches one end of a block, or an addition; inserts a block.
ends == Op({Target("Block", "BlockEnd", "null"), Target("Binary", "AddInt32", "null")},
           Code(<<>>, 0), Code(<<Hole, begin, end>>, 0))

\* Match nothing: a Const has no operator to compare; the type differs.
never == Op({Target("Const", "none", "null"), Target("Binary", "AddInt32", "i64")},
            Code(<<konst>>, 0), Code(<<konst>>, 0))

MCOperation == {self, block, ends, never}

MCOperationLists ==
  {<<>>, <<self>>, <<never, self>>, <<block, ends>>, <<ends, block>>, <<self, ends>>}
=============================================================================
