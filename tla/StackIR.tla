------------------------------- MODULE StackIR -------------------------------
(***************************************************************************)
(* Stack IR as the library handles it: a vector that the optimizer leaves  *)
(* holes in, the list made from it, the targets that select an             *)
(* instruction, and the instructions made from a fragment.                 *)
(***************************************************************************)
EXTENDS Integers, Sequences, FiniteSets

CONSTANTS
  Inst,         \* instructions: records with fields id, op and type
  Hole,         \* nullptr in a wasm::StackIR
  Const0,       \* a constant, as put in front of a fragment
  NullOpt,      \* std::nullopt
  ControlFlow,  \* the expression ids that _isControlFlowStructure() accepts
  Func,         \* names of the functions of the module
  Operation     \* instrument operations

\* std::vector<StackInst*>: an optimized function keeps holes.
IRVector == Seq(Inst \cup {Hole})

\* A fragment: what its text becomes as Stack IR, and how many values it finds
\* on the stack.
Fragment == [instructions : IRVector, stack_context : Nat]

ASSUME StackIRConstants ==
  /\ Hole \notin Inst
  /\ Const0 \in Inst
  /\ \A x \in Inst : {"id", "op", "type"} \subseteq DOMAIN x
  /\ \A p \in Operation : p.pre_instructions \in Fragment /\ p.post_instructions \in Fragment

-----------------------------------------------------------------------------
\* Mutant: the holes are copied.
vec2list_Holes(v) == v

\* _stack_ir_vec2list(): the vector without its holes
vec2list(v) ==
  LET live == {k \in DOMAIN v : v[k] # Hole}
      Nth(n) == CHOOSE k \in live : Cardinality({j \in live : j <= k}) = n
  IN  [n \in 1..Cardinality(live) |-> v[Nth(n)]]

-----------------------------------------------------------------------------
\* _exp_match_target(): an operator is only compared where the code knows how
\* to read one; a target that names an operator of another id matches nothing.
exp_match_target(exp, target) ==
  /\ exp.id = target.id
  /\ target.exp_op # NullOpt =>
       /\ target.id \in {"Unary", "Binary"} \cup ControlFlow
       /\ exp.op = target.exp_op
  /\ target.exp_type # NullOpt => exp.type = target.exp_type

exp_match_targets(exp, targets) == \E target \in targets : exp_match_target(exp, target)

-----------------------------------------------------------------------------
(***************************************************************************)
(* makeOperations() compiles a fragment as the body of a helper function,  *)
(* behind one constant for every value of its stack context, and takes the *)
(* Stack IR of the helper without these constants.  That the constants are *)
(* the first places of the optimized vector, with no hole or other         *)
(* instruction in front of them or between, depends on Binaryen's parser   *)
(* and optimizer and is assumed here; only their number is at stake.       *)
(***************************************************************************)
HelperIR(fragment) ==
  [n \in 1..fragment.stack_context |-> Const0] \o fragment.instructions

\* Mutant: the constants are not skipped.
Added_Whole(fragment) == HelperIR(fragment)

Added(fragment) ==
  SubSeq(HelperIR(fragment), fragment.stack_context + 1, Len(HelperIR(fragment)))

\* What is spliced before and after an instruction
PreList(p) == vec2list(Added(p.pre_instructions))
PostList(p) == vec2list(Added(p.post_instructions))
=============================================================================
