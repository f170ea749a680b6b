------------------------------- MODULE Weaving -------------------------------
(***************************************************************************)
(* What instrument() promises (README, "Match-and-Insert"): in the         *)
(* functions of the scope every instruction that matches a target stands   *)
(* between the fragments of the first operation it matches, the other      *)
(* instructions stand as they were, and nothing else is inserted.  Every   *)
(* function is done once.                                                  *)
(***************************************************************************)
EXTENDS StackIR

CONSTANTS scope, defined  \* the scope and the functions that are not imports

VARIABLES
  operations,  \* the operations of the call
  code,        \* code[f]: the Stack IR of f
  todo         \* the functions not done yet

\* piece is what stands for instruction x after the call.
StandsFor(ops, x, piece) ==
  LET hits == {k \in DOMAIN ops : exp_match_targets(x, ops[k].targets)}
  IN  \/ hits = {} /\ piece = <<x>>
      \/ \E first \in hits :
           /\ \A h \in hits : first <= h
           /\ piece = Append(vec2list(ops[first].pre_instructions.instructions), x)
                        \o vec2list(ops[first].post_instructions.instructions)

\* new is made of one piece for every instruction of old; the piece for the
\* k-th one ends at place end[k].
IsWovenAt(ops, old, new, end) ==
  /\ end[0] = 0
  /\ end[Len(old)] = Len(new)
  /\ \A k \in 1..Len(old) :
       /\ end[k - 1] < end[k]
       /\ StandsFor(ops, old[k], SubSeq(new, end[k - 1] + 1, end[k]))

IsWoven(ops, old, new) ==
  \E end \in [0..Len(old) -> 0..Len(new)] : IsWovenAt(ops, old, new, end)

Weave(f) ==
  /\ f \in scope \cap defined
  /\ IsWoven(operations, vec2list(code[f]), code'[f])
  /\ code' = [code EXCEPT ![f] = code'[f]]

Pass(f) == f \notin scope \cap defined /\ UNCHANGED code

Next ==
  \E f \in todo :
    /\ Weave(f) \/ Pass(f)
    /\ todo' = todo \ {f}
    /\ UNCHANGED operations

Init ==
  /\ operations \in Seq(Operation)
  /\ code \in [Func -> IRVector]
  /\ todo \subseteq Func

Spec == Init /\ [][Next]_<<operations, code, todo>>
=============================================================================
