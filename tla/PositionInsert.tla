--------------------------- MODULE PositionInsert ---------------------------
(***************************************************************************)
(* How instrumentFunction() inserts code at a position, step by step.  The *)
(* position is compared with the length of the vector, and the iterator    *)
(* then walks over the list, which does not have the vector's holes.  List *)
(* and iterator are represented as in MatchInsert.                         *)
(***************************************************************************)
EXTENDS StackIR

CONSTANTS
  Inputs,    \* the Stack IR the function may have
  Positions  \* the positions that may be given

ASSUME PositionInsertConstants == Inputs \subseteq IRVector /\ Positions \subseteq Nat

VARIABLES
  operation, pos,  \* arguments of the call
  original,        \* the Stack IR of the function when the call begins
  stackIR,         \* *func->stackIR
  before, after,   \* the list, up to the iterator and from the iterator on
  advanced,        \* how often the iterator has been advanced
  pc

vars == <<operation, pos, original, stackIR, before, after, advanced, pc>>

input == <<operation, pos, original>>

\* The type invariant: the list has no holes.
TypeOK ==
  /\ operation \in Operation
  /\ pos \in Nat
  /\ original \in IRVector /\ stackIR \in IRVector
  /\ before \in Seq(Inst) /\ after \in Seq(Inst)
  /\ advanced \in 0..pos
  /\ pc \in {"check", "advance", "done", "refused"}

Init ==
  /\ operation \in Operation
  /\ pos \in Positions
  /\ original \in Inputs
  /\ stackIR = original
  /\ before = <<>> /\ after = <<>>
  /\ advanced = 0
  /\ pc = "check"

Refuse ==
  /\ pc = "check" /\ pos > Len(stackIR)
  /\ pc' = "refused"
  /\ UNCHANGED <<input, stackIR, before, after, advanced>>

Start ==
  /\ pc = "check" /\ pos <= Len(stackIR)
  /\ after' = vec2list(stackIR)
  /\ pc' = "advance"
  /\ UNCHANGED <<input, stackIR, before, advanced>>

Advance ==
  /\ pc = "advance" /\ advanced < pos /\ after # <<>>
  /\ before' = Append(before, Head(after))
  /\ after' = Tail(after)
  /\ advanced' = advanced + 1
  /\ UNCHANGED <<input, stackIR, pc>>

\* To advance past end() is undefined; the iterator may come to stand anywhere
\* in the list.
AdvancePastEnd ==
  /\ pc = "advance" /\ advanced < pos /\ after = <<>>
  /\ \E at \in 0..Len(before) :
       /\ before' = SubSeq(before, 1, at)
       /\ after' = SubSeq(before, at + 1, Len(before))
  /\ advanced' = pos
  /\ UNCHANGED <<input, stackIR, pc>>

\* Mutant: the fragment replaces what follows the position.
Splice_Truncates ==
  /\ pc = "advance" /\ advanced = pos
  /\ before' = before \o PostList(operation)
  /\ stackIR' = before'
  /\ pc' = "done"
  /\ UNCHANGED <<input, after, advanced>>

\* splice() and the copy back to the function
Splice ==
  /\ pc = "advance" /\ advanced = pos
  /\ before' = before \o PostList(operation)
  /\ stackIR' = before' \o after
  /\ pc' = "done"
  /\ UNCHANGED <<input, after, advanced>>

\* The call has returned.
Returned == pc \in {"done", "refused"} /\ UNCHANGED vars

Next == Refuse \/ Start \/ Advance \/ AdvancePastEnd \/ Splice \/ Returned

Spec == Init /\ [][Next]_vars

-----------------------------------------------------------------------------
\* ir is code with the fragment of the operation after its at-th instruction.
InsertedAt(at, code, ir) ==
  ir = SubSeq(code, 1, at) \o vec2list(operation.post_instructions.instructions)
         \o SubSeq(code, at + 1, Len(code))

(***************************************************************************)
(* Whatever the position, an accepted call inserts the fragment once, as   *)
(* one piece, and keeps all the code; and it inserts it after instruction  *)
(* pos when the function has that many.  A refused call changes nothing.   *)
(* The place is not determined for a position between the number of        *)
(* instructions and the length of the vector, which is accepted too.       *)
(***************************************************************************)
InsertedOnce ==
  LET code == vec2list(original)
  IN  /\ pc = "done" =>
           IF pos <= Len(code) THEN InsertedAt(pos, code, stackIR)
           ELSE \E at \in 0..Len(code) : InsertedAt(at, code, stackIR)
      /\ pc = "refused" => stackIR = original
=============================================================================
