----------------------------- MODULE MatchInsert -----------------------------
(***************************************************************************)
(* How instrument() inserts code, step by step.                            *)
(*                                                                         *)
(* The Stack IR of one function at a time is copied to a std::list, which  *)
(* is changed while an iterator walks over it, and is copied back.  The    *)
(* list and the iterator i are the pair of sequences before and after: the *)
(* list is before \o after, and i stands on the first element of after, or *)
(* at end() when after is empty.  splice(i, l) inserts l in front of i and *)
(* leaves i on its element.                                                *)
(***************************************************************************)
EXTENDS StackIR

CONSTANTS
  scope,    \* the function scope
  defined,  \* the functions that are not imports
  Inputs,   \* the Stack IR the functions may have when the call begins
  OperationLists  \* the arguments the call may have

ASSUME MatchInsertConstants ==
  /\ scope \subseteq Func /\ defined \subseteq Func
  /\ Inputs \subseteq [Func -> IRVector]
  /\ OperationLists \subseteq Seq(Operation)

VARIABLES
  operations,  \* the argument of the call
  original,    \* the Stack IR of every function when the call begins
  stackIR,     \* *func->stackIR
  todo,        \* the functions that are still to be visited
  func,        \* the function being changed
  before,      \* the list up to the iterator
  after,       \* the list from the iterator on
  op_num,      \* the operation compared next, from 1
  pc

vars == <<operations, original, stackIR, todo, func, before, after, op_num, pc>>

input == <<operations, original>>

\* The type invariant: the list has no holes, and no operation past the last is
\* compared.
TypeOK ==
  /\ operations \in Seq(Operation)
  /\ original \in [Func -> IRVector] /\ stackIR \in [Func -> IRVector]
  /\ todo \subseteq Func
  /\ func \in Func
  /\ before \in Seq(Inst) /\ after \in Seq(Inst)
  /\ op_num \in 1..(Len(operations) + 1)
  /\ pc \in {"functions", "match", "advance", "done"}

Init ==
  /\ operations \in OperationLists
  /\ original \in Inputs
  /\ stackIR = original
  /\ todo = Func
  /\ func \in Func
  /\ before = <<>> /\ after = <<>>
  /\ op_num = 1
  /\ pc = "functions"

-----------------------------------------------------------------------------
(***************************************************************************)
(* instrument(): iterDefinedFunctions() with func_visitor.                 *)
(***************************************************************************)
\* Mutant: the next function is not fetched after an early return.
Pass_Stays(f) ==
  /\ pc = "functions" /\ f \in todo /\ f \notin scope \cap defined
  /\ UNCHANGED vars

\* The function is imported or not in the scope.
Pass(f) ==
  /\ pc = "functions" /\ f \in todo /\ f \notin scope \cap defined
  /\ todo' = todo \ {f}
  /\ UNCHANGED <<input, stackIR, func, before, after, op_num, pc>>

Visit(f) ==
  /\ pc = "functions" /\ f \in todo \cap scope \cap defined
  /\ func' = f
  /\ before' = <<>> /\ after' = vec2list(stackIR[f])
  /\ op_num' = 1
  /\ pc' = "match"
  /\ UNCHANGED <<input, stackIR, todo>>

\* An operation remains to be compared with the instruction at i.
Comparing == pc = "match" /\ after # <<>> /\ op_num <= Len(operations)

NoMatch ==
  /\ Comparing
  /\ ~exp_match_targets(Head(after), operations[op_num].targets)
  /\ op_num' = op_num + 1
  /\ UNCHANGED <<input, stackIR, todo, func, before, after, pc>>

\* Mutant: the iterator is not moved before post_instructions are spliced.
Insert_NoAdvance ==
  LET p == operations[op_num]
  IN
  /\ Comparing
  /\ exp_match_targets(Head(after), p.targets)
  /\ before' = before \o PreList(p) \o PostList(p)
  /\ pc' = "advance"
  /\ UNCHANGED <<input, stackIR, todo, func, after, op_num>>

\* pre_instructions are spliced at i, i is advanced by 1, post_instructions are
\* spliced, i is advanced by -1, and the loop over the operations is left.
Insert ==
  LET p == operations[op_num]
      walked == Append(before \o PreList(p), Head(after)) \o PostList(p)
      n == Len(walked)
  IN
  /\ Comparing
  /\ exp_match_targets(Head(after), p.targets)
  /\ before' = SubSeq(walked, 1, n - 1)
  /\ after' = <<walked[n]>> \o Tail(after)
  /\ pc' = "advance"
  /\ UNCHANGED <<input, stackIR, todo, func, op_num>>

\* i++
Advance ==
  /\ \/ pc = "advance"
     \/ pc = "match" /\ after # <<>> /\ op_num > Len(operations)
  /\ before' = Append(before, Head(after))
  /\ after' = Tail(after)
  /\ op_num' = 1
  /\ pc' = "match"
  /\ UNCHANGED <<input, stackIR, todo, func>>

WriteBack ==
  /\ pc = "match" /\ after = <<>>
  /\ stackIR' = [stackIR EXCEPT ![func] = before]
  /\ todo' = todo \ {func}
  /\ pc' = "functions"
  /\ UNCHANGED <<input, func, before, after, op_num>>

Return ==
  /\ pc = "functions" /\ todo = {}
  /\ pc' = "done"
  /\ UNCHANGED <<input, stackIR, todo, func, before, after, op_num>>

\* The call has returned.
Returned == pc = "done" /\ UNCHANGED vars

-----------------------------------------------------------------------------
Next ==
  \/ \E f \in Func : Pass(f) \/ Visit(f)
  \/ NoMatch
  \/ Insert
  \/ Advance
  \/ WriteBack
  \/ Return
  \/ Returned

\* One thread runs the call; nothing blocks it.
Fairness == WF_vars(Next)

Spec == Init /\ [][Next]_vars /\ Fairness

-----------------------------------------------------------------------------
W == INSTANCE Weaving WITH code <- stackIR

(***************************************************************************)
(* instrument() weaves: nothing that it inserts is matched in turn, the    *)
(* first operation with a matching target is taken, and the instructions   *)
(* of the original code keep their order.                                  *)
(***************************************************************************)
Weaves == W!Spec

(***************************************************************************)
(* When the call has returned every function of the scope is its original  *)
(* code, woven once, and every other function is untouched.                *)
(***************************************************************************)
WovenOnce ==
  pc = "done" =>
    \A f \in Func :
      IF f \in scope \cap defined
      THEN W!IsWoven(operations, vec2list(original[f]), stackIR[f])
      ELSE stackIR[f] = original[f]

(***************************************************************************)
(* The call returns although the list grows while it is walked over and    *)
(* the inserted instructions may match the targets themselves.             *)
(***************************************************************************)
Returns == <>(pc = "done")
=============================================================================
