----------------------------- MODULE WasmProgram -----------------------------
(***************************************************************************)
(* A WebAssembly program as it runs: the calls that are open and the line  *)
(* each of them has come to.  Of the instructions only those that decide   *)
(* where execution goes on are told apart.                                 *)
(***************************************************************************)
EXTENDS ProgramText

VARIABLES
  program,
  entries,  \* what the runtime has still to call
  stack     \* the open calls, the innermost last

vars == <<program, entries, stack>>

Init ==
  /\ program \in Programs
  /\ entries = Entries(program)
  /\ stack = <<>>

n == Len(stack)
pc == stack[n].pc
line == program.code[stack[n].func][pc]

\* Execution is at a line of the innermost function.
At(op) == n > 0 /\ pc <= Len(program.code[stack[n].func]) /\ line.op = op

Goto(k) == stack' = [stack EXCEPT ![n].pc = k]

Begin ==
  /\ stack = <<>> /\ entries # <<>>
  /\ stack' = <<[func |-> Head(entries), pc |-> 1]>>
  /\ entries' = Tail(entries)
  /\ UNCHANGED program

Proceed ==
  /\ \/ At("other") \/ At("br_if")
     \/ At("call") /\ line.to \in Imports(program)
  /\ Goto(pc + 1)
  /\ UNCHANGED <<program, entries>>

Branch == At("br_if") /\ Goto(line.label) /\ UNCHANGED <<program, entries>>

Call ==
  /\ n < MaxDepth
  /\ \E f \in Defined(program) :
       /\ \/ At("call") /\ f = line.to
          \/ At("call_indirect") /\ f \in program.table
       /\ stack' = Append(stack, [func |-> f, pc |-> 1])
  /\ UNCHANGED <<program, entries>>

\* The end of the innermost function: its caller goes on after the call.
Return ==
  /\ n > 0 /\ pc > Len(program.code[stack[n].func])
  /\ stack' = IF n = 1 THEN <<>>
              ELSE [SubSeq(stack, 1, n - 1) EXCEPT ![n - 1].pc = @ + 1]
  /\ UNCHANGED <<program, entries>>

Next == Begin \/ Proceed \/ Branch \/ Call \/ Return

Spec == Init /\ [][Next]_vars
=============================================================================
