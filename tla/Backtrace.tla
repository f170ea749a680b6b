------------------------------ MODULE Backtrace ------------------------------
(***************************************************************************)
(* Inspection command "bt".  The code of the inspection is inserted at its *)
(* line; hooks are put around calls, which log the number of the function  *)
(* called and, after the call, -1; the instrumented program runs until it  *)
(* comes to the place of the inspection and writes the log to a file; the  *)
(* tool replays the file and prints what is left.                          *)
(*                                                                         *)
(* An instruction of the instrumented program is a line of the original    *)
(* code or a line of the inserted code; the hooks of a call are stages of  *)
(* its execution.  WasmProgram describes the program without all this.     *)
(***************************************************************************)
EXTENDS ProgramText, FiniteSets

CONSTANTS
  LoadData, GetCwdFd,  \* the helper functions $__instr_load_data and $__instr_get_cwd_fd
  Room                 \* how many numbers fit between the buffer and the end of its page

ASSUME BacktraceConstants ==
  /\ Func \cap {LoadData, GetCwdFd, None} = {} /\ LoadData # None
  /\ Room \in Nat

VARIABLES
  program,
  inspect_func_name, inspect_line_num,
  entries,        \* what the runtime has still to call
  frames,         \* the open calls: function, line and stage
  loaded,         \* how often $__instr_load_data has run; 2 is twice or more
  log,            \* the numbers in the buffer
  ciovec,         \* the part of the buffer that is written to the cache file
  called,         \* history: what has been called by a hooked call
  ifile,          \* what print() has still to read
  backtrace_idx,
  printed,        \* the lines printed, without the last one
  status

place == <<program, inspect_func_name, inspect_line_num>>
machine == <<entries, frames, loaded, log, called>>
replay == <<ifile, backtrace_idx, printed>>
vars == <<place, machine, ciovec, replay, status>>

-----------------------------------------------------------------------------
(***************************************************************************)
(* The command: every function gets a number, and imports are known by the *)
(* name they have outside.  (0 is the first number.)                       *)
(***************************************************************************)
names ==
  [k \in DOMAIN program.functions |->
     IF program.functions[k].base # None THEN program.functions[k].base
     ELSE program.functions[k].name]

\* Mutant: numbers begin with 1.
funcname_map_FromOne(target) ==
  LET found == {k \in DOMAIN names : names[k] = target}
  IN  IF found = {} THEN -2 ELSE CHOOSE k \in found : \A j \in found : k <= j

\* Mutant: the placeholder stays for a name that is not found.
funcname_map_Placeholder(target) ==
  LET found == {k \in DOMAIN names : names[k] = target}
  IN  IF found = {} THEN -1
      ELSE (CHOOSE k \in found : \A j \in found : k <= j) - 1

\* What is pushed before a call: the first with that name has been kept.
funcname_map(target) ==
  LET found == {k \in DOMAIN names : names[k] = target}
  IN  IF found = {} THEN -2
      ELSE (CHOOSE k \in found : \A j \in found : k <= j) - 1

(***************************************************************************)
(* do_pre_instrument() inserts the code of the inspection after its line.  *)
(***************************************************************************)
Inserted(op, to) == [op |-> op, to |-> to, label |-> 0]

DumpCode == <<Inserted("ciovec", None), Inserted("call", GetCwdFd), Inserted("proc_exit", None)>>

Code(f) ==
  LET c == program.code[f]
  IN  IF f # inspect_func_name THEN c
      ELSE SubSeq(c, 1, inspect_line_num) \o DumpCode
             \o SubSeq(c, inspect_line_num + 1, Len(c))

\* Mutant: labels keep their lines.
Shifted_Not(f, k) == k

\* Where line k of the original code has come to
Shifted(f, k) ==
  IF f = inspect_func_name /\ k > inspect_line_num THEN k + Len(DumpCode) ELSE k

\* Mutant: the calls on the line of the inspection are not hooked.
Hooked_Before(f, k) ==
  Code(f)[k].op = "call" /\ (f = inspect_func_name => k < inspect_line_num)

\* _make_bt_instrument(), inst_visitor: the calls that are hooked.  Every
\* function of the original code is in the scope; the added ones are not.
Hooked(f, k) ==
  Code(f)[k].op = "call" /\ (f = inspect_func_name => k <= inspect_line_num)

\* A "_start" begins with the call of $__instr_load_data.
Enter(f) == [func |-> f, pc |-> 1, stage |-> IF f = program.start THEN "load" ELSE "pre"]

\* Mutant: nothing loads the data without "_start".
InstrumentedEntries_Unloaded(p) == (IF p.init = None THEN <<>> ELSE <<p.init>>) \o <<p.main>>

\* Without "_start", addStart() makes $__instr_load_data the start function.
InstrumentedEntries(p) ==
  IF p.start # None THEN (IF p.init = None THEN <<>> ELSE <<p.init>>) \o <<p.main>>
  ELSE <<LoadData, p.main>>

-----------------------------------------------------------------------------
Stage == {"load", "pre", "inst", "post"}

\* A number of the log: a function, a return (-1) or a function without a name (-2)
Number == -2..(Len(names) - 1)

\* The type invariant
TypeOK ==
  /\ program \in Programs
  /\ inspect_func_name \in Defined(program)
  /\ inspect_line_num \in 0..Len(program.code[inspect_func_name])
  /\ entries \in Seq(Func \cup {LoadData})
  /\ frames \in Seq([func : Defined(program), pc : Nat \ {0}, stage : Stage])
  /\ Len(frames) <= MaxDepth
  /\ loaded \in 0..2
  /\ log \in Seq(Number) /\ Len(log) <= Room
  /\ ciovec \in Seq(Number) /\ ifile \in Seq(Number)
  /\ called \subseteq Func \cup {GetCwdFd}
  /\ backtrace_idx \in Seq(0..(Len(names) - 1))
  /\ printed \in Seq(Func)
  /\ status \in {"running", "ended", "trap", "failed", "reading", "printed", "aborted", "undefined"}

Init ==
  /\ program \in Programs
  /\ inspect_func_name \in Defined(program)
  /\ inspect_line_num \in 0..Len(program.code[inspect_func_name])
  /\ entries = InstrumentedEntries(program)
  /\ frames = <<>>
  /\ loaded = 0
  /\ log = <<>> /\ called = {}
  /\ ciovec = <<>>
  /\ ifile = <<>> /\ backtrace_idx = <<>> /\ printed = <<>>
  /\ status = "running"

-----------------------------------------------------------------------------
(***************************************************************************)
(* The instrumented program                                                *)
(***************************************************************************)
n == Len(frames)
top == frames[n]
inst == Code(top.func)[top.pc]

\* The innermost function has not come to its end.
Running == status = "running" /\ n > 0 /\ top.pc <= Len(Code(top.func))

\* The next instruction is of the given kind; the hook before it is done.
At(op) ==
  /\ Running /\ inst.op = op
  /\ IF Hooked(top.func, top.pc) THEN top.stage = "inst" ELSE top.stage \in {"pre", "inst"}

Goto(k) == [top EXCEPT !.pc = k, !.stage = "pre"]

\* A call that has been made goes on with its second hook, if it has one.
AfterCall(frame) ==
  IF Hooked(frame.func, frame.pc) THEN [frame EXCEPT !.stage = "post"]
  ELSE [frame EXCEPT !.pc = @ + 1, !.stage = "pre"]

Top(frame) == frames' = [frames EXCEPT ![n] = frame]

Begin ==
  /\ status = "running" /\ frames = <<>> /\ entries # <<>>
  /\ entries' = Tail(entries)
  /\ IF Head(entries) = LoadData
     THEN loaded' = 1 /\ UNCHANGED frames
     ELSE frames' = <<Enter(Head(entries))>> /\ UNCHANGED loaded
  /\ UNCHANGED <<place, log, called, ciovec, replay, status>>

\* Code of the program has run before this call of "_start".
NotFirst == n > 1 \/ program.init # None

\* Each $__instr_load_data takes a new page for the buffer and keeps the length
\* of the log: what has been logged until then reads as zeros.  It traps when
\* the program has already grown its memory to the maximum.
Load ==
  /\ status = "running" /\ n > 0 /\ top.stage = "load"
  /\ \/ /\ loaded' = IF loaded = 0 THEN 1 ELSE 2
        /\ log' = [k \in DOMAIN log |-> 0]
        /\ Top([top EXCEPT !.stage = "pre"])
        /\ UNCHANGED status
     \/ /\ NotFirst
        /\ status' = "trap"
        /\ UNCHANGED <<loaded, log, frames>>
  /\ UNCHANGED <<place, entries, called, ciovec, replay>>

\* The hooks store at $__instr_iobuf_addr, which is -1 until it is loaded, plus
\* the length of the log.  Past the page the store traps, or hits memory that
\* the program has got since; what happens then is left out.
Store(number) ==
  IF loaded > 0 /\ Len(log) < Room
  THEN log' = Append(log, number) /\ UNCHANGED status
  ELSE status' = "trap" /\ UNCHANGED log

HookBefore ==
  /\ Running /\ top.stage = "pre" /\ Hooked(top.func, top.pc)
  /\ Store(funcname_map(inst.to))
  /\ Top([top EXCEPT !.stage = "inst"])
  /\ called' = called \cup {inst.to}
  /\ UNCHANGED <<place, entries, loaded, ciovec, replay>>

HookAfter ==
  /\ Running /\ top.stage = "post"
  /\ Store(-1)
  /\ Top(Goto(top.pc + 1))
  /\ UNCHANGED <<place, entries, loaded, called, ciovec, replay>>

Other ==
  /\ At("other") \/ At("br_if")
  /\ Top(Goto(top.pc + 1))
  /\ UNCHANGED <<place, entries, loaded, log, called, ciovec, replay, status>>

Branch ==
  /\ At("br_if")
  /\ Top(Goto(Shifted(top.func, inst.label)))
  /\ UNCHANGED <<place, entries, loaded, log, called, ciovec, replay, status>>

\* An import or a helper function: it returns at once, or an import ends the program.
CallOut ==
  /\ At("call") /\ inst.to \notin Defined(program)
  /\ \/ Top(AfterCall(top)) /\ UNCHANGED status
     \/ inst.to # GetCwdFd /\ status' = "ended" /\ UNCHANGED frames
  /\ UNCHANGED <<place, entries, loaded, log, called, ciovec, replay>>

Call ==
  /\ \E f \in Defined(program) :
       /\ \/ At("call") /\ f = inst.to
          \/ At("call_indirect") /\ f \in program.table
       /\ IF n < MaxDepth
          THEN frames' = Append([frames EXCEPT ![n].stage = "inst"], Enter(f)) /\ UNCHANGED status
          ELSE status' = "trap" /\ UNCHANGED frames
  /\ UNCHANGED <<place, entries, loaded, log, called, ciovec, replay>>

Return ==
  /\ status = "running" /\ n > 0 /\ top.pc > Len(Code(top.func)) /\ top.stage # "load"
  /\ frames' = IF n = 1 THEN <<>>
               ELSE [SubSeq(frames, 1, n - 1) EXCEPT ![n - 1] = AfterCall(@)]
  /\ UNCHANGED <<place, entries, loaded, log, called, ciovec, replay, status>>

Finish ==
  /\ status = "running" /\ frames = <<>> /\ entries = <<>>
  /\ status' = "ended"
  /\ UNCHANGED <<place, machine, ciovec, replay>>

(***************************************************************************)
(* The code of the inspection: the length of the log is fixed before the   *)
(* helper functions are called, and the program exits with 10.  Dump has   *)
(* what the helper functions do and how they fail; here they succeed.      *)
(***************************************************************************)
\* While $__instr_base_addr is still -1 the stores and the helper functions use
\* addresses around it: the program traps, or a helper fails and it exits with 12.
Ciovec ==
  /\ At("ciovec")
  /\ IF loaded > 0 THEN ciovec' = log /\ UNCHANGED status
                   ELSE status' \in {"trap", "failed"} /\ UNCHANGED ciovec
  /\ Top(Goto(top.pc + 1))
  /\ UNCHANGED <<place, entries, loaded, log, called, replay>>

ProcExit ==
  /\ At("proc_exit")
  /\ status' = "reading"
  /\ ifile' = ciovec
  /\ UNCHANGED <<place, machine, ciovec, backtrace_idx, printed>>

-----------------------------------------------------------------------------
(***************************************************************************)
(* InspectPrintInfo::print(), one iteration of its loop at a time.  To pop *)
(* from an empty vector is undefined.                                      *)
(***************************************************************************)
ReadNumber ==
  /\ status = "reading" /\ ifile # <<>>
  /\ ifile' = Tail(ifile)
  /\ \/ /\ Head(ifile) >= 0
        /\ backtrace_idx' = Append(backtrace_idx, Head(ifile))
        /\ UNCHANGED status
     \/ /\ Head(ifile) = -1
        /\ IF backtrace_idx # <<>>
           THEN /\ backtrace_idx' = SubSeq(backtrace_idx, 1, Len(backtrace_idx) - 1)
                /\ UNCHANGED status
           ELSE status' = "undefined" /\ UNCHANGED backtrace_idx
     \/ /\ Head(ifile) = -2
        /\ status' = "aborted" /\ UNCHANGED backtrace_idx
  /\ UNCHANGED <<place, machine, ciovec, printed>>

PrintBacktrace ==
  /\ status = "reading" /\ ifile = <<>>
  /\ printed' = LET b == Len(backtrace_idx)
                IN  [k \in 1..b |-> names[backtrace_idx[b + 1 - k] + 1]]
  /\ status' = "printed"
  /\ UNCHANGED <<place, machine, ciovec, ifile, backtrace_idx>>

\* Nothing more happens.
Stopped == status \notin {"running", "reading"} /\ UNCHANGED vars

Next ==
  \/ Begin \/ Load \/ HookBefore \/ HookAfter
  \/ Other \/ Branch \/ CallOut \/ Call \/ Return \/ Finish
  \/ Ciovec \/ ProcExit
  \/ ReadNumber \/ PrintBacktrace
  \/ Stopped

Spec == Init /\ [][Next]_vars

-----------------------------------------------------------------------------
(***************************************************************************)
(* What is printed are the open calls, the innermost first, down to the    *)
(* function that the runtime has called, which is not named.  Missing are  *)
(* those that were made through the table, which the documentation says,   *)
(* and those that were made after the place of the inspection: a function  *)
(* that calls itself there is entered without a trace.  This is so if      *)
(* "_start" is run once.                                                   *)
(***************************************************************************)
Traced(j) ==
  LET caller == frames[j - 1]
  IN  /\ Code(caller.func)[caller.pc].op = "call"
      /\ ~(caller.func = inspect_func_name /\ caller.pc > inspect_line_num + Len(DumpCode))

ShowsCallStack ==
  status = "printed" /\ loaded = 1 =>
    LET shown == {j \in 2..n : Traced(j)}
    IN  /\ Len(printed) = Cardinality(shown)
        /\ \A j \in shown : printed[Cardinality({i \in shown : j <= i})] = frames[j].func

(***************************************************************************)
(* The replay never pops from an empty vector, and the assertion on -2     *)
(* fails exactly when the program has called, before the inspection, an    *)
(* import by a name that no function has outside (unless a second "_start" *)
(* has cleared the log).                                                   *)
(***************************************************************************)
Nameless(f) == \A k \in DOMAIN names : names[k] # f

FailsForImportsOnly ==
  /\ status # "undefined"
  /\ status = "aborted" => \E f \in called : Nameless(f)
  /\ status = "printed" /\ loaded = 1 => \A f \in called : ~Nameless(f)

(***************************************************************************)
(* The program ends with a trap or with 12 for one of four reasons only:   *)
(* its own calls are too deep, the log has filled its page, code was run   *)
(* before "_start" or without it in a program that has a "_start", or      *)
(* "_start" was not the first to run.                                      *)
(***************************************************************************)
CrashIsExplained ==
  status \in {"trap", "failed"} =>
    \/ n = MaxDepth
    \/ Len(log) = Room
    \/ loaded = 0 /\ program.start # None /\ frames[1].func # program.start
    \/ top.stage = "load" /\ NotFirst

(***************************************************************************)
(* The instrumented program does what the original one does until it       *)
(* stops: the same calls, returns and branches in the same order.  It does *)
(* not when it has no "_start" and a start function of its own: addStart() *)
(* replaces it and it is never called.                                     *)
(***************************************************************************)
OriginalLine(frame) ==
  LET k == IF frame.stage = "post" THEN frame.pc + 1 ELSE frame.pc
      behind == k - inspect_line_num
  IN  IF frame.func # inspect_func_name \/ behind <= 0 THEN k
      ELSE IF behind <= Len(DumpCode) THEN inspect_line_num + 1
      ELSE k - Len(DumpCode)

Original == INSTANCE WasmProgram WITH
  entries <- IF entries # <<>> /\ Head(entries) = LoadData THEN Tail(entries) ELSE entries,
  stack <- [j \in 1..n |-> [func |-> frames[j].func, pc |-> OriginalLine(frames[j])]]

ReplacesStart == program.init # None /\ program.start = None

Transparent ==
  /\ ReplacesStart \/ Original!Init
  /\ [][ReplacesStart \/ Original!Next]_(Original!vars)
=============================================================================
