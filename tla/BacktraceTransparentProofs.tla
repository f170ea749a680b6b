--------------------- MODULE BacktraceTransparentProofs ---------------------
(***************************************************************************)
(* The instrumented program implements the original one: every step of it  *)
(* is a step of the original program or leaves what that would see alone.  *)
(***************************************************************************)
EXTENDS BacktraceProofs

-----------------------------------------------------------------------------
(***************************************************************************)
(* The lines of the instrumented code and those of the original            *)
(***************************************************************************)
\* The line of the original code for place k of function f
LineOf(f, k) ==
  IF f # inspect_func_name \/ k <= inspect_line_num THEN k
  ELSE IF k <= inspect_line_num + 3 THEN inspect_line_num + 1
  ELSE k - 3

\* Place k of function f is in the inserted code.
IsInserted(f, k) == f = inspect_func_name /\ k \in (inspect_line_num + 1)..(inspect_line_num + 3)

LEMMA NotInserted ==
  ASSUME Placed, NEW f, NEW k \in Nat, NEW x, Fits(f, k, x),
         x.op \notin {"ciovec", "proc_exit"}, x.op = "call" => x.to # GetCwdFd
  PROVE  ~IsInserted(f, k)
<1>1. SUFFICES ASSUME f = inspect_func_name,
                      k \in (inspect_line_num + 1)..(inspect_line_num + 3)
               PROVE  FALSE
  BY DEF IsInserted
<1>2. inspect_line_num \in Int
  BY DEF Placed
<1>3. k = inspect_line_num + 1 \/ k = inspect_line_num + 2 \/ k = inspect_line_num + 3
  BY <1>1, <1>2
<1>4. QED
  BY <1>1, <1>3 DEF Fits

LEMMA OriginalLineOf ==
  ASSUME Placed, NEW g \in Frame
  PROVE  /\ g.stage = "post" => OriginalLine(g) = LineOf(g.func, g.pc + 1)
         /\ g.stage # "post" => OriginalLine(g) = LineOf(g.func, g.pc)
<1>1. inspect_line_num \in Nat /\ g.pc \in Nat \ {0} /\ g.pc + 1 \in Nat
  BY CodeTyped DEF Placed, Frame
<1>2. Len(DumpCode) = 3
  BY DEF DumpCode
<1>3. QED
  BY <1>1, <1>2 DEF OriginalLine, LineOf

LEMMA Kept ==
  ASSUME Placed, NEW f \in Defined(program), NEW k \in 1..Len(Code(f)), ~IsInserted(f, k)
  PROVE  /\ LineOf(f, k) \in 1..Len(program.code[f])
         /\ Code(f)[k] = program.code[f][LineOf(f, k)]
         /\ LineOf(f, k + 1) = LineOf(f, k) + 1
<1>1. PICK c \in Seq(Line) : c = program.code[f]
  BY ProgramIsProgram DEF Placed
<1>2. inspect_line_num \in Nat /\ Len(Code(f)) \in Nat /\ k \in Nat \ {0} /\ Len(c) \in Nat
  BY <1>1, CodeTyped
<1>3. CASE f # inspect_func_name
  BY <1>1, <1>3, CodeElsewhere DEF LineOf
<1>4. CASE f = inspect_func_name
  <2>1. PICK d : d = Code(f)
    OBVIOUS
  <2>2. /\ Len(d) = Len(c) + 3 /\ inspect_line_num \in 0..Len(c)
        /\ \A j \in 1..inspect_line_num : d[j] = c[j]
        /\ \A j \in (inspect_line_num + 1)..Len(c) : d[j + 3] = c[j]
    <3>1. /\ program \in Programs /\ inspect_func_name \in Defined(program)
          /\ inspect_line_num \in 0..Len(program.code[inspect_func_name])
          /\ c = program.code[inspect_func_name] /\ d = Code(inspect_func_name)
      BY <1>1, <1>4, <2>1 DEF Placed
    <3>2. QED
      BY ONLY <3>1, CodeHere
  <2>3. CASE k <= inspect_line_num
    BY <1>1, <1>2, <1>4, <2>1, <2>2, <2>3 DEF LineOf
  <2>4. CASE k > inspect_line_num
    <3>1. k > inspect_line_num + 3
      BY <1>2, <1>4, <2>4 DEF IsInserted
    <3>2. LineOf(f, k) = k - 3 /\ LineOf(f, k + 1) = k - 2
      BY <1>2, <1>4, <3>1 DEF LineOf
    <3>3. k - 3 \in (inspect_line_num + 1)..Len(c) /\ (k - 3) + 3 = k
      BY <1>2, <2>1, <2>2, <3>1
    <3>4. d[k] = c[k - 3]
      BY <2>2, <3>3, Zenon
    <3>5. QED
      BY <1>1, <1>2, <2>1, <3>2, <3>3, <3>4
  <2>5. QED
    BY <1>2, <2>3, <2>4
<1>5. QED
  BY <1>3, <1>4

LEMMA Passed ==
  ASSUME Placed, NEW f \in Defined(program), NEW k \in Nat, k > Len(Code(f))
  PROVE  LineOf(f, k) > Len(program.code[f])
<1>1. PICK c \in Seq(Line) : c = program.code[f]
  BY ProgramIsProgram DEF Placed
<1>2. inspect_line_num \in Nat /\ Len(Code(f)) \in Nat /\ Len(c) \in Nat
  BY <1>1, CodeTyped
<1>3. CASE f # inspect_func_name
  BY <1>1, <1>3, CodeElsewhere DEF LineOf
<1>4. CASE f = inspect_func_name
  <2>1. Len(Code(f)) = Len(c) + 3 /\ inspect_line_num \in 0..Len(c)
    BY <1>1, <1>4, CodeHere DEF Placed
  <2>2. QED
    BY <1>1, <1>2, <1>4, <2>1 DEF LineOf
<1>5. QED
  BY <1>3, <1>4

LEMMA Skipped ==
  ASSUME Placed, NEW f, NEW k \in Nat, f = inspect_func_name,
         k \in (inspect_line_num + 1)..(inspect_line_num + 2)
  PROVE  LineOf(f, k + 1) = LineOf(f, k)
<1>1. inspect_line_num \in Nat
  BY CodeTyped DEF Placed
<1>2. QED
  BY <1>1 DEF LineOf

LEMMA Landed ==
  ASSUME Placed, NEW f, NEW k \in Nat
  PROVE  LineOf(f, Shifted(f, k)) = k
<1>1. inspect_line_num \in Nat /\ Len(DumpCode) = 3
  BY CodeTyped DEF Placed, DumpCode
<1>2. QED
  BY <1>1 DEF LineOf, Shifted

-----------------------------------------------------------------------------
(***************************************************************************)
(* What the original program sees                                          *)
(***************************************************************************)
\* The variables of the original program are program, LeftToCall and Views.
View(g) == [func |-> g.func, pc |-> OriginalLine(g)]

Views == [j \in 1..n |-> View(frames[j])]

LeftToCall == IF entries # <<>> /\ Head(entries) = LoadData THEN Tail(entries) ELSE entries

LEMMA SameText ==
  /\ \A p : Original!Imports(p) = Imports(p) /\ Original!Defined(p) = Defined(p)
  /\ \A p : Original!Entries(p) = Entries(p)
BY DEF Original!Imports, Imports, Original!Defined, Defined, Original!Entries, Entries

\* The view of frames fs
Seen(fs) == [j \in 1..Len(fs) |-> View(fs[j])]

SeenFrame == [func : Defined(program), pc : Int]

LEMMA SeenTyped ==
  ASSUME Placed, NEW fs \in Seq(Frame)
  PROVE  /\ Seen(fs) \in Seq(SeenFrame) /\ Len(Seen(fs)) = Len(fs)
         /\ \A j \in 1..Len(fs) : Seen(fs)[j] = View(fs[j])
<1>1. inspect_line_num \in Nat /\ Len(fs) \in Nat
  BY CodeTyped DEF Placed
<1>2. ASSUME NEW j \in 1..Len(fs) PROVE View(fs[j]) \in SeenFrame
  <2>1. PICK g \in Frame : g = fs[j]
    BY <1>2
  <2>2. LineOf(g.func, g.pc) \in Int /\ LineOf(g.func, g.pc + 1) \in Int
    BY <1>1 DEF LineOf, Frame
  <2>3. OriginalLine(g) \in Int
    BY <2>2, OriginalLineOf
  <2>4. QED
    BY <2>1, <2>3 DEF View, Frame, SeenFrame
<1>3. Seen(fs) \in [1..Len(fs) -> SeenFrame]
  BY <1>2 DEF Seen
<1>4. Seen(fs) \in Seq(SeenFrame)
  <2> HIDE DEF Seen, SeenFrame
  <2> QED
    BY <1>1, <1>3, SeqDef
<1>5. DOMAIN Seen(fs) = 1..Len(fs) /\ \A j \in 1..Len(fs) : Seen(fs)[j] = View(fs[j])
  BY DEF Seen
<1>6. Len(Seen(fs)) \in Nat /\ DOMAIN Seen(fs) = 1..Len(Seen(fs))
  <2> HIDE DEF Seen
  <2> QED
    BY <1>4, LenProperties
<1>7. QED
  BY <1>1, <1>4, <1>5, <1>6

LEMMA ViewsTyped ==
  ASSUME TypeInv
  PROVE  /\ Views = Seen(frames) /\ Views \in Seq(SeenFrame)
         /\ Len(Views) = n /\ n \in Nat
         /\ \A j \in 1..n : Views[j] = View(frames[j])
<1>1. Placed /\ frames \in Seq(Frame) /\ n \in Nat /\ n = Len(frames)
  BY DEF TypeInv, Calls, n
<1>2. Views = Seen(frames)
  BY DEF Views, Seen, n
<1>3. QED
  BY <1>1, <1>2, SeenTyped

LEMMA ViewsNext ==
  ASSUME UNCHANGED place, NEW fs, fs = frames'
  PROVE  Views' = Seen(fs)
<1>1. inspect_func_name' = inspect_func_name /\ inspect_line_num' = inspect_line_num /\ n' = Len(fs)
  BY Stays DEF n
<1>2. Views' = [j \in 1..Len(fs) |-> [func |-> fs[j].func, pc |-> OriginalLine(fs[j])]]
  BY <1>1 DEF Views, View, OriginalLine
<1>3. Seen(fs) = [j \in 1..Len(fs) |-> [func |-> fs[j].func, pc |-> OriginalLine(fs[j])]]
  BY DEF Seen, View
<1>4. QED
  BY <1>2, <1>3

LEMMA SameDepth == ASSUME TypeInv PROVE Original!n = n
BY ViewsTyped DEF Original!n, Views, View

\* Where the original program is
LEMMA SeenTop ==
  ASSUME TypeInv, n > 0, NEW l, l = OriginalLine(top), NEW c, c = program.code[top.func]
  PROVE  /\ Original!n = n /\ Original!pc = l /\ Original!line = c[l]
         /\ \A op : Original!At(op) <=> (l <= Len(c) /\ c[l].op = op)
<1>1. Original!n = n /\ n \in Nat \ {0}
  BY SameDepth, TopTyped
<1>2. Views[n] = View(top) /\ View(top).pc = l /\ View(top).func = top.func
  BY <1>1, ViewsTyped DEF View, top
<1>3. Views[n].pc = l /\ Views[n].func = top.func
  BY <1>2
<1>4. Original!pc = l
  BY <1>1, <1>3 DEF Original!pc, Views, View
<1>5. Original!line = c[l]
  BY <1>1, <1>3, <1>4 DEF Original!line, Views, View
<1>6. ASSUME NEW op PROVE Original!At(op) <=> (l <= Len(c) /\ c[l].op = op)
  <2>1. Original!At(op) <=> (Original!n > 0 /\ Original!pc <= Len(program.code[Views[Original!n].func])
                               /\ Original!line.op = op)
    BY DEF Original!At, Views, View
  <2>2. QED
    BY <1>1, <1>3, <1>4, <1>5, <2>1
<1>7. QED
  BY <1>1, <1>4, <1>5, <1>6

\* The innermost frame becomes g.
LEMMA TopSeen ==
  ASSUME TypeInv, n > 0, UNCHANGED place, NEW g \in Frame, Top(g), g.func = top.func
  PROVE  /\ Views' = [Views EXCEPT ![n].pc = OriginalLine(g)]
         /\ OriginalLine(g) = OriginalLine(top) => Views' = Views
<1>1. n' = n /\ frames'[n] = g /\ \A j \in 1..(n - 1) : frames'[j] = frames[j]
  BY TopFrames
<1>2. inspect_func_name' = inspect_func_name /\ inspect_line_num' = inspect_line_num
  BY Stays
<1>3. n \in Nat \ {0}
  BY TopTyped
<1>4. Views' = [j \in 1..n |-> [func |-> frames'[j].func, pc |-> OriginalLine(frames'[j])]]
  BY <1>1, <1>2 DEF Views, View, OriginalLine
<1>5. Views = [j \in 1..n |-> [func |-> frames[j].func, pc |-> OriginalLine(frames[j])]]
  BY DEF Views, View
<1>6. /\ [func |-> frames'[n].func, pc |-> OriginalLine(frames'[n])] = [Views[n] EXCEPT !.pc = OriginalLine(g)]
      /\ \A j \in 1..n : j # n => [func |-> frames'[j].func, pc |-> OriginalLine(frames'[j])] = Views[j]
  <2>1. Views[n] = [func |-> top.func, pc |-> OriginalLine(top)]
    BY <1>3, <1>5 DEF top
  <2>2. \A j \in 1..n : j # n => j \in 1..(n - 1)
    BY <1>3
  <2>3. [func |-> frames'[n].func, pc |-> OriginalLine(frames'[n])] = [Views[n] EXCEPT !.pc = OriginalLine(g)]
    BY <1>1, <2>1
  <2>4. ASSUME NEW j \in 1..n, j # n
        PROVE  [func |-> frames'[j].func, pc |-> OriginalLine(frames'[j])] = Views[j]
    BY <1>1, <1>5, <2>2, <2>4
  <2>5. QED
    BY <2>3, <2>4
<1>7. Views' = [Views EXCEPT ![n].pc = OriginalLine(g)]
  BY <1>4, <1>5, <1>6
<1>8. ASSUME OriginalLine(g) = OriginalLine(top) PROVE Views' = Views
  <2>1. Views[n] = [func |-> top.func, pc |-> OriginalLine(top)] /\ n \in 1..n
    BY <1>3, <1>5 DEF top
  <2>2. [func |-> frames'[n].func, pc |-> OriginalLine(frames'[n])] = Views[n]
    BY <1>1, <1>8, <2>1
  <2>3. QED
    BY <1>4, <1>5, <1>6, <2>2
<1>9. QED
  BY <1>7, <1>8

LEMMA ViewsStay ==
  ASSUME UNCHANGED place, frames' = frames
  PROVE  Views' = Views
<1>1. inspect_func_name' = inspect_func_name /\ inspect_line_num' = inspect_line_num /\ n' = n
  BY Stays DEF n
<1>2. Views' = [j \in 1..n |-> [func |-> frames[j].func, pc |-> OriginalLine(frames[j])]]
  BY <1>1 DEF Views, View, OriginalLine
<1>3. Views = [j \in 1..n |-> [func |-> frames[j].func, pc |-> OriginalLine(frames[j])]]
  BY DEF Views, View
<1>4. QED
  BY <1>2, <1>3

LEMMA Unseen ==
  ASSUME UNCHANGED place, UNCHANGED entries, Views' = Views
  PROVE  UNCHANGED Original!vars
<1>1. LeftToCall' = LeftToCall
  BY DEF LeftToCall
<1>2. program' = program
  BY Stays
<1>3. QED
  BY <1>1, <1>2 DEF Original!vars, LeftToCall, Views, View

-----------------------------------------------------------------------------
(***************************************************************************)
(* Steps that the original program does not see                            *)
(***************************************************************************)
Simulated == Original!Next \/ UNCHANGED Original!vars

\* A hook, or the end of a call of a helper function: the line stays.
LEMMA SameLine ==
  ASSUME TypeInv, n > 0, UNCHANGED place, UNCHANGED entries, NEW g \in Frame, Top(g),
         g.func = top.func, OriginalLine(g) = OriginalLine(top)
  PROVE  Simulated
BY TopSeen, Unseen DEF Simulated

LEMMA SimulatesLoad == ASSUME TypeInv, Load PROVE Simulated
<1>1. UNCHANGED place /\ UNCHANGED entries /\ n > 0 /\ top.stage = "load"
  BY DEF Load
<1>2. Placed /\ top \in Frame
  BY <1>1, TypeContext
<1>3. CASE Top([top EXCEPT !.stage = "pre"])
  <2>1. PICK g \in Frame : g = [top EXCEPT !.stage = "pre"]
    BY <1>2 DEF Frame, Stage
  <2>2. g.func = top.func /\ g.pc = top.pc /\ g.stage = "pre"
    BY <1>2, <2>1 DEF Frame
  <2>3. OriginalLine(g) = OriginalLine(top)
    BY <1>1, <1>2, <2>2, OriginalLineOf
  <2>4. Top(g)
    BY <1>3, <2>1
  <2>5. QED
    BY <1>1, <2>2, <2>3, <2>4, SameLine
<1>4. CASE UNCHANGED frames
  BY <1>1, <1>4, ViewsStay, Unseen DEF Simulated
<1>5. QED
  BY <1>3, <1>4 DEF Load

LEMMA SimulatesHookBefore == ASSUME TypeInv, HookBefore PROVE Simulated
<1>1. UNCHANGED place /\ UNCHANGED entries /\ n > 0 /\ top.stage = "pre"
  BY DEF HookBefore, Running
<1>2. Placed /\ top \in Frame
  BY <1>1, TypeContext
<1>3. PICK g \in Frame : g = [top EXCEPT !.stage = "inst"]
  BY <1>2 DEF Frame, Stage
<1>4. g.func = top.func /\ g.pc = top.pc /\ g.stage = "inst"
  BY <1>2, <1>3 DEF Frame
<1>5. OriginalLine(g) = OriginalLine(top)
  BY <1>1, <1>2, <1>4, OriginalLineOf
<1>6. Top(g)
  BY <1>3 DEF HookBefore
<1>7. QED
  BY <1>1, <1>4, <1>5, <1>6, SameLine

LEMMA SimulatesHookAfter == ASSUME TypeInv, HookAfter PROVE Simulated
<1>1. UNCHANGED place /\ UNCHANGED entries /\ n > 0 /\ top.stage = "post"
  BY DEF HookAfter, Running
<1>2. Placed /\ top \in Frame /\ top.pc + 1 \in Nat \ {0}
  BY <1>1, TypeContext
<1>3. PICK g \in Frame : g = Goto(top.pc + 1)
  BY <1>2, GotoTyped
<1>4. g.func = top.func /\ g.pc = top.pc + 1 /\ g.stage = "pre"
  BY <1>2, <1>3, GotoTyped
<1>5. OriginalLine(g) = OriginalLine(top)
  BY <1>1, <1>2, <1>4, OriginalLineOf
<1>6. Top(g)
  BY <1>3 DEF HookAfter
<1>7. QED
  BY <1>1, <1>4, <1>5, <1>6, SameLine

LEMMA SimulatesCiovec == ASSUME TypeInv, Ciovec PROVE Simulated
<1>1. UNCHANGED place /\ UNCHANGED entries /\ Running /\ inst.op = "ciovec"
  BY DEF Ciovec, At
<1>2. Placed /\ top \in Frame /\ n > 0 /\ top.pc + 1 \in Nat \ {0}
  BY <1>1, InstTyped, TypeContext
<1>3. top.func = inspect_func_name /\ top.pc = inspect_line_num + 1 /\ inspect_line_num \in Nat
  BY <1>1, <1>2, InstTyped, CodeTyped DEF Fits, Placed
<1>4. top.stage # "post"
  BY <1>1 DEF Ciovec, At
<1>5. PICK g \in Frame : g = Goto(top.pc + 1)
  BY <1>2, GotoTyped
<1>6. g.func = top.func /\ g.pc = top.pc + 1 /\ g.stage = "pre"
  BY <1>2, <1>5, GotoTyped
<1>7. OriginalLine(g) = OriginalLine(top)
  <2>1. LineOf(top.func, top.pc + 1) = LineOf(top.func, top.pc)
    BY <1>2, <1>3, Skipped
  <2>2. QED
    BY <1>2, <1>4, <1>6, <2>1, OriginalLineOf
<1>8. Top(g)
  BY <1>5 DEF Ciovec
<1>9. QED
  BY <1>1, <1>2, <1>6, <1>7, <1>8, SameLine

\* Nothing happens to the program, or it stops.
LEMMA SimulatesRest ==
  ASSUME TypeInv, Finish \/ ProcExit \/ ReadNumber \/ PrintBacktrace \/ UNCHANGED vars
  PROVE  Simulated
<1>1. UNCHANGED place /\ UNCHANGED entries /\ UNCHANGED frames
  BY DEF Finish, ProcExit, ReadNumber, PrintBacktrace, vars, machine
<1>2. QED
  BY <1>1, ViewsStay, Unseen DEF Simulated

-----------------------------------------------------------------------------
(***************************************************************************)
(* Steps of the original program                                           *)
(***************************************************************************)
\* An instruction of the program has been executed, and g is at the line after it.
LEMMA Proceeds ==
  ASSUME TypeInv, Running, top.stage # "post", ~IsInserted(top.func, top.pc),
         inst.op \in {"other", "br_if"} \/ (inst.op = "call" /\ inst.to \in Imports(program)),
         UNCHANGED place, UNCHANGED entries, NEW g \in Frame, Top(g), g.func = top.func,
         OriginalLine(g) = LineOf(top.func, top.pc + 1)
  PROVE  Simulated
<1>1. n > 0 /\ Placed /\ top \in Frame /\ top.func \in Defined(program)
      /\ top.pc \in 1..Len(Code(top.func))
  BY InstTyped, TypeContext
<1>2. PICK l : l = OriginalLine(top)
  OBVIOUS
<1>3. PICK c : c = program.code[top.func]
  OBVIOUS
<1>4. l = LineOf(top.func, top.pc)
  BY <1>1, <1>2, OriginalLineOf
<1>5. l \in 1..Len(c) /\ inst = c[l] /\ OriginalLine(g) = l + 1
  BY <1>1, <1>3, <1>4, Kept DEF inst
<1>6. /\ Original!n = n /\ Original!pc = l /\ Original!line = c[l]
      /\ \A op : Original!At(op) <=> (l <= Len(c) /\ c[l].op = op)
  BY <1>1, <1>2, <1>3, SeenTop
<1>7. Views' = [Views EXCEPT ![n].pc = l + 1]
  BY <1>1, <1>5, TopSeen
<1>8. Original!Goto(Original!pc + 1)
  BY <1>6, <1>7 DEF Original!Goto, Views, View
<1>9. \/ Original!At("other") \/ Original!At("br_if")
      \/ Original!At("call") /\ Original!line.to \in Original!Imports(program)
  <2>1. l <= Len(c)
    BY <1>3, <1>5
  <2>2. QED
    BY <1>5, <1>6, <2>1, SameText
<1>10. LeftToCall' = LeftToCall /\ program' = program
  BY Stays DEF LeftToCall
<1>11. Original!Proceed
  BY <1>8, <1>9, <1>10 DEF Original!Proceed, LeftToCall
<1>12. QED
  BY <1>11 DEF Simulated, Original!Next

LEMMA SimulatesOther == ASSUME TypeInv, Other PROVE Simulated
<1>1. UNCHANGED place /\ UNCHANGED entries /\ Running /\ inst.op \in {"other", "br_if"}
      /\ top.stage # "post"
  BY DEF Other, At
<1>2. Placed /\ top \in Frame /\ n > 0 /\ top.pc + 1 \in Nat \ {0}
  BY <1>1, InstTyped, TypeContext
<1>3. ~IsInserted(top.func, top.pc)
  <2>1. Fits(top.func, top.pc, inst) /\ top.pc \in Nat
    BY <1>1, InstTyped
  <2>2. QED
    BY <1>1, <1>2, <2>1, NotInserted
<1>4. PICK g \in Frame : g = Goto(top.pc + 1)
  BY <1>2, GotoTyped
<1>5. g.func = top.func /\ g.pc = top.pc + 1 /\ g.stage = "pre"
  BY <1>2, <1>4, GotoTyped
<1>6. OriginalLine(g) = LineOf(top.func, top.pc + 1)
  BY <1>2, <1>5, OriginalLineOf
<1>7. Top(g)
  BY <1>4 DEF Other
<1>8. QED
  BY <1>1, <1>3, <1>5, <1>6, <1>7, Proceeds

\* The frame after a call that has returned
LEMMA AfterCallLine ==
  ASSUME Placed, NEW g \in Frame, g.stage # "post"
  PROVE  OriginalLine(AfterCall(g)) = LineOf(g.func, g.pc + 1)
<1>1. PICK h \in Frame : h = AfterCall(g)
  BY AfterCallTyped
<1>2. h.func = g.func /\ ((h.pc = g.pc /\ h.stage = "post") \/ (h.pc = g.pc + 1 /\ h.stage = "pre"))
  <2>1. /\ Hooked(g.func, g.pc) => h.pc = g.pc /\ h.stage = "post"
        /\ ~Hooked(g.func, g.pc) => h.pc = g.pc + 1 /\ h.stage = "pre"
        /\ h.func = g.func
    BY <1>1, AfterCallTyped, Zenon
  <2>2. QED
    BY <2>1, Zenon
<1>3. h.stage = "post" => LineOf(h.func, h.pc + 1) = LineOf(g.func, g.pc + 1)
  BY <1>2
<1>4. h.stage # "post" => LineOf(h.func, h.pc) = LineOf(g.func, g.pc + 1)
  BY <1>2
<1>5. OriginalLine(h) = LineOf(g.func, g.pc + 1)
  BY <1>1, <1>3, <1>4, OriginalLineOf
<1>6. QED
  BY <1>1, <1>5

LEMMA SimulatesCallOut == ASSUME TypeInv, CallOut PROVE Simulated
<1>1. UNCHANGED place /\ UNCHANGED entries /\ Running /\ inst.op = "call"
      /\ top.stage # "post" /\ inst.to \notin Defined(program)
  BY DEF CallOut, At
<1>2. Placed /\ top \in Frame /\ n > 0
  BY <1>1, InstTyped, TypeContext
<1>3. CASE UNCHANGED frames
  BY <1>1, <1>3, ViewsStay, Unseen DEF Simulated
<1>4. CASE Top(AfterCall(top))
  <2>1. PICK g \in Frame : g = AfterCall(top)
    BY <1>2, AfterCallTyped
  <2>2. g.func = top.func /\ Top(g)
    BY <1>2, <1>4, <2>1, AfterCallTyped
  <2>3. OriginalLine(g) = LineOf(top.func, top.pc + 1)
    BY <1>1, <1>2, <2>1, AfterCallLine
  <2>4. CASE inst.to = GetCwdFd
    <3>1. IsInserted(top.func, top.pc) /\ top.pc = inspect_line_num + 2
      <4>1. inspect_line_num \in Nat /\ top.func \in Defined(program)
        BY <1>2, CodeTyped, TypeContext DEF Placed
      <4>2. IsInserted(top.func, top.pc)
        <5>1. SUFFICES ASSUME ~IsInserted(top.func, top.pc) PROVE FALSE
          OBVIOUS
        <5>2. PICK l \in 1..Len(program.code[top.func]) : inst = program.code[top.func][l]
          BY <1>1, <1>2, <4>1, <5>1, InstTyped, Kept DEF inst
        <5>3. PICK c \in Seq(Line) : c = program.code[top.func] /\ DOMAIN c = 1..Len(c)
          BY <1>2, <4>1, ProgramIsProgram DEF Placed
        <5>4. l \in DOMAIN program.code[top.func] /\ inst = program.code[top.func][l]
          BY <5>2, <5>3
        <5>5. IsProgram(program) /\ Defined(program) \cup Imports(program) \subseteq Func
          BY <1>2, ProgramIsProgram DEF Placed
        <5>6. inst.to \in Func
          BY <1>1, <4>1, <5>4, <5>5 DEF IsProgram
        <5>7. QED
          BY <2>4, <5>6, BacktraceConstants
      <4>3. QED
        BY <1>1, <4>1, <4>2, InstTyped DEF IsInserted, Fits
    <3>2. LineOf(top.func, top.pc + 1) = LineOf(top.func, top.pc)
      BY <1>2, <3>1, Skipped DEF IsInserted, Frame
    <3>3. OriginalLine(g) = OriginalLine(top)
      BY <1>1, <1>2, <2>3, <3>2, OriginalLineOf
    <3>4. QED
      BY <1>1, <1>2, <2>2, <3>3, SameLine
  <2>5. CASE inst.to # GetCwdFd
    <3>1. inst.to \in Imports(program)
      BY <1>1, <2>5, InstTyped DEF Fits
    <3>2. ~IsInserted(top.func, top.pc)
      <4>1. Fits(top.func, top.pc, inst) /\ top.pc \in Nat
        BY <1>1, InstTyped
      <4>2. QED
        BY <1>1, <1>2, <2>5, <4>1, NotInserted
    <3>3. QED
      BY <1>1, <2>2, <2>3, <3>1, <3>2, Proceeds
  <2>6. QED
    BY <2>4, <2>5
<1>5. QED
  BY <1>3, <1>4 DEF CallOut

LEMMA SimulatesBranch == ASSUME TypeInv, Branch PROVE Simulated
<1>1. UNCHANGED place /\ UNCHANGED entries /\ Running /\ inst.op = "br_if" /\ top.stage # "post"
  BY DEF Branch, At
<1>2. Placed /\ top \in Frame /\ n > 0 /\ top.func \in Defined(program)
      /\ top.pc \in 1..Len(Code(top.func))
  BY <1>1, InstTyped, TypeContext
<1>3. ~IsInserted(top.func, top.pc)
  <2>1. Fits(top.func, top.pc, inst) /\ top.pc \in Nat
    BY <1>1, InstTyped
  <2>2. QED
    BY <1>1, <1>2, <2>1, NotInserted
<1>4. PICK l : l = OriginalLine(top)
  OBVIOUS
<1>5. PICK c \in Seq(Line) : c = program.code[top.func]
  BY <1>2, ProgramIsProgram DEF Placed
<1>6. l = LineOf(top.func, top.pc)
  BY <1>1, <1>2, <1>4, OriginalLineOf
<1>7. l \in 1..Len(c) /\ inst = c[l] /\ Len(c) \in Nat
  BY <1>2, <1>3, <1>5, <1>6, Kept DEF inst
<1>8. inst.label \in Nat
  <2>1. inst \in Line
    BY <1>5, <1>7
  <2>2. QED
    BY <2>1 DEF Line
<1>9. /\ Original!n = n /\ Original!line = c[l]
      /\ \A op : Original!At(op) <=> (l <= Len(c) /\ c[l].op = op)
  BY <1>2, <1>4, <1>5, SeenTop
<1>10. Shifted(top.func, inst.label) \in Nat \ {0}
  BY <1>1, InstTyped DEF Fits
<1>11. PICK g \in Frame : g = Goto(Shifted(top.func, inst.label))
  BY <1>2, <1>10, GotoTyped
<1>12. g.func = top.func /\ g.pc = Shifted(top.func, inst.label) /\ g.stage = "pre"
  BY <1>2, <1>10, <1>11, GotoTyped
<1>13. OriginalLine(g) = inst.label
  BY <1>2, <1>8, <1>12, OriginalLineOf, Landed
<1>14. Views' = [Views EXCEPT ![n].pc = inst.label]
  BY <1>1, <1>2, <1>11, <1>12, <1>13, TopSeen DEF Branch
<1>15. Original!Goto(Original!line.label)
  BY <1>7, <1>9, <1>14 DEF Original!Goto, Views, View
<1>16. Original!At("br_if")
  BY <1>1, <1>7, <1>9
<1>17. LeftToCall' = LeftToCall /\ program' = program
  BY <1>1, Stays DEF LeftToCall
<1>18. Original!Branch
  BY <1>15, <1>16, <1>17 DEF Original!Branch, LeftToCall
<1>19. QED
  BY <1>18 DEF Simulated, Original!Next

\* A function begins at its first line.
LEMMA EnterLine ==
  ASSUME Placed, NEW f \in Defined(program)
  PROVE  View(Enter(f)) = [func |-> f, pc |-> 1]
<1>1. inspect_line_num \in Nat
  BY CodeTyped DEF Placed
<1>2. PICK g \in Frame : g = Enter(f) /\ g.func = f /\ g.pc = 1 /\ g.stage # "post"
  BY EnterTyped
<1>3. OriginalLine(g) = 1
  BY <1>1, <1>2, OriginalLineOf DEF LineOf
<1>4. QED
  BY <1>2, <1>3 DEF View

\* A call that has begun: its line stays, and the function called is at its first.
LEMMA CallSeen ==
  ASSUME TypeInv, n > 0, UNCHANGED place, NEW f \in Defined(program), top.stage # "post",
         frames' = Append([frames EXCEPT ![n].stage = "inst"], Enter(f))
  PROVE  Views' = Append(Views, [func |-> f, pc |-> 1])
<1>1. Placed /\ n \in Nat \ {0} /\ top = frames[n] /\ top \in Frame
  BY TypeContext DEF top
<1>2. PICK fs \in Seq(Frame) :
        /\ fs = frames' /\ Len(fs) = n + 1
        /\ fs[n + 1] = Enter(f)
        /\ fs[n] \in Frame /\ fs[n].func = top.func /\ fs[n].pc = top.pc /\ fs[n].stage = "inst"
        /\ \A j \in 1..(n - 1) : fs[j] = frames[j]
  BY CallFrames
<1>3. /\ Seen(fs) \in Seq(SeenFrame) /\ Len(Seen(fs)) = n + 1
      /\ \A j \in 1..(n + 1) : Seen(fs)[j] = View(fs[j])
  BY <1>1, <1>2, SeenTyped
<1>4. Views \in Seq(SeenFrame) /\ Len(Views) = n /\ \A j \in 1..n : Views[j] = View(frames[j])
  BY ViewsTyped
<1>5. PICK v \in SeenFrame : v = [func |-> f, pc |-> 1]
  <2>1. [func |-> f, pc |-> 1] \in SeenFrame
    BY DEF SeenFrame
  <2>2. QED
    BY <2>1
<1>6. /\ Append(Views, v) \in Seq(SeenFrame) /\ Len(Append(Views, v)) = n + 1
      /\ \A j \in 1..n : Append(Views, v)[j] = Views[j]
      /\ Append(Views, v)[n + 1] = v
  BY <1>4, AppendProperties
<1>7. Seen(fs)[n + 1] = v
  <2>1. n + 1 \in 1..(n + 1)
    BY <1>1
  <2>2. Seen(fs)[n + 1] = View(Enter(f))
    BY <1>2, <1>3, <2>1
  <2>3. QED
    BY <1>1, <1>5, <2>2, EnterLine
<1>8. View(fs[n]) = View(frames[n])
  <2>1. fs[n] \in Frame /\ fs[n].stage # "post"
    BY <1>2
  <2>2. OriginalLine(fs[n]) = OriginalLine(top)
    BY <1>1, <1>2, <2>1, OriginalLineOf
  <2>3. QED
    BY <1>1, <1>2, <2>2 DEF View
<1>9. ASSUME NEW j \in 1..n PROVE Seen(fs)[j] = Append(Views, v)[j]
  <2>1. Seen(fs)[j] = View(fs[j]) /\ Append(Views, v)[j] = View(frames[j])
    BY <1>1, <1>3, <1>4, <1>6
  <2>2. j = n \/ j \in 1..(n - 1)
    BY <1>1
  <2>3. QED
    BY <1>2, <1>8, <2>1, <2>2
<1>10. \A j \in 1..(n + 1) : Seen(fs)[j] = Append(Views, v)[j]
  BY <1>1, <1>6, <1>7, <1>9
<1>11. Seen(fs) = Append(Views, v)
  BY <1>3, <1>6, <1>10, SeqEqual
<1>12. QED
  BY <1>2, <1>5, <1>11, ViewsNext

LEMMA SimulatesCall == ASSUME TypeInv, Call PROVE Simulated
<1>1. PICK f \in Defined(program) :
        /\ \/ At("call") /\ f = inst.to
           \/ At("call_indirect") /\ f \in program.table
        /\ IF n < MaxDepth
           THEN frames' = Append([frames EXCEPT ![n].stage = "inst"], Enter(f)) /\ UNCHANGED status
           ELSE status' = "trap" /\ UNCHANGED frames
  BY DEF Call
<1>2. UNCHANGED place /\ UNCHANGED entries
  BY DEF Call
<1>3. /\ Running /\ top.stage # "post"
      /\ \/ inst.op = "call" /\ f = inst.to
         \/ inst.op = "call_indirect" /\ f \in program.table
  BY <1>1 DEF At
<1>4. /\ Placed /\ top \in Frame /\ n > 0 /\ n \in Nat \ {0} /\ top.func \in Defined(program)
      /\ top.pc \in 1..Len(Code(top.func)) /\ inspect_line_num \in Nat
  BY <1>3, InstTyped, TypeContext, CodeTyped
<1>5. CASE UNCHANGED frames
  BY <1>2, <1>5, ViewsStay, Unseen DEF Simulated
<1>6. CASE /\ n < MaxDepth
           /\ frames' = Append([frames EXCEPT ![n].stage = "inst"], Enter(f))
  <2>1. ~IsInserted(top.func, top.pc)
    <3>1. f # GetCwdFd
      BY <1>4, ProgramIsProgram, BacktraceConstants DEF Placed
    <3>2. Fits(top.func, top.pc, inst)
      BY <1>3, InstTyped
    <3>3. QED
      BY <1>3, <1>4, <3>1, <3>2 DEF Fits, IsInserted
  <2>2. PICK l : l = OriginalLine(top)
    OBVIOUS
  <2>3. PICK c : c = program.code[top.func]
    OBVIOUS
  <2>4. l = LineOf(top.func, top.pc)
    BY <1>3, <1>4, <2>2, OriginalLineOf
  <2>5. l \in 1..Len(c) /\ inst = c[l]
    BY <1>4, <2>1, <2>3, <2>4, Kept DEF inst
  <2>6. l <= Len(c)
    BY <2>5
  <2>7. /\ Original!n = n /\ Original!line = c[l]
        /\ \A op : Original!At(op) <=> (l <= Len(c) /\ c[l].op = op)
    BY <1>4, <2>2, <2>3, SeenTop
  <2>8. \/ Original!At("call") /\ f = Original!line.to
        \/ Original!At("call_indirect") /\ f \in program.table
    BY <1>3, <2>5, <2>6, <2>7
  <2>9. Views' = Append(Views, [func |-> f, pc |-> 1])
    BY <1>2, <1>3, <1>4, <1>6, CallSeen
  <2>10. LeftToCall' = LeftToCall /\ program' = program
    BY <1>2, Stays DEF LeftToCall
  <2>11. f \in Original!Defined(program)
    BY SameText
  <2>12. Original!Call
    BY <1>6, <2>7, <2>8, <2>9, <2>10, <2>11 DEF Original!Call, LeftToCall, Views, View
  <2>13. QED
    BY <2>12 DEF Simulated, Original!Next
<1>7. QED
  BY <1>1, <1>5, <1>6

\* A call that has ended: the line of its caller is the next.
LEMMA ReturnSeen ==
  ASSUME TypeInv, n > 1, UNCHANGED place, NEW g, g = frames[n - 1], g.stage # "post",
         ~IsInserted(g.func, g.pc), g.pc \in 1..Len(Code(g.func)),
         frames' = [SubSeq(frames, 1, n - 1) EXCEPT ![n - 1] = AfterCall(@)]
  PROVE  Views' = [SubSeq(Views, 1, n - 1) EXCEPT ![n - 1].pc = @ + 1]
<1>1. Placed /\ n \in Nat \ {0} /\ n - 1 \in 1..n /\ n - 1 \in 1..(n - 1) /\ n - 1 \in Nat
  BY TypeContext, ViewsTyped
<1>2. PICK fs \in Seq(Frame) :
        /\ fs = frames' /\ Len(fs) = n - 1
        /\ g \in Frame /\ fs[n - 1] = AfterCall(g)
        /\ \A j \in 1..(n - 2) : fs[j] = frames[j]
  BY ReturnFrames
<1>3. /\ Seen(fs) \in Seq(SeenFrame) /\ Len(Seen(fs)) = n - 1
      /\ \A j \in 1..(n - 1) : Seen(fs)[j] = View(fs[j])
  BY <1>1, <1>2, SeenTyped
<1>4. Views \in Seq(SeenFrame) /\ Len(Views) = n /\ \A j \in 1..n : Views[j] = View(frames[j])
  BY ViewsTyped
<1>5. PICK vs : vs = SubSeq(Views, 1, n - 1)
  OBVIOUS
<1>6. vs \in Seq(SeenFrame) /\ Len(vs) = n - 1 /\ \A j \in 1..(n - 1) : vs[j] = Views[j]
  <2>1. \A j \in 1..(n - 1) : Views[j] \in SeenFrame
    BY <1>1, <1>4
  <2>2. QED
    BY <1>1, <1>5, <2>1, SubSeqProperties
<1>7. g.func \in Defined(program)
  BY <1>2 DEF Frame
<1>8. PICK l \in Int : l = OriginalLine(g) /\ OriginalLine(AfterCall(g)) = l + 1
  <2>1. OriginalLine(g) = LineOf(g.func, g.pc)
    BY <1>1, <1>2, OriginalLineOf
  <2>2. OriginalLine(AfterCall(g)) = LineOf(g.func, g.pc + 1)
    BY <1>1, <1>2, AfterCallLine
  <2>3. LineOf(g.func, g.pc) \in Int /\ LineOf(g.func, g.pc + 1) = LineOf(g.func, g.pc) + 1
    BY <1>1, <1>7, Kept
  <2>4. QED
    BY <2>1, <2>2, <2>3
<1>9. PICK v \in SeenFrame : v = [func |-> g.func, pc |-> l + 1]
  <2>1. [func |-> g.func, pc |-> l + 1] \in SeenFrame
    BY <1>7, <1>8 DEF SeenFrame
  <2>2. QED
    BY <2>1
<1>10. vs[n - 1] = [func |-> g.func, pc |-> l]
  BY <1>1, <1>4, <1>6, <1>8 DEF View
<1>11. [vs EXCEPT ![n - 1].pc = @ + 1] = [vs EXCEPT ![n - 1] = v]
  <2>1. PICK u : u = vs[n - 1]
    OBVIOUS
  <2>2. [u EXCEPT !.pc = u.pc + 1] = v
    BY <1>9, <1>10, <2>1
  <2>3. [vs EXCEPT ![n - 1].pc = @ + 1] = [vs EXCEPT ![n - 1] = [u EXCEPT !.pc = u.pc + 1]]
    BY <2>1
  <2>4. QED
    BY <2>2, <2>3
<1>12. PICK ws : ws = [vs EXCEPT ![n - 1] = v]
  OBVIOUS
<1>13. /\ ws \in Seq(SeenFrame) /\ Len(ws) = n - 1
       /\ \A j \in 1..(n - 1) : ws[j] = IF j = n - 1 THEN v ELSE vs[j]
  BY <1>1, <1>6, <1>12, ExceptSeq
<1>14. Seen(fs)[n - 1] = v
  <2>1. Seen(fs)[n - 1] = View(AfterCall(g))
    BY <1>1, <1>2, <1>3
  <2>2. AfterCall(g).func = g.func
    BY <1>2, AfterCallTyped
  <2>3. QED
    BY <1>8, <1>9, <2>1, <2>2 DEF View
<1>15. ASSUME NEW j \in 1..(n - 1) PROVE Seen(fs)[j] = ws[j]
  <2>1. CASE j = n - 1
    BY <1>13, <1>14, <2>1
  <2>2. CASE j # n - 1
    <3>1. j \in 1..(n - 2) /\ j \in 1..n
      BY <1>1, <2>2
    <3>2. Seen(fs)[j] = View(frames[j])
      BY <1>2, <1>3, <3>1
    <3>3. ws[j] = View(frames[j])
      BY <1>4, <1>6, <1>13, <2>2, <3>1
    <3>4. QED
      BY <3>2, <3>3
  <2>3. QED
    BY <2>1, <2>2
<1>16. Seen(fs) = ws
  BY <1>3, <1>13, <1>15, SeqEqual
<1>17. QED
  BY <1>2, <1>5, <1>11, <1>12, <1>16, ViewsNext

LEMMA SimulatesReturn == ASSUME TypeInv, ChainOK, Return PROVE Simulated
<1>1. UNCHANGED place /\ UNCHANGED entries /\ n > 0 /\ top.pc > Len(Code(top.func))
      /\ frames' = IF n = 1 THEN <<>> ELSE [SubSeq(frames, 1, n - 1) EXCEPT ![n - 1] = AfterCall(@)]
  BY DEF Return
<1>2. /\ Placed /\ top \in Frame /\ n \in Nat \ {0} /\ top.func \in Defined(program)
      /\ top.pc \in Nat \ {0} /\ \A j \in 1..n : frames[j] \in Frame
  BY <1>1, TypeContext
<1>3. Len(Code(top.func)) \in Nat /\ inspect_line_num \in Nat
  BY <1>2, CodeTyped
<1>4. top.stage # "post"
  BY <1>1, <1>2, <1>3 DEF ChainOK, Innermost
<1>5. PICK l : l = OriginalLine(top)
  OBVIOUS
<1>6. l > Len(program.code[top.func])
  BY <1>1, <1>2, <1>4, <1>5, OriginalLineOf, Passed
<1>7. Original!n = n /\ Original!pc = l
  BY <1>1, <1>5, SeenTop
<1>8. Original!pc > Len(program.code[Views[Original!n].func])
  <2>1. Views[n].func = top.func
    BY <1>2, ViewsTyped DEF View, top
  <2>2. QED
    BY <1>6, <1>7, <2>1
<1>9. Views' = IF n = 1 THEN <<>> ELSE [SubSeq(Views, 1, n - 1) EXCEPT ![n - 1].pc = @ + 1]
  <2>1. CASE n = 1
    <3>1. PICK fs : fs = frames' /\ fs = <<>>
      BY <1>1, <2>1
    <3>2. Seen(fs) = <<>>
      <4>1. (<<>>) \in Seq(Frame) /\ Len(<<>>) = 0
        OBVIOUS
      <4>2. Seen(fs) \in Seq(SeenFrame) /\ Len(Seen(fs)) = 0
        BY <1>2, <3>1, <4>1, SeenTyped
      <4>3. QED
        BY <4>2, EmptySeq
    <3>3. QED
      BY <1>1, <2>1, <3>1, <3>2, ViewsNext
  <2>2. CASE n # 1
    <3>1. n > 1 /\ n - 1 \in 1..n /\ n - 1 \in 1..(n - 1) /\ (n - 1) + 1 = n
      BY <1>2, <2>2
    <3>2. PICK g \in Frame : g = frames[n - 1]
      BY <1>2, <3>1
    <3>3. Opens(g, top)
      BY <3>1, <3>2 DEF ChainOK, top
    <3>4. g.func \in Defined(program) /\ g.pc \in Nat \ {0}
      BY DEF Frame
    <3>5. g.stage # "post" /\ g.pc \in 1..Len(Code(g.func))
      BY <1>2, <3>3, <3>4, CodeTyped DEF Opens
    <3>6. ~IsInserted(g.func, g.pc)
      <4>1. top.func # GetCwdFd
        BY <1>2, ProgramIsProgram, BacktraceConstants DEF Placed
      <4>2. Fits(g.func, g.pc, Code(g.func)[g.pc])
        BY <1>2, <3>4, <3>5, CodeTyped
      <4>3. QED
        BY <1>3, <3>3, <3>4, <4>1, <4>2 DEF Fits, IsInserted, Opens
    <3>7. QED
      BY <1>1, <2>2, <3>1, <3>2, <3>5, <3>6, ReturnSeen
  <2>3. QED
    BY <2>1, <2>2
<1>10. LeftToCall' = LeftToCall /\ program' = program
  BY <1>1, Stays DEF LeftToCall
<1>11. Original!Return
  BY <1>1, <1>7, <1>8, <1>9, <1>10 DEF Original!Return, LeftToCall, Views, View
<1>12. QED
  BY <1>11 DEF Simulated, Original!Next

-----------------------------------------------------------------------------
(***************************************************************************)
(* What the runtime calls                                                  *)
(***************************************************************************)
\* The loader is the first to be called or none.
LEMMA Entered ==
  ASSUME Placed
  PROVE  /\ LoadData \notin Defined(program)
         /\ program.start # None => InstrumentedEntries(program) = Entries(program)
         /\ program.start = None => InstrumentedEntries(program) = <<LoadData, program.main>>
<1>1. LoadData \notin Func
  BY BacktraceConstants
<1>2. QED
  BY <1>1, ProgramIsProgram DEF Placed, InstrumentedEntries, Entries

LEMMA SimulatesInit == ASSUME Init PROVE ReplacesStart \/ Original!Init
<1>1. Placed /\ entries = InstrumentedEntries(program) /\ frames = <<>> /\ program \in Programs
  BY DEF Init, Placed
<1>2. Views = <<>>
  BY <1>1, TypeInit, ViewsTyped, EmptySeq DEF n
<1>3. LoadData # program.main /\ (program.init # None => LoadData # program.init)
  BY <1>1, Entered, ProgramIsProgram DEF Placed
<1>4. CASE program.start # None
  <2>1. entries = Entries(program)
    BY <1>1, <1>4, Entered
  <2>2. Head(entries) # LoadData
    <3>1. CASE program.init = None
      <4>1. entries = <<program.main>>
        BY <2>1, <3>1 DEF Entries
      <4>2. QED
        BY <1>3, <4>1
    <3>2. CASE program.init # None
      <4>1. entries = <<program.init>> \o <<program.main>>
        BY <2>1, <3>2 DEF Entries
      <4>2. Joins(entries, <<program.init>>, <<program.main>>)
        <5>1. (<<program.init>>) \in Seq(Func) /\ (<<program.main>>) \in Seq(Func)
          BY <1>1, <3>2, ProgramIsProgram DEF Placed
        <5>2. QED
          BY <4>1, <5>1, Joined
      <4>3. Head(entries) = program.init
        BY <4>2 DEF Joins
      <4>4. QED
        BY <1>3, <3>2, <4>3
    <3>3. QED
      BY <3>1, <3>2
  <2>3. LeftToCall = Original!Entries(program)
    BY <2>1, <2>2, SameText DEF LeftToCall
  <2>4. QED
    BY <1>1, <1>2, <2>3 DEF Original!Init, LeftToCall, Views, View
<1>5. CASE program.start = None /\ program.init = None
  <2>1. entries = <<LoadData, program.main>>
    BY <1>1, <1>5, Entered
  <2>2. LeftToCall = <<program.main>>
    BY <2>1 DEF LeftToCall
  <2>3. Original!Entries(program) = <<program.main>>
    BY <1>5 DEF Original!Entries
  <2>4. QED
    BY <1>1, <1>2, <2>2, <2>3 DEF Original!Init, LeftToCall, Views, View
<1>6. QED
  BY <1>4, <1>5 DEF ReplacesStart

LEMMA SimulatesBegin == ASSUME TypeInv, EntriesOK, Begin PROVE Simulated
<1> DEFINE D == Defined(program) \cup {LoadData}
<1>1. UNCHANGED place /\ frames = <<>> /\ entries # <<>> /\ entries' = Tail(entries)
  BY DEF Begin
<1>2. Placed /\ entries \in Seq(D) /\ Views = <<>> /\ program' = program
  <2>1. Placed /\ entries \in Seq(D)
    BY DEF TypeInv, Calls
  <2>2. Views = <<>>
    BY <1>1, ViewsTyped, EmptySeq DEF n
  <2>3. QED
    BY <1>1, <2>1, <2>2, Stays
<1>3. PICK es : es = Tail(entries)
  OBVIOUS
<1>4. /\ es \in Seq(D) /\ Len(es) = Len(entries) - 1 /\ Len(entries) \in Nat \ {0}
      /\ \A k \in 1..Len(es) : es[k] = entries[k + 1]
      /\ Head(entries) \in D
  <2> HIDE DEF D
  <2> QED
    BY <1>1, <1>2, <1>3, HeadTailProperties, EmptySeq
<1>5. es # <<>> => Head(es) # LoadData
  <2>1. SUFFICES ASSUME es # <<>> PROVE Head(es) # LoadData
    OBVIOUS
  <2>2. Len(es) \in Nat \ {0}
    <3> HIDE DEF D
    <3> QED
      BY <1>4, <2>1, EmptySeq
  <2>3. Head(es) = entries[2] /\ 2 \in 2..Len(entries)
    BY <1>4, <2>2
  <2>4. QED
    BY <2>3 DEF EntriesOK
<1>6. LeftToCall' = es
  BY <1>1, <1>3, <1>5 DEF LeftToCall
<1>7. CASE Head(entries) = LoadData
  <2>1. UNCHANGED frames
    BY <1>7 DEF Begin
  <2>2. LeftToCall = es
    BY <1>1, <1>3, <1>7 DEF LeftToCall
  <2>3. Views' = Views
    BY <1>1, <2>1, ViewsStay
  <2>4. UNCHANGED Original!vars
    BY <1>2, <1>6, <2>2, <2>3 DEF Original!vars, LeftToCall, Views, View
  <2>5. QED
    BY <2>4 DEF Simulated
<1>8. CASE Head(entries) # LoadData
  <2>1. PICK f \in Defined(program) : f = Head(entries)
    BY <1>4, <1>8
  <2>2. frames' = <<Enter(f)>>
    BY <1>8, <2>1 DEF Begin
  <2>3. LeftToCall = entries
    BY <1>8 DEF LeftToCall
  <2>4. PICK fs \in Seq(Frame) : fs = frames' /\ Len(fs) = 1 /\ fs[1] = Enter(f)
    <3>1. Enter(f) \in Frame
      BY EnterTyped
    <3>2. (<<Enter(f)>>) \in Seq(Frame)
      BY <3>1
    <3>3. QED
      BY <2>2, <3>2
  <2>5. Seen(fs) = <<[func |-> f, pc |-> 1]>>
    <3>1. Seen(fs) \in Seq(SeenFrame) /\ Len(Seen(fs)) = 1 /\ Seen(fs)[1] = View(Enter(f))
      BY <1>2, <2>4, SeenTyped
    <3>2. PICK v \in SeenFrame : v = [func |-> f, pc |-> 1] /\ Seen(fs)[1] = v
      <4>1. [func |-> f, pc |-> 1] \in SeenFrame
        BY DEF SeenFrame
      <4>2. QED
        BY <1>2, <3>1, <4>1, EnterLine
    <3>3. (<<v>>) \in Seq(SeenFrame) /\ Len(<<v>>) = 1 /\ (<<v>>)[1] = v
      OBVIOUS
    <3>4. Seen(fs) = <<v>>
      BY <3>1, <3>2, <3>3, SeqEqual
    <3>5. QED
      BY <3>2, <3>4
  <2>6. Views' = <<[func |-> Head(LeftToCall), pc |-> 1]>>
    BY <1>1, <2>1, <2>3, <2>4, <2>5, ViewsNext
  <2>7. LeftToCall # <<>> /\ LeftToCall' = Tail(LeftToCall)
    BY <1>1, <1>3, <1>6, <2>3
  <2>8. Original!Begin
    BY <1>2, <2>6, <2>7 DEF Original!Begin, LeftToCall, Views, View
  <2>9. QED
    BY <2>8 DEF Simulated, Original!Next
<1>9. QED
  BY <1>7, <1>8

-----------------------------------------------------------------------------
(***************************************************************************)
(* The refinement                                                          *)
(***************************************************************************)
LEMMA Simulates == ASSUME StackInv, [Next]_vars PROVE Simulated
<1>1. TypeInv /\ ChainOK /\ EntriesOK
  BY DEF StackInv
<1>2. QED
  BY <1>1, SimulatesBegin, SimulatesLoad, SimulatesHookBefore, SimulatesHookAfter, SimulatesOther,
     SimulatesBranch, SimulatesCallOut, SimulatesCall, SimulatesReturn, SimulatesCiovec, SimulatesRest
  DEF Next, Stopped

\* The instrumented program makes the calls, returns and branches of the original one
\* in the same order until it stops: it is a run of the original program, in which
\* the inserted code and the hooks are not seen.  This is so for every program but
\* those whose start function addStart() replaces.
THEOREM HooksAreTransparent == Spec => Transparent
<1>1. Init => ReplacesStart \/ Original!Init
  BY SimulatesInit
<1>2. StackInv /\ [Next]_vars => [ReplacesStart \/ Original!Next]_(Original!vars)
  BY Simulates DEF Simulated
<1>3. QED
  BY <1>1, <1>2, StackAlways, PTL DEF Spec, Transparent
=============================================================================
