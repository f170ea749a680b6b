--------------------------- MODULE BacktraceProofs ---------------------------
(***************************************************************************)
(* The backtrace that is printed is the call stack, for every program,     *)
(* every place of the inspection and every run.                            *)
(***************************************************************************)
EXTENDS Backtrace, FiniteSetTheorems, SequenceTheorems, WellFoundedInduction, TLAPS

-----------------------------------------------------------------------------
(***************************************************************************)
(* The instrumented code                                                   *)
(***************************************************************************)
Instruction ==
  [op : {"other", "call", "call_indirect", "br_if", "ciovec", "proc_exit"},
   to : Func \cup {None, GetCwdFd}, label : Nat]

Frame == [func : Defined(program), pc : Nat \ {0}, stage : Stage]

LEMMA ProgramIsProgram ==
  ASSUME program \in Programs
  PROVE  /\ IsProgram(program)
         /\ Defined(program) \subseteq Func
         /\ Defined(program) \cup Imports(program) \subseteq Func
         /\ program.code \in [Defined(program) -> Seq(Line)]
         /\ program.functions \in Seq([name : Func, base : Func \cup {None}])
         /\ program.table \subseteq Defined(program)
         /\ program.main \in Defined(program)
         /\ program.init \in Defined(program) \cup {None}
<1>1. IsProgram(program)
  BY ProgramConstants
<1>2. program.functions \in Seq([name : Func, base : Func \cup {None}])
  BY <1>1 DEF IsProgram
<1>3. \A k \in DOMAIN program.functions : program.functions[k].name \in Func
  <2> DEFINE fs == program.functions
             E == [name : Func, base : Func \cup {None}]
  <2>1. fs \in Seq(E)
    BY <1>2
  <2>2. \A k \in DOMAIN fs : fs[k] \in E
    <3> HIDE DEF fs, E
    <3> QED
      BY <2>1
  <2>3. \A x \in E : x.name \in Func
    OBVIOUS
  <2> QED
    BY <2>2, <2>3
<1>4. QED
  BY <1>1, <1>3 DEF IsProgram, Defined, Imports

\* The code of the other functions is the original one.
LEMMA CodeElsewhere ==
  ASSUME NEW f, f # inspect_func_name
  PROVE  Code(f) = program.code[f]
BY DEF Code

\* Where the elements of two joined sequences are
Joins(u, s, t) ==
  /\ u = s \o t
  /\ Len(u) = Len(s) + Len(t)
  /\ \A k \in 1..Len(s) : u[k] = s[k]
  /\ \A k \in 1..Len(t) : u[Len(s) + k] = t[k]

LEMMA Joined ==
  ASSUME NEW S, NEW s \in Seq(S), NEW t \in Seq(S)
  PROVE  s \o t \in Seq(S) /\ Joins(s \o t, s, t)
<1>1. Len(s) \in Nat /\ Len(t) \in Nat
  OBVIOUS
<1>2. ASSUME NEW k \in 1..Len(s) PROVE (s \o t)[k] = s[k]
  BY <1>1
<1>3. ASSUME NEW k \in 1..Len(t) PROVE (s \o t)[Len(s) + k] = t[k]
  BY <1>1
<1>4. s \o t \in Seq(S) /\ Len(s \o t) = Len(s) + Len(t)
  OBVIOUS
<1>5. QED
  BY <1>2, <1>3, <1>4, Zenon DEF Joins

\* A sequence cut in two
Cuts(a, z, c, l) ==
  /\ a = SubSeq(c, 1, l) /\ Len(a) = l
  /\ \A k \in 1..l : a[k] = c[k]
  /\ z = SubSeq(c, l + 1, Len(c)) /\ Len(z) = Len(c) - l
  /\ \A k \in 1..(Len(c) - l) : z[k] = c[l + k]

LEMMA Cut ==
  ASSUME NEW S, NEW c \in Seq(S), NEW l \in 0..Len(c)
  PROVE  \E a, z \in Seq(S) : Cuts(a, z, c, l)
<1>1. Len(c) \in Nat /\ l \in Nat /\ l <= Len(c)
  OBVIOUS
<1>2. /\ SubSeq(c, 1, l) \in Seq(S) /\ Len(SubSeq(c, 1, l)) = l
      /\ \A k \in 1..l : SubSeq(c, 1, l)[k] = c[k]
  BY <1>1, SubSeqProperties
<1>3. /\ SubSeq(c, l + 1, Len(c)) \in Seq(S) /\ Len(SubSeq(c, l + 1, Len(c))) = Len(c) - l
      /\ \A k \in 1..(Len(c) - l) : SubSeq(c, l + 1, Len(c))[k] = c[l + k]
  BY <1>1, SubSeqProperties
<1>4. Cuts(SubSeq(c, 1, l), SubSeq(c, l + 1, Len(c)), c, l)
  BY <1>2, <1>3, Zenon DEF Cuts
<1>5. QED
  BY <1>2, <1>3, <1>4, Zenon

\* Sequence m put into c after place l
Splices(d, c, l, m) ==
  /\ d = SubSeq(c, 1, l) \o m \o SubSeq(c, l + 1, Len(c))
  /\ Len(d) = Len(c) + Len(m)
  /\ \A k \in 1..l : d[k] = c[k]
  /\ \A k \in 1..Len(m) : d[l + k] = m[k]
  /\ \A k \in (l + 1)..Len(c) : d[k + Len(m)] = c[k]

LEMMA Spliced ==
  ASSUME NEW S, NEW c \in Seq(S), NEW l \in 0..Len(c), NEW m \in Seq(S)
  PROVE  \E d \in Seq(S) : Splices(d, c, l, m)
<1>1. Len(c) \in Nat /\ l \in Nat /\ l <= Len(c) /\ Len(m) \in Nat
  OBVIOUS
<1>2. PICK a, z \in Seq(S) : Cuts(a, z, c, l)
  BY Cut
<1>3. PICK am \in Seq(S) : Joins(am, a, m)
  BY Joined
<1>4. PICK d \in Seq(S) : Joins(d, am, z)
  BY Joined
<1>5. d = SubSeq(c, 1, l) \o m \o SubSeq(c, l + 1, Len(c))
  BY <1>2, <1>3, <1>4, Zenon DEF Cuts, Joins
<1>6. /\ Len(a) = l /\ Len(z) = Len(c) - l /\ Len(am) = Len(a) + Len(m) /\ Len(d) = Len(am) + Len(z)
      /\ \A k \in 1..l : a[k] = c[k]
      /\ \A k \in 1..(Len(c) - l) : z[k] = c[l + k]
      /\ \A k \in 1..Len(a) : am[k] = a[k]
      /\ \A k \in 1..Len(m) : am[Len(a) + k] = m[k]
      /\ \A k \in 1..Len(am) : d[k] = am[k]
      /\ \A k \in 1..Len(z) : d[Len(am) + k] = z[k]
  BY <1>2, <1>3, <1>4, Zenon DEF Cuts, Joins
<1>7. Len(d) = Len(c) + Len(m)
  BY <1>1, <1>6
<1>8. ASSUME NEW k \in 1..l PROVE d[k] = c[k]
  <2>1. k \in 1..Len(am) /\ k \in 1..Len(a)
    BY <1>1, <1>6
  <2>2. QED
    BY <2>1, <1>6, Zenon
<1>9. ASSUME NEW k \in 1..Len(m) PROVE d[l + k] = m[k]
  <2>1. l + k \in 1..Len(am) /\ l + k = Len(a) + k
    BY <1>1, <1>6
  <2>2. QED
    BY <2>1, <1>6, Zenon
<1>10. ASSUME NEW k \in (l + 1)..Len(c) PROVE d[k + Len(m)] = c[k]
  <2>1. /\ k - l \in 1..Len(z) /\ k - l \in 1..(Len(c) - l)
        /\ Len(am) + (k - l) = k + Len(m) /\ l + (k - l) = k
    BY <1>1, <1>6
  <2>2. d[Len(am) + (k - l)] = z[k - l] /\ z[k - l] = c[l + (k - l)]
    BY <2>1, <1>6, Zenon
  <2>3. QED
    BY <2>1, <2>2, Zenon
<1>11. QED
  BY <1>5, <1>7, <1>8, <1>9, <1>10, Zenon DEF Splices

\* In the inspected function three instructions are inserted.
LEMMA CodeHere ==
  ASSUME program \in Programs, inspect_func_name \in Defined(program),
         inspect_line_num \in 0..Len(program.code[inspect_func_name]),
         NEW c, c = program.code[inspect_func_name],
         NEW d, d = Code(inspect_func_name)
  PROVE  /\ c \in Seq(Line)
         /\ d \in Seq(Instruction)
         /\ Len(d) = Len(c) + 3
         /\ \A k \in 1..inspect_line_num : d[k] = c[k]
         /\ d[inspect_line_num + 1] = Inserted("ciovec", None)
         /\ d[inspect_line_num + 2] = Inserted("call", GetCwdFd)
         /\ d[inspect_line_num + 3] = Inserted("proc_exit", None)
         /\ \A k \in (inspect_line_num + 1)..Len(c) : d[k + 3] = c[k]
<1>1. c \in Seq(Line)
  BY ProgramIsProgram
<1>2. Line \subseteq Instruction
  BY DEF Line, Instruction
<1>3. c \in Seq(Instruction)
  BY <1>1, <1>2
<1>4. DumpCode \in Seq(Instruction) /\ Len(DumpCode) = 3
  <2>1. /\ Inserted("ciovec", None) \in Instruction
        /\ Inserted("call", GetCwdFd) \in Instruction
        /\ Inserted("proc_exit", None) \in Instruction
    BY DEF Inserted, Instruction
  <2> QED
    BY <2>1 DEF DumpCode
<1>5. d = SubSeq(c, 1, inspect_line_num) \o DumpCode \o SubSeq(c, inspect_line_num + 1, Len(c))
  BY DEF Code
<1>6. /\ DumpCode[1] = Inserted("ciovec", None)
      /\ DumpCode[2] = Inserted("call", GetCwdFd)
      /\ DumpCode[3] = Inserted("proc_exit", None)
  BY DEF DumpCode
<1>7. inspect_line_num \in 0..Len(c)
  OBVIOUS
<1>8. PICK e \in Seq(Instruction) : Splices(e, c, inspect_line_num, DumpCode)
  BY <1>3, <1>4, <1>7, Spliced
<1>9. d = e
  BY <1>5, <1>8, Zenon DEF Splices
<1>10. /\ d \in Seq(Instruction)
       /\ Len(d) = Len(c) + 3
       /\ \A k \in 1..inspect_line_num : d[k] = c[k]
       /\ \A k \in 1..3 : d[inspect_line_num + k] = DumpCode[k]
       /\ \A k \in (inspect_line_num + 1)..Len(c) : d[k + 3] = c[k]
  BY <1>4, <1>8, <1>9, Zenon DEF Splices
<1>11. 1 \in 1..3 /\ 2 \in 1..3 /\ 3 \in 1..3
  OBVIOUS
<1>12. QED
  BY <1>1, <1>6, <1>10, <1>11, Zenon

LEMMA Least ==
  ASSUME NEW T \in SUBSET Nat, T # {}
  PROVE  \E x \in T : \A y \in T : x <= y
<1> DEFINE R == {ss \in Nat \X Nat : ss[1] < ss[2]}
<1>1. IsWellFoundedOn(R, Nat)
  BY NatLessThanWellFounded DEF OpToRel
<1>2. PICK x \in T : \A y \in T : ~(<<y, x>> \in R)
  <2> HIDE DEF R
  <2> QED
    BY <1>1, WFMin
<1>3. ASSUME NEW y \in T PROVE x <= y
  <2>1. ~(<<y, x>> \in R)
    BY <1>2
  <2>2. x \in Nat /\ y \in Nat
    OBVIOUS
  <2>3. QED
    BY <2>1, <2>2
<1>4. QED
  BY <1>3

-----------------------------------------------------------------------------
(***************************************************************************)
(* Types                                                                   *)
(***************************************************************************)
\* The command is given for a place of the program.
Placed ==
  /\ program \in Programs
  /\ inspect_func_name \in Defined(program)
  /\ inspect_line_num \in 0..Len(program.code[inspect_func_name])

LEMMA NamesTyped ==
  ASSUME Placed
  PROVE  /\ names \in Seq(Func)
         /\ Len(names) \in Nat \ {0}
         /\ DOMAIN names = 1..Len(names)
         /\ \A k \in 1..Len(names) : names[k] \in Func
<1> DEFINE E == [name : Func, base : Func \cup {None}]
<1>1. PICK fs \in Seq(E) : fs = program.functions
  BY ProgramIsProgram DEF Placed
<1>2. Len(fs) \in Nat /\ DOMAIN fs = 1..Len(fs) /\ \A k \in 1..Len(fs) : fs[k] \in E
  <2> HIDE DEF E
  <2> QED
    OBVIOUS
<1>3. names = [k \in 1..Len(fs) |-> IF fs[k].base # None THEN fs[k].base ELSE fs[k].name]
  BY <1>1, <1>2 DEF names
<1>4. ASSUME NEW k \in 1..Len(fs)
      PROVE  (IF fs[k].base # None THEN fs[k].base ELSE fs[k].name) \in Func
  BY <1>2
<1>5. names \in [1..Len(fs) -> Func]
  BY <1>3, <1>4
<1>6. names \in Seq(Func) /\ Len(names) = Len(fs) /\ DOMAIN names = 1..Len(fs)
  <2>1. DOMAIN names = 1..Len(fs) /\ \A k \in 1..Len(fs) : names[k] \in Func
    BY <1>5
  <2>2. names \in Seq(Func)
    BY <1>2, <1>5, SeqDef
  <2>3. Len(names) \in Nat /\ DOMAIN names = 1..Len(names)
    <3> HIDE DEF names
    <3> QED
      BY <2>2, LenProperties
  <2>4. QED
    BY <1>2, <2>1, <2>2, <2>3
<1>7. Len(fs) # 0
  <2>1. PICK k \in DOMAIN fs : TRUE
    <3>1. inspect_func_name \in {fs[k].name : k \in {j \in DOMAIN fs : fs[j].base = None}}
      BY <1>1 DEF Placed, Defined
    <3>2. QED
      BY <3>1
  <2>2. QED
    BY <1>2, <2>1
<1>8. QED
  BY <1>2, <1>5, <1>6, <1>7

LEMMA NumberTyped ==
  ASSUME Placed, NEW f
  PROVE  /\ funcname_map(f) \in Number
         /\ funcname_map(f) # -1
         /\ funcname_map(f) = -2 <=> Nameless(f)
         /\ funcname_map(f) >= 0 => names[funcname_map(f) + 1] = f
<1> DEFINE found == {k \in DOMAIN names : names[k] = f}
<1>1. Len(names) \in Nat \ {0} /\ DOMAIN names = 1..Len(names)
  BY NamesTyped
<1>2. CASE found = {}
  BY <1>1, <1>2 DEF funcname_map, Number, Nameless
<1>3. CASE found # {}
  <2> DEFINE first == CHOOSE k \in found : \A j \in found : k <= j
  <2>1. found \subseteq Nat
    BY <1>1
  <2>2. \E k \in found : \A j \in found : k <= j
    <3> HIDE DEF found
    <3> QED
      BY <1>3, <2>1, Least
  <2>3. first \in found
    <3> HIDE DEF found
    <3> QED
      BY <2>2
  <2>4. first \in 1..Len(names) /\ names[first] = f
    BY <1>1, <2>3
  <2>5. funcname_map(f) = first - 1
    BY <1>3 DEF funcname_map
  <2>6. ~Nameless(f)
    BY <1>1, <2>4 DEF Nameless
  <2> HIDE DEF first
  <2>7. first - 1 \in Number /\ first - 1 >= 0 /\ (first - 1) + 1 = first
    BY <1>1, <2>4 DEF Number
  <2>8. QED
    BY <2>4, <2>5, <2>6, <2>7
<1>4. QED
  BY <1>2, <1>3

\* What is known of the instruction at place k of function f
Fits(f, k, x) ==
  /\ x \in Instruction
  /\ x.op = "call" => x.to \in Defined(program) \cup Imports(program) \cup {GetCwdFd}
  /\ x.op = "br_if" => Shifted(f, x.label) \in Nat \ {0}
  /\ f = inspect_func_name =>
       /\ k = inspect_line_num + 1 => x.op = "ciovec"
       /\ k = inspect_line_num + 2 => x.op = "call" /\ x.to = GetCwdFd
       /\ k = inspect_line_num + 3 => x.op = "proc_exit"
       /\ x.op = "br_if" =>
            ~(Shifted(f, x.label) \in (inspect_line_num + 1)..(inspect_line_num + 3))
  /\ x.op = "ciovec" => f = inspect_func_name /\ k = inspect_line_num + 1
  /\ x.op = "proc_exit" => f = inspect_func_name /\ k = inspect_line_num + 3

LEMMA LineFits ==
  ASSUME Placed, NEW f \in Defined(program), NEW j \in 1..Len(program.code[f]), NEW k,
         f = inspect_func_name => ~(k \in (inspect_line_num + 1)..(inspect_line_num + 3))
  PROVE  Fits(f, k, program.code[f][j])
<1> DEFINE x == program.code[f][j]
<1>1. PICK c \in Seq(Line) : c = program.code[f]
  BY ProgramIsProgram DEF Placed
<1>2. x \in Line /\ DOMAIN c = 1..Len(c) /\ Len(c) \in Nat /\ j \in DOMAIN program.code[f]
  BY <1>1
<1>3. IsProgram(program)
  BY ProgramIsProgram DEF Placed
<1>4. /\ x.op = "call" => x.to \in Defined(program) \cup Imports(program)
      /\ x.op = "br_if" => x.label \in DOMAIN program.code[f]
  <2> HIDE DEF x
  <2>1. x = program.code[f][j]
    BY DEF x
  <2>2. QED
    BY <1>2, <1>3, <2>1 DEF IsProgram
<1>5. /\ x \in Instruction /\ x.op # "ciovec" /\ x.op # "proc_exit"
  BY <1>2 DEF Line, Instruction
<1>6. inspect_line_num \in Nat
  <2>1. PICK d \in Seq(Line) : d = program.code[inspect_func_name]
    BY ProgramIsProgram DEF Placed
  <2>2. QED
    BY <2>1 DEF Placed
<1>7. ASSUME x.op = "br_if"
      PROVE  /\ Shifted(f, x.label) \in Nat \ {0}
             /\ f = inspect_func_name =>
                  ~(Shifted(f, x.label) \in (inspect_line_num + 1)..(inspect_line_num + 3))
  <2>1. x.label \in Nat \ {0}
    BY <1>1, <1>2, <1>4, <1>7
  <2>2. Len(DumpCode) = 3
    BY DEF DumpCode
  <2> HIDE DEF x
  <2>3. QED
    BY <1>6, <2>1, <2>2 DEF Shifted
<1> HIDE DEF x
<1>8. f = inspect_func_name =>
        /\ k # inspect_line_num + 1 /\ k # inspect_line_num + 2 /\ k # inspect_line_num + 3
  BY <1>6
<1>9. Fits(f, k, x)
  BY <1>4, <1>5, <1>7, <1>8 DEF Fits
<1>10. QED
  BY <1>9 DEF x

LEMMA CodeTyped ==
  ASSUME Placed, NEW f \in Defined(program)
  PROVE  /\ Code(f) \in Seq(Instruction)
         /\ Len(Code(f)) \in Nat
         /\ \A k \in 1..Len(Code(f)) : Fits(f, k, Code(f)[k])
         /\ inspect_line_num \in Nat
<1>1. inspect_line_num \in Nat
  <2>1. PICK d \in Seq(Line) : d = program.code[inspect_func_name]
    BY ProgramIsProgram DEF Placed
  <2>2. QED
    BY <2>1 DEF Placed
<1>2. CASE f # inspect_func_name
  <2>1. PICK c \in Seq(Line) : c = program.code[f]
    BY ProgramIsProgram DEF Placed
  <2>2. Code(f) = c
    BY <1>2, <2>1, CodeElsewhere
  <2>3. Line \subseteq Instruction
    BY DEF Line, Instruction
  <2>4. c \in Seq(Instruction) /\ Len(c) \in Nat
    BY <2>3
  <2>5. \A k \in 1..Len(c) : Fits(f, k, c[k])
    BY <1>2, <2>1, LineFits
  <2>6. QED
    BY <1>1, <2>2, <2>4, <2>5
<1>3. CASE f = inspect_func_name
  <2>1. PICK c \in Seq(Line) : c = program.code[f]
    BY ProgramIsProgram DEF Placed
  <2>2. PICK d : d = Code(f)
    OBVIOUS
  <2>3. /\ d \in Seq(Instruction)
        /\ Len(d) = Len(c) + 3
        /\ \A k \in 1..inspect_line_num : d[k] = c[k]
        /\ d[inspect_line_num + 1] = Inserted("ciovec", None)
        /\ d[inspect_line_num + 2] = Inserted("call", GetCwdFd)
        /\ d[inspect_line_num + 3] = Inserted("proc_exit", None)
        /\ \A k \in (inspect_line_num + 1)..Len(c) : d[k + 3] = c[k]
    BY <1>3, <2>1, <2>2, CodeHere DEF Placed
  <2>4. Len(c) \in Nat /\ Len(d) \in Nat /\ inspect_line_num <= Len(c)
    BY <1>3, <2>1, <2>3 DEF Placed
  <2>5. ASSUME NEW k \in 1..Len(d) PROVE Fits(f, k, d[k])
    <3>1. CASE k <= inspect_line_num
      <4>1. d[k] = c[k] /\ k \in 1..Len(c)
        BY <1>1, <2>3, <2>4, <3>1
      <4>2. ~(k \in (inspect_line_num + 1)..(inspect_line_num + 3))
        BY <1>1, <3>1
      <4>3. QED
        BY <2>1, <4>1, <4>2, LineFits
    <3>2. CASE k > inspect_line_num + 3
      <4>1. d[(k - 3) + 3] = c[k - 3] /\ k - 3 \in 1..Len(c) /\ (k - 3) + 3 = k
        <5>1. k - 3 \in (inspect_line_num + 1)..Len(c)
          BY <1>1, <2>3, <2>4, <3>2
        <5>2. QED
          BY <1>1, <2>3, <5>1
      <4>2. ~(k \in (inspect_line_num + 1)..(inspect_line_num + 3))
        BY <1>1, <3>2
      <4>3. QED
        BY <2>1, <4>1, <4>2, LineFits
    <3>3. CASE k = inspect_line_num + 1
      BY <1>1, <1>3, <2>3, <3>3 DEF Fits, Inserted, Instruction
    <3>4. CASE k = inspect_line_num + 2
      BY <1>1, <1>3, <2>3, <3>4 DEF Fits, Inserted, Instruction
    <3>5. CASE k = inspect_line_num + 3
      BY <1>1, <1>3, <2>3, <3>5 DEF Fits, Inserted, Instruction
    <3>6. QED
      BY <1>1, <2>4, <3>1, <3>2, <3>3, <3>4, <3>5
  <2>6. QED
    BY <1>1, <2>2, <2>3, <2>4, <2>5
<1>4. QED
  BY <1>2, <1>3

\* Nothing changes the program and the place of the inspection.
LEMMA Stays ==
  ASSUME UNCHANGED place
  PROVE  /\ program' = program /\ inspect_func_name' = inspect_func_name
         /\ inspect_line_num' = inspect_line_num
         /\ Placed' <=> Placed
         /\ names' = names /\ Frame' = Frame /\ Number' = Number
BY DEF place, Placed, names, Frame, Number

LEMMA CodeStays ==
  ASSUME UNCHANGED place, NEW f, NEW k
  PROVE  /\ Code(f)' = Code(f) /\ (Hooked(f, k)' <=> Hooked(f, k))
         /\ Nameless(f)' <=> Nameless(f)
         /\ funcname_map(f)' = funcname_map(f)
<1>1. program' = program /\ inspect_func_name' = inspect_func_name
      /\ inspect_line_num' = inspect_line_num /\ names' = names
  BY Stays
<1>2. Code(f)' = Code(f)
  BY <1>1 DEF Code
<1>3. QED
  BY <1>1, <1>2 DEF Hooked, Nameless, funcname_map

LEMMA GotoTyped ==
  ASSUME top \in Frame, NEW k \in Nat \ {0}
  PROVE  /\ Goto(k) \in Frame /\ Goto(k).func = top.func
         /\ Goto(k).pc = k /\ Goto(k).stage = "pre"
<1> DEFINE t == top
<1>1. t \in Frame
  OBVIOUS
<1>2. Goto(k) = [t EXCEPT !.pc = k, !.stage = "pre"]
  BY DEF Goto
<1> HIDE DEF t
<1>3. QED
  BY <1>1, <1>2 DEF Frame, Stage, t

LEMMA AfterCallTyped ==
  ASSUME NEW g \in Frame
  PROVE  /\ AfterCall(g) \in Frame /\ AfterCall(g).func = g.func
         /\ Hooked(g.func, g.pc) => AfterCall(g).pc = g.pc /\ AfterCall(g).stage = "post"
         /\ ~Hooked(g.func, g.pc) => AfterCall(g).pc = g.pc + 1 /\ AfterCall(g).stage = "pre"
<1>1. g.pc \in Nat \ {0} /\ g.pc + 1 \in Nat \ {0}
  BY DEF Frame
<1>2. CASE Hooked(g.func, g.pc)
  <2>1. AfterCall(g) = [g EXCEPT !.stage = "post"]
    BY <1>2 DEF AfterCall
  <2>2. QED
    BY <1>2, <2>1 DEF Frame, Stage
<1>3. CASE ~Hooked(g.func, g.pc)
  <2>1. AfterCall(g) = [g EXCEPT !.pc = @ + 1, !.stage = "pre"]
    BY <1>3 DEF AfterCall
  <2>2. QED
    BY <1>1, <1>3, <2>1 DEF Frame, Stage
<1>4. QED
  BY <1>2, <1>3

LEMMA EnterTyped ==
  ASSUME NEW f \in Defined(program)
  PROVE  /\ Enter(f) \in Frame /\ Enter(f).func = f /\ Enter(f).pc = 1
         /\ Enter(f).stage = IF f = program.start THEN "load" ELSE "pre"
BY DEF Enter, Frame, Stage

LEMMA TopReplaced ==
  ASSUME frames \in Seq(Frame), n > 0, NEW g \in Frame,
         NEW fs, fs = [frames EXCEPT ![n] = g]
  PROVE  /\ fs \in Seq(Frame) /\ Len(fs) = n /\ fs[n] = g
         /\ \A j \in 1..(n - 1) : fs[j] = frames[j]
BY DEF n

\* The type invariant in parts, what is about the calls and the rest.  What the
\* runtime has still to call are functions of the program, and the loader.
Calls ==
  /\ entries \in Seq(Defined(program) \cup {LoadData})
  /\ frames \in Seq(Frame) /\ Len(frames) <= MaxDepth
  /\ loaded \in 0..2
  /\ log \in Seq(Number) /\ Len(log) <= Room
  /\ called \subseteq Func \cup {GetCwdFd}

Report ==
  /\ ciovec \in Seq(Number) /\ ifile \in Seq(Number)
  /\ backtrace_idx \in Seq(0..(Len(names) - 1))
  /\ printed \in Seq(Func)
  /\ status \in {"running", "ended", "trap", "failed", "reading", "printed", "aborted", "undefined"}

TypeInv == Placed /\ Calls /\ Report

LEMMA TypeParts == TypeInv => TypeOK
<1> SUFFICES ASSUME Placed, Calls, Report PROVE TypeOK
  BY DEF TypeInv
<1>1. Defined(program) \cup {LoadData} \subseteq Func \cup {LoadData}
  BY ProgramIsProgram DEF Placed
<1>2. entries \in Seq(Func \cup {LoadData})
  BY <1>1 DEF Calls
<1>3. QED
  BY <1>2 DEF TypeOK, Placed, Calls, Report, Frame

LEMMA TopTyped ==
  ASSUME TypeInv, n > 0
  PROVE  /\ frames \in Seq(Frame) /\ n \in Nat \ {0} /\ n <= MaxDepth /\ Placed
         /\ top \in Frame /\ top.func \in Defined(program) /\ top.pc \in Nat \ {0}
         /\ \A j \in 1..n : frames[j] \in Frame
<1>1. frames \in Seq(Frame) /\ Placed /\ Len(frames) <= MaxDepth
  BY DEF TypeInv, Calls
<1>2. n \in Nat \ {0} /\ n <= MaxDepth /\ \A j \in 1..n : frames[j] \in Frame
  BY <1>1 DEF n
<1>3. top \in Frame
  BY <1>2 DEF top
<1>4. QED
  BY <1>1, <1>2, <1>3 DEF Frame

LEMMA InstTyped ==
  ASSUME TypeInv, Running
  PROVE  /\ n > 0 /\ status = "running"
         /\ Fits(top.func, top.pc, inst)
         /\ top.pc \in 1..Len(Code(top.func)) /\ Len(Code(top.func)) \in Nat
<1>1. n > 0 /\ status = "running" /\ top.pc <= Len(Code(top.func))
  BY DEF Running
<1>2. top.func \in Defined(program) /\ top.pc \in Nat \ {0} /\ Placed
  BY <1>1, TopTyped
<1>3. Len(Code(top.func)) \in Nat /\ \A k \in 1..Len(Code(top.func)) : Fits(top.func, k, Code(top.func)[k])
  BY <1>2, CodeTyped
<1>4. top.pc \in 1..Len(Code(top.func))
  BY <1>1, <1>2, <1>3
<1>5. QED
  BY <1>1, <1>3, <1>4 DEF inst

LEMMA TypeInit == Init => TypeInv
<1> SUFFICES ASSUME Init PROVE TypeInv
  OBVIOUS
<1>1. Placed
  BY DEF Init, Placed
<1>2. entries \in Seq(Defined(program) \cup {LoadData})
  <2> DEFINE D == Defined(program) \cup {LoadData}
  <2>1. program.main \in D /\ LoadData \in D /\ (program.init = None \/ program.init \in D)
    BY <1>1, ProgramIsProgram DEF Placed
  <2>2. /\ (<<program.main>>) \in Seq(D) /\ (<<LoadData, program.main>>) \in Seq(D)
        /\ program.init = None \/ (<<program.init>>) \in Seq(D)
    <3> HIDE DEF D
    <3> QED
      BY <2>1
  <2>3. (IF program.init = None THEN <<>> ELSE <<program.init>>) \o <<program.main>> \in Seq(D)
    <3> HIDE DEF D
    <3>1. CASE program.init = None
      <4>1. <<>> \o <<program.main>> \in Seq(D)
        BY <2>2, ConcatProperties, EmptySeq
      <4>2. QED
        BY <3>1, <4>1
    <3>2. CASE program.init # None
      <4>1. <<program.init>> \o <<program.main>> \in Seq(D)
        BY <2>2, <3>2, ConcatProperties
      <4>2. QED
        BY <3>2, <4>1
    <3>3. QED
      BY <3>1, <3>2
  <2>4. QED
    BY <2>2, <2>3 DEF Init, InstrumentedEntries
<1>3. Calls
  <2>1. MaxDepth \in Nat /\ Room \in Nat
    BY ProgramConstants, BacktraceConstants
  <2>2. QED
    BY <1>2, <2>1 DEF Init, Calls
<1>4. Report
  BY DEF Init, Report
<1>5. QED
  BY <1>1, <1>3, <1>4 DEF TypeInv

LEMMA PlaceStays == ASSUME [Next]_vars PROVE UNCHANGED place
BY DEF Next, vars, Begin, Load, HookBefore, HookAfter, Other, Branch, CallOut, Call, Return,
       Finish, Ciovec, ProcExit, ReadNumber, PrintBacktrace, Stopped

LEMMA CallsStay ==
  ASSUME Calls, UNCHANGED place
  PROVE  /\ UNCHANGED <<entries, loaded, log, called>> /\ frames' \in Seq(Frame) /\ Len(frames') <= MaxDepth
              => Calls'
         /\ UNCHANGED machine => Calls'
BY Stays DEF Calls, machine

LEMMA StoreTyped ==
  ASSUME Calls, NEW x \in Number, Store(x)
  PROVE  /\ log' \in Seq(Number) /\ Len(log') <= Room
         /\ status' = status \/ status' = "trap"
<1>1. log \in Seq(Number) /\ Len(log) <= Room /\ Room \in Nat
  BY BacktraceConstants DEF Calls
<1>2. CASE loaded > 0 /\ Len(log) < Room
  <2>1. log' = Append(log, x) /\ status' = status
    BY <1>2 DEF Store
  <2>2. Append(log, x) \in Seq(Number) /\ Len(Append(log, x)) = Len(log) + 1
    BY <1>1, AppendProperties
  <2>3. QED
    BY <1>1, <1>2, <2>1, <2>2
<1>3. CASE ~(loaded > 0 /\ Len(log) < Room)
  BY <1>1, <1>3 DEF Store
<1>4. QED
  BY <1>2, <1>3

\* What is known when a step begins at an instruction or a stage of the top frame
LEMMA TypeContext ==
  ASSUME TypeInv, n > 0
  PROVE  /\ Placed /\ Calls /\ Report /\ frames \in Seq(Frame) /\ n \in Nat \ {0} /\ n <= MaxDepth
         /\ top \in Frame /\ top.func \in Defined(program) /\ top.pc \in Nat \ {0}
         /\ \A j \in 1..n : frames[j] \in Frame
BY TopTyped DEF TypeInv

LEMMA TopFrames ==
  ASSUME TypeInv, n > 0, NEW g \in Frame, Top(g), UNCHANGED place
  PROVE  /\ frames' \in Seq(Frame) /\ Len(frames') <= MaxDepth
         /\ n' = n /\ frames'[n] = g /\ \A j \in 1..(n - 1) : frames'[j] = frames[j]
<1>1. /\ frames' \in Seq(Frame) /\ Len(frames') = n /\ frames'[n] = g
      /\ \A j \in 1..(n - 1) : frames'[j] = frames[j]
  BY TypeContext, TopReplaced DEF Top
<1>2. n' = Len(frames')
  BY DEF n
<1>3. QED
  BY <1>1, <1>2, TypeContext

LEMMA TypeBegin == ASSUME TypeInv, Begin PROVE TypeInv'
<1>1. Placed /\ Calls /\ Report /\ UNCHANGED place
  BY DEF Begin, TypeInv
<1>2. entries \in Seq(Defined(program) \cup {LoadData}) /\ entries # <<>>
  BY <1>1 DEF Calls, Begin
<1>3. entries' \in Seq(Defined(program) \cup {LoadData}) /\ Head(entries) \in Defined(program) \cup {LoadData}
  <2> DEFINE D == Defined(program) \cup {LoadData}
  <2> HIDE DEF D
  <2>1. entries \in Seq(D)
    BY <1>2 DEF D
  <2>2. Tail(entries) \in Seq(D) /\ Head(entries) \in D
    BY <1>2, <2>1, HeadTailProperties
  <2>3. QED
    BY <2>2 DEF Begin, D
<1>4. frames' \in Seq(Frame) /\ Len(frames') <= MaxDepth
  <2>1. CASE Head(entries) = LoadData
    BY <1>1, <2>1 DEF Begin, Calls
  <2>2. CASE Head(entries) # LoadData
    <3>1. Enter(Head(entries)) \in Frame /\ frames' = <<Enter(Head(entries))>>
      BY <1>3, <2>2, EnterTyped DEF Begin
    <3>2. (<<Enter(Head(entries))>>) \in Seq(Frame) /\ Len(<<Enter(Head(entries))>>) = 1
      BY <3>1
    <3>3. MaxDepth \in Nat \ {0}
      BY ProgramConstants
    <3>4. QED
      BY <3>1, <3>2, <3>3
  <2>3. QED
    BY <2>1, <2>2
<1>5. loaded' \in 0..2
  BY <1>1 DEF Begin, Calls
<1>6. Calls'
  BY <1>1, <1>3, <1>4, <1>5, Stays DEF Begin, Calls
<1>7. Report' /\ Placed'
  BY <1>1, Stays DEF Begin, Report, replay
<1>8. QED
  BY <1>6, <1>7 DEF TypeInv

LEMMA TypeLoad == ASSUME TypeInv, Load PROVE TypeInv'
<1>1. n > 0 /\ UNCHANGED place
  BY DEF Load, Running
<1>2. Placed /\ Calls /\ Report /\ top \in Frame
  BY <1>1, TypeContext
<1>3. Report' /\ Placed'
  BY <1>1, <1>2, Stays DEF Load, Report, replay
<1>4. CASE UNCHANGED <<loaded, log, frames>>
  BY <1>1, <1>2, <1>3, <1>4, CallsStay DEF Load, Calls, TypeInv
<1>5. CASE /\ loaded' = IF loaded = 0 THEN 1 ELSE 2
           /\ log' = [k \in DOMAIN log |-> 0]
           /\ Top([top EXCEPT !.stage = "pre"])
  <2>1. [top EXCEPT !.stage = "pre"] \in Frame
    BY <1>2 DEF Frame, Stage
  <2>2. frames' \in Seq(Frame) /\ Len(frames') <= MaxDepth
    BY <1>1, <1>5, <2>1, TopFrames
  <2>3. log' \in Seq(Number) /\ Len(log') <= Room
    <3>1. log \in Seq(Number) /\ Len(log) \in Nat /\ DOMAIN log = 1..Len(log) /\ Len(log) <= Room
      BY <1>2 DEF Calls
    <3>2. 0 \in Number
      BY <1>2, NamesTyped DEF Number
    <3>3. log' \in [1..Len(log) -> Number]
      BY <1>5, <3>1, <3>2
    <3>4. log' \in Seq(Number)
      BY <3>1, <3>3, SeqDef
    <3>5. Len(log') = Len(log)
      BY <3>1, <3>3, <3>4
    <3>6. QED
      BY <3>1, <3>4, <3>5
  <2>4. Calls'
    BY <1>1, <1>2, <1>5, <2>2, <2>3, Stays DEF Load, Calls
  <2>5. QED
    BY <1>3, <2>4 DEF TypeInv
<1>6. QED
  BY <1>4, <1>5 DEF Load

\* The steps of the hooks
LEMMA TypeHook ==
  ASSUME TypeInv, n > 0, NEW g \in Frame, Top(g), NEW x \in Number, Store(x), UNCHANGED place,
         UNCHANGED <<entries, loaded, ciovec, replay>>, called' \subseteq Func \cup {GetCwdFd}
  PROVE  TypeInv'
<1>1. Placed /\ Calls /\ Report
  BY TypeContext
<1>2. frames' \in Seq(Frame) /\ Len(frames') <= MaxDepth
  BY TopFrames
<1>3. log' \in Seq(Number) /\ Len(log') <= Room /\ (status' = status \/ status' = "trap")
  BY <1>1, StoreTyped
<1>4. Calls'
  BY <1>1, <1>2, <1>3, Stays DEF Calls
<1>5. Report' /\ Placed'
  BY <1>1, <1>3, Stays DEF Report, replay
<1>6. QED
  BY <1>4, <1>5 DEF TypeInv

LEMMA CalledTyped ==
  ASSUME TypeInv, Running, inst.op = "call"
  PROVE  inst.to \in Func \cup {GetCwdFd}
<1>1. Fits(top.func, top.pc, inst) /\ Placed
  BY InstTyped DEF TypeInv
<1>2. Defined(program) \cup Imports(program) \subseteq Func
  BY <1>1, ProgramIsProgram DEF Placed
<1>3. QED
  BY <1>1, <1>2 DEF Fits

LEMMA TypeHookBefore == ASSUME TypeInv, HookBefore PROVE TypeInv'
<1>1. n > 0 /\ Running /\ inst.op = "call"
  BY DEF HookBefore, Running, Hooked, inst
<1>2. Placed /\ Calls /\ top \in Frame
  BY <1>1, TypeContext
<1>3. [top EXCEPT !.stage = "inst"] \in Frame
  BY <1>2 DEF Frame, Stage
<1>4. called' \subseteq Func \cup {GetCwdFd}
  BY <1>1, <1>2, CalledTyped DEF HookBefore, Calls
<1>5. funcname_map(inst.to) \in Number
  BY <1>2, NumberTyped
<1>6. QED
  BY <1>1, <1>3, <1>4, <1>5, TypeHook DEF HookBefore

LEMMA TypeHookAfter == ASSUME TypeInv, HookAfter PROVE TypeInv'
<1>1. n > 0 /\ Running
  BY DEF HookAfter, Running
<1>2. Placed /\ Calls /\ top \in Frame /\ top.pc \in Nat \ {0}
  BY <1>1, TypeContext
<1>3. Goto(top.pc + 1) \in Frame
  BY <1>2, GotoTyped
<1>4. -1 \in Number
  BY <1>2, NamesTyped DEF Number
<1>5. called' \subseteq Func \cup {GetCwdFd}
  BY <1>2 DEF HookAfter, Calls
<1>6. QED
  BY <1>1, <1>3, <1>4, <1>5, TypeHook DEF HookAfter

\* The steps that only move in the code
LEMMA TypeMove ==
  ASSUME TypeInv, UNCHANGED place, UNCHANGED <<entries, loaded, log, called>>,
         frames' \in Seq(Frame), Len(frames') <= MaxDepth, Report'
  PROVE  TypeInv'
BY Stays DEF TypeInv, Calls

LEMMA ReportStays ==
  ASSUME TypeInv, UNCHANGED place, UNCHANGED <<ciovec, replay>>,
         status' = status \/ status' \in {"trap", "ended", "failed"}
  PROVE  Report'
BY Stays DEF TypeInv, Report, replay

LEMMA TypeOther == ASSUME TypeInv, Other PROVE TypeInv'
<1>1. n > 0 /\ UNCHANGED place
  BY DEF Other, At, Running
<1>2. Goto(top.pc + 1) \in Frame
  BY <1>1, TypeContext, GotoTyped
<1>3. frames' \in Seq(Frame) /\ Len(frames') <= MaxDepth
  BY <1>1, <1>2, TopFrames DEF Other
<1>4. QED
  BY <1>1, <1>3, TypeMove, ReportStays DEF Other

LEMMA TypeBranch == ASSUME TypeInv, Branch PROVE TypeInv'
<1>1. n > 0 /\ UNCHANGED place /\ Running /\ inst.op = "br_if"
  BY DEF Branch, At, Running
<1>2. Shifted(top.func, inst.label) \in Nat \ {0}
  BY <1>1, InstTyped DEF Fits
<1>3. Goto(Shifted(top.func, inst.label)) \in Frame
  BY <1>1, <1>2, TypeContext, GotoTyped
<1>4. frames' \in Seq(Frame) /\ Len(frames') <= MaxDepth
  BY <1>1, <1>3, TopFrames DEF Branch
<1>5. QED
  BY <1>1, <1>4, TypeMove, ReportStays DEF Branch

LEMMA TypeCallOut == ASSUME TypeInv, CallOut PROVE TypeInv'
<1>1. n > 0 /\ UNCHANGED place
  BY DEF CallOut, At, Running
<1>2. AfterCall(top) \in Frame
  BY <1>1, TypeContext, AfterCallTyped
<1>3. frames' \in Seq(Frame) /\ Len(frames') <= MaxDepth
  <2>1. CASE Top(AfterCall(top))
    BY <1>1, <1>2, <2>1, TopFrames
  <2>2. CASE UNCHANGED frames
    BY <1>1, <2>2, TypeContext DEF n
  <2>3. QED
    BY <2>1, <2>2 DEF CallOut
<1>4. QED
  BY <1>1, <1>3, TypeMove, ReportStays DEF CallOut

\* A call adds a frame, and its caller is in the middle of its instruction.
LEMMA CallFrames ==
  ASSUME TypeInv, n > 0, NEW f \in Defined(program),
         NEW fs, fs = Append([frames EXCEPT ![n].stage = "inst"], Enter(f))
  PROVE  /\ fs \in Seq(Frame) /\ Len(fs) = n + 1
         /\ fs[n + 1] = Enter(f)
         /\ fs[n] \in Frame /\ fs[n].func = top.func /\ fs[n].pc = top.pc /\ fs[n].stage = "inst"
         /\ \A j \in 1..(n - 1) : fs[j] = frames[j]
<1>1. /\ frames \in Seq(Frame) /\ n \in Nat \ {0} /\ top \in Frame /\ n = Len(frames)
      /\ top = frames[n]
  BY TypeContext DEF n, top
<1>2. PICK g \in Frame : /\ g = [top EXCEPT !.stage = "inst"]
                         /\ g.func = top.func /\ g.pc = top.pc /\ g.stage = "inst"
  BY <1>1 DEF Frame, Stage
<1>3. PICK gs : gs = [frames EXCEPT ![n] = g]
  OBVIOUS
<1>4. [frames EXCEPT ![n].stage = "inst"] = gs
  BY <1>1, <1>2, <1>3
<1>5. gs \in Seq(Frame) /\ Len(gs) = n /\ gs[n] = g /\ \A j \in 1..(n - 1) : gs[j] = frames[j]
  BY <1>1, <1>3, TopReplaced
<1>6. Enter(f) \in Frame
  BY EnterTyped
<1>7. fs = Append(gs, Enter(f))
  BY <1>4
<1>8. /\ fs \in Seq(Frame) /\ Len(fs) = n + 1 /\ fs[n + 1] = Enter(f)
      /\ \A j \in 1..n : fs[j] = gs[j]
  <2>1. PICK e \in Frame : e = Enter(f)
    BY <1>6
  <2>2. /\ Append(gs, e) \in Seq(Frame) /\ Len(Append(gs, e)) = n + 1 /\ Append(gs, e)[n + 1] = e
        /\ \A j \in 1..n : Append(gs, e)[j] = gs[j]
    BY <1>5, <2>1, AppendProperties
  <2>3. fs = Append(gs, e)
    BY <1>7, <2>1
  <2> HIDE <1>7
  <2>4. QED
    BY <2>1, <2>2, <2>3, Zenon
<1>9. QED
  BY <1>1, <1>2, <1>5, <1>8

LEMMA TypeCall == ASSUME TypeInv, Call PROVE TypeInv'
<1>1. n > 0 /\ UNCHANGED place
  BY DEF Call, At, Running
<1>2. frames' \in Seq(Frame) /\ Len(frames') <= MaxDepth
  <2>1. CASE UNCHANGED frames
    BY <1>1, <2>1, TypeContext DEF n
  <2>2. CASE \E f \in Defined(program) :
               n < MaxDepth /\ frames' = Append([frames EXCEPT ![n].stage = "inst"], Enter(f))
    <3>1. frames' \in Seq(Frame) /\ Len(frames') = n + 1
      BY <1>1, <2>2, CallFrames
    <3>2. MaxDepth \in Nat /\ n \in Nat
      BY <1>1, ProgramConstants, TypeContext
    <3>3. QED
      BY <2>2, <3>1, <3>2
  <2>3. QED
    BY <2>1, <2>2 DEF Call
<1>3. status' = status \/ status' = "trap"
  BY DEF Call
<1>4. QED
  BY <1>1, <1>2, <1>3, TypeMove, ReportStays DEF Call

\* A return removes a frame, and its caller goes on.
LEMMA ReturnFrames ==
  ASSUME TypeInv, n > 1,
         NEW fs, fs = [SubSeq(frames, 1, n - 1) EXCEPT ![n - 1] = AfterCall(@)]
  PROVE  /\ fs \in Seq(Frame) /\ Len(fs) = n - 1
         /\ frames[n - 1] \in Frame /\ fs[n - 1] = AfterCall(frames[n - 1])
         /\ \A j \in 1..(n - 2) : fs[j] = frames[j]
<1>1. /\ frames \in Seq(Frame) /\ n \in Nat \ {0} /\ n = Len(frames)
      /\ \A j \in 1..n : frames[j] \in Frame
  BY TypeContext DEF n
<1>2. PICK gs : gs = SubSeq(frames, 1, n - 1)
  OBVIOUS
<1>3. gs \in Seq(Frame) /\ Len(gs) = n - 1 /\ \A j \in 1..(n - 1) : gs[j] = frames[j]
  BY <1>1, <1>2, SubSeqProperties
<1>4. AfterCall(gs[n - 1]) \in Frame /\ gs[n - 1] = frames[n - 1]
  BY <1>1, <1>3, AfterCallTyped
<1>5. fs = [gs EXCEPT ![n - 1] = AfterCall(gs[n - 1])]
  BY <1>2
<1>6. /\ fs \in Seq(Frame) /\ Len(fs) = n - 1
      /\ \A j \in 1..(n - 1) : fs[j] = IF j = n - 1 THEN AfterCall(gs[n - 1]) ELSE gs[j]
  <2>1. PICK a \in Frame : a = AfterCall(gs[n - 1])
    BY <1>4
  <2>2. n - 1 \in 1..Len(gs)
    BY <1>1, <1>3
  <2>3. PICK es : es = [gs EXCEPT ![n - 1] = a]
    OBVIOUS
  <2>4. /\ es \in Seq(Frame) /\ Len(es) = n - 1
        /\ \A j \in 1..(n - 1) : es[j] = IF j = n - 1 THEN a ELSE gs[j]
    BY <1>1, <1>3, <2>2, <2>3, ExceptSeq
  <2>5. fs = es
    BY <1>5, <2>1, <2>3
  <2>6. QED
    BY <2>1, <2>4, <2>5, Zenon
<1>7. QED
  BY <1>1, <1>3, <1>4, <1>6

LEMMA TypeReturn == ASSUME TypeInv, Return PROVE TypeInv'
<1>1. n > 0 /\ UNCHANGED place
  BY DEF Return
<1>2. frames' \in Seq(Frame) /\ Len(frames') <= MaxDepth
  <2>1. MaxDepth \in Nat /\ n \in Nat /\ n <= MaxDepth
    BY <1>1, ProgramConstants, TypeContext
  <2>2. CASE n = 1
    BY <2>1, <2>2, EmptySeq DEF Return
  <2>3. CASE n # 1
    <3>1. n > 1
      BY <1>1, <2>1, <2>3
    <3>2. frames' = [SubSeq(frames, 1, n - 1) EXCEPT ![n - 1] = AfterCall(@)]
      BY <2>3 DEF Return
    <3>3. frames' \in Seq(Frame) /\ Len(frames') = n - 1
      BY <3>1, <3>2, ReturnFrames
    <3>4. QED
      BY <2>1, <3>3
  <2>4. QED
    BY <2>2, <2>3
<1>3. QED
  BY <1>1, <1>2, TypeMove, ReportStays DEF Return

LEMMA TypeFinish == ASSUME TypeInv, Finish PROVE TypeInv'
BY CallsStay, ReportStays, Stays DEF TypeInv, Finish

LEMMA TypeCiovec == ASSUME TypeInv, Ciovec PROVE TypeInv'
<1>1. n > 0 /\ UNCHANGED place
  BY DEF Ciovec, At, Running
<1>2. Goto(top.pc + 1) \in Frame
  BY <1>1, TypeContext, GotoTyped
<1>3. frames' \in Seq(Frame) /\ Len(frames') <= MaxDepth
  BY <1>1, <1>2, TopFrames DEF Ciovec
<1>4. Report'
  BY <1>1, Stays DEF Ciovec, TypeInv, Calls, Report, replay
<1>5. QED
  BY <1>1, <1>3, <1>4, TypeMove DEF Ciovec

LEMMA TypeProcExit == ASSUME TypeInv, ProcExit PROVE TypeInv'
<1>1. UNCHANGED place /\ UNCHANGED machine
  BY DEF ProcExit
<1>2. Report'
  BY <1>1, Stays DEF ProcExit, TypeInv, Report
<1>3. QED
  BY <1>1, <1>2, CallsStay, Stays DEF TypeInv

LEMMA TypeReadNumber == ASSUME TypeInv, ReadNumber PROVE TypeInv'
<1>1. UNCHANGED place /\ UNCHANGED machine /\ Placed
  BY DEF ReadNumber, TypeInv
<1>2. Head(ifile) \in Number /\ ifile' \in Seq(Number)
  <2>1. ifile \in Seq(Number) /\ ifile # <<>>
    BY DEF ReadNumber, TypeInv, Report
  <2>2. QED
    BY <2>1, HeadTailProperties DEF ReadNumber
<1>3. backtrace_idx' \in Seq(0..(Len(names) - 1))
  <2> DEFINE I == 0..(Len(names) - 1)
  <2>1. backtrace_idx \in Seq(I)
    BY DEF TypeInv, Report
  <2>2. ASSUME Head(ifile) >= 0, backtrace_idx' = Append(backtrace_idx, Head(ifile))
        PROVE  backtrace_idx' \in Seq(I)
    <3>1. Head(ifile) \in I
      BY <1>1, <1>2, <2>2, NamesTyped DEF Number
    <3> HIDE DEF I
    <3>2. QED
      BY <2>1, <2>2, <3>1, AppendProperties
  <2>3. ASSUME backtrace_idx # <<>>,
               backtrace_idx' = SubSeq(backtrace_idx, 1, Len(backtrace_idx) - 1)
        PROVE  backtrace_idx' \in Seq(I)
    <3> HIDE DEF I
    <3>1. Len(backtrace_idx) \in Nat /\ \A k \in 1..(Len(backtrace_idx) - 1) : backtrace_idx[k] \in I
      BY <2>1
    <3>2. QED
      BY <2>3, <3>1, SubSeqProperties
  <2>4. CASE UNCHANGED backtrace_idx
    BY <2>1, <2>4
  <2>5. QED
    BY <2>2, <2>3, <2>4 DEF ReadNumber
<1>4. Report'
  BY <1>1, <1>2, <1>3, Stays DEF ReadNumber, TypeInv, Report
<1>5. QED
  BY <1>1, <1>4, CallsStay, Stays DEF TypeInv

LEMMA TypePrintBacktrace == ASSUME TypeInv, PrintBacktrace PROVE TypeInv'
<1>1. UNCHANGED place /\ UNCHANGED machine /\ Placed
  BY DEF PrintBacktrace, TypeInv
<1>2. printed' \in Seq(Func)
  <2> DEFINE b == Len(backtrace_idx)
             I == 0..(Len(names) - 1)
  <2>1. backtrace_idx \in Seq(I)
    BY DEF TypeInv, Report
  <2>2. b \in Nat /\ \A k \in 1..b : backtrace_idx[k] \in I
    <3> HIDE DEF I
    <3> QED
      BY <2>1
  <2>3. \A k \in 1..b : names[backtrace_idx[b + 1 - k] + 1] \in Func
    <3> TAKE k \in 1..b
    <3>1. b + 1 - k \in 1..b
      BY <2>2
    <3>2. backtrace_idx[b + 1 - k] \in I
      BY <2>2, <3>1
    <3>3. backtrace_idx[b + 1 - k] + 1 \in 1..Len(names)
      BY <1>1, <3>2, NamesTyped
    <3>4. QED
      BY <1>1, <3>3, NamesTyped
  <2>4. printed' = [k \in 1..b |-> names[backtrace_idx[b + 1 - k] + 1]]
    BY DEF PrintBacktrace
  <2> HIDE DEF b
  <2>5. printed' \in [1..b -> Func]
    BY <2>3, <2>4
  <2>6. QED
    BY <2>2, <2>5, SeqDef
<1>3. Report'
  BY <1>1, <1>2, Stays DEF PrintBacktrace, TypeInv, Report
<1>4. QED
  BY <1>1, <1>3, CallsStay, Stays DEF TypeInv

LEMMA TypeStill == ASSUME TypeInv, UNCHANGED vars PROVE TypeInv'
<1>1. UNCHANGED place /\ UNCHANGED machine
  BY DEF vars
<1>2. Report'
  BY <1>1, ReportStays DEF vars
<1>3. QED
  BY <1>1, <1>2, CallsStay, Stays DEF TypeInv

LEMMA TypeStep == TypeInv /\ [Next]_vars => TypeInv'
<1> SUFFICES ASSUME TypeInv, [Next]_vars PROVE TypeInv'
  OBVIOUS
<1>1. CASE Begin
  BY <1>1, TypeBegin
<1>2. CASE Load
  BY <1>2, TypeLoad
<1>3. CASE HookBefore
  BY <1>3, TypeHookBefore
<1>4. CASE HookAfter
  BY <1>4, TypeHookAfter
<1>5. CASE Other
  BY <1>5, TypeOther
<1>6. CASE Branch
  BY <1>6, TypeBranch
<1>7. CASE CallOut
  BY <1>7, TypeCallOut
<1>8. CASE Call
  BY <1>8, TypeCall
<1>9. CASE Return
  BY <1>9, TypeReturn
<1>10. CASE Finish
  BY <1>10, TypeFinish
<1>11. CASE Ciovec
  BY <1>11, TypeCiovec
<1>12. CASE ProcExit
  BY <1>12, TypeProcExit
<1>13. CASE ReadNumber
  BY <1>13, TypeReadNumber
<1>14. CASE PrintBacktrace
  BY <1>14, TypePrintBacktrace
<1>15. CASE Stopped \/ UNCHANGED vars
  BY <1>15, TypeStill DEF Stopped
<1>16. QED
  BY <1>1, <1>2, <1>3, <1>4, <1>5, <1>6, <1>7, <1>8, <1>9, <1>10, <1>11, <1>12, <1>13,
     <1>14, <1>15 DEF Next

LEMMA TypeAlways == Spec => []TypeInv
<1>1. QED
  BY TypeInit, TypeStep, PTL DEF Spec

\* Every variable has its type, for every program and every place of the
\* inspection: the numbers logged are numbers of functions, -1 or -2, the log
\* stays within its page and the calls within their bound.
THEOREM TypeCorrect == Spec => []TypeOK
<1>1. TypeInv => TypeOK
  BY TypeParts
<1>2. QED
  BY <1>1, TypeAlways, PTL

-----------------------------------------------------------------------------
(***************************************************************************)
(* The call stack.  To replay a log gives a stack of numbers after each of *)
(* its entries.  The invariant: the last of these stacks are the numbers   *)
(* of the calls whose first hook has run and whose second has not, the     *)
(* outermost first.                                                        *)
(***************************************************************************)

(***************************************************************************)
(* Replaying a log                                                         *)
(***************************************************************************)
Short(s) == SubSeq(s, 1, Len(s) - 1)

\* R[k] is the stack after k entries of log l.
Replays(R, l) ==
  /\ R \in [0..Len(l) -> Seq(Int)]
  /\ R[0] = <<>>
  /\ \A k \in 1..Len(l) :
       /\ l[k] = -1 => R[k - 1] # <<>> /\ R[k] = Short(R[k - 1])
       /\ l[k] # -1 => R[k] = Append(R[k - 1], l[k])
  /\ \A k \in 0..Len(l) : Len(R[k]) <= k

LEMMA ShortProperties ==
  ASSUME NEW S, NEW s \in Seq(S), s # <<>>
  PROVE  /\ Short(s) \in Seq(S) /\ Len(Short(s)) = Len(s) - 1 /\ Len(s) \in Nat \ {0}
         /\ \A k \in 1..(Len(s) - 1) : Short(s)[k] = s[k]
<1>1. Len(s) \in Nat \ {0} /\ \A k \in 1..Len(s) : s[k] \in S
  BY EmptySeq
<1>2. PICK p \in Nat : p = Len(s) - 1
  BY <1>1
<1>3. \A k \in 1..p : s[k] \in S
  BY <1>1, <1>2
<1>4. /\ SubSeq(s, 1, p) \in Seq(S) /\ Len(SubSeq(s, 1, p)) = p
      /\ \A k \in 1..p : SubSeq(s, 1, p)[k] = s[k]
  BY <1>2, <1>3, SubSeqProperties
<1>5. Short(s) = SubSeq(s, 1, p)
  BY <1>2 DEF Short
<1>6. QED
  BY <1>1, <1>2, <1>4, <1>5

LEMMA ReplaysNothing == Replays([k \in 0..0 |-> <<>>], <<>>)
<1>1. (<<>>) \in Seq(Int) /\ Len(<<>>) = 0
  OBVIOUS
<1>2. QED
  BY <1>1 DEF Replays

\* Entry x of a log turns stack s into stack r.
Turns(x, s, r) ==
  /\ x = -1 => s # <<>> /\ r = Short(s)
  /\ x # -1 => r = Append(s, x)

\* Q replays l and x after it, to stack r.
Continues(Q, l, x, r) == Replays(Q, Append(l, x)) /\ Q[Len(l) + 1] = r

LEMMA ReplaysMore ==
  ASSUME NEW l \in Seq(Int), NEW R, Replays(R, l), NEW x \in Int, NEW r \in Seq(Int),
         Turns(x, R[Len(l)], r)
  PROVE  \E Q : Continues(Q, l, x, r)
<1> USE DEF Turns
<1>1. PICK m \in Seq(Int) : m = Append(l, x)
  BY AppendProperties
<1>2. Len(l) \in Nat /\ Len(m) = Len(l) + 1 /\ m[Len(l) + 1] = x /\ \A k \in 1..Len(l) : m[k] = l[k]
  BY <1>1, AppendProperties
<1>3. PICK Q : Q = [k \in 0..Len(m) |-> IF k <= Len(l) THEN R[k] ELSE r]
  OBVIOUS
<1>4. Q \in [0..Len(m) -> Seq(Int)]
  <2>1. ASSUME NEW k \in 0..Len(m), k <= Len(l) PROVE R[k] \in Seq(Int)
    <3>1. k \in 0..Len(l)
      BY <1>2, <2>1
    <3>2. QED
      BY <3>1 DEF Replays
  <2>2. \A k \in 0..Len(m) : (IF k <= Len(l) THEN R[k] ELSE r) \in Seq(Int)
    BY <2>1
  <2>3. QED
    BY <1>3, <2>2
<1>5. /\ \A k \in 0..Len(l) : Q[k] = R[k]
      /\ Q[Len(l) + 1] = r
  BY <1>2, <1>3
<1>6. Q[0] = <<>>
  BY <1>2, <1>5 DEF Replays
<1>7. ASSUME NEW k \in 1..Len(m)
      PROVE  /\ m[k] = -1 => Q[k - 1] # <<>> /\ Q[k] = Short(Q[k - 1])
             /\ m[k] # -1 => Q[k] = Append(Q[k - 1], m[k])
  <2>1. CASE k \in 1..Len(l)
    <3>1. k - 1 \in 0..Len(l) /\ k \in 0..Len(l)
      BY <1>2, <2>1
    <3>2. m[k] = l[k] /\ Q[k - 1] = R[k - 1] /\ Q[k] = R[k]
      BY <1>2, <1>5, <2>1, <3>1
    <3>3. QED
      BY <2>1, <3>2, Zenon DEF Replays
  <2>2. CASE k = Len(l) + 1
    <3>1. k - 1 = Len(l) /\ Len(l) \in 0..Len(l)
      BY <1>2, <2>2
    <3>2. m[k] = x /\ Q[k - 1] = R[Len(l)] /\ Q[k] = r
      BY <1>2, <1>5, <2>2, <3>1
    <3>3. QED
      BY <3>2, Zenon
  <2>3. QED
    BY <1>2, <2>1, <2>2
<1>8. ASSUME NEW k \in 0..Len(m) PROVE Len(Q[k]) <= k
  <2>1. CASE k \in 0..Len(l)
    BY <1>5, <2>1 DEF Replays
  <2>2. CASE k = Len(l) + 1
    <3>1. PICK s \in Seq(Int) : s = R[Len(l)] /\ Len(s) <= Len(l)
      BY <1>2 DEF Replays
    <3>2. Len(r) <= Len(s) + 1
      <4>1. CASE x = -1
        BY <3>1, <4>1, ShortProperties
      <4>2. CASE x # -1
        BY <3>1, <4>2, AppendProperties
      <4>3. QED
        BY <4>1, <4>2
    <3>3. Len(r) \in Nat /\ Len(s) \in Nat
      BY <3>1
    <3>4. QED
      BY <1>2, <1>5, <2>2, <3>1, <3>2, <3>3
  <2>3. QED
    BY <1>2, <2>1, <2>2
<1>9. Replays(Q, m)
  BY <1>4, <1>6, <1>7, <1>8 DEF Replays
<1>10. QED
  BY <1>1, <1>5, <1>9 DEF Continues

\* A log of zeros pushes them all.
LEMMA ReplaysZeros ==
  ASSUME NEW c \in Nat, NEW l \in Seq(Int), Len(l) = c, \A k \in 1..c : l[k] = 0
  PROVE  \E R : Replays(R, l) /\ Len(R[c]) = c
<1>1. PICK R : R = [k \in 0..c |-> [i \in 1..k |-> 0]]
  OBVIOUS
<1>2. ASSUME NEW k \in 0..c
      PROVE  R[k] \in Seq(Int) /\ Len(R[k]) = k /\ DOMAIN R[k] = 1..k /\ \A i \in 1..k : R[k][i] = 0
  <2>1. R[k] = [i \in 1..k |-> 0] /\ k \in Nat
    BY <1>1
  <2>2. R[k] \in [1..k -> Int] /\ DOMAIN R[k] = 1..k /\ \A i \in 1..k : R[k][i] = 0
    BY <2>1
  <2>3. R[k] \in Seq(Int)
    BY <2>1, <2>2, SeqDef
  <2>4. Len(R[k]) \in Nat /\ DOMAIN R[k] = 1..Len(R[k])
    BY <2>3
  <2>5. Len(R[k]) = k
    BY <2>1, <2>2, <2>4
  <2>6. QED
    BY <2>2, <2>3, <2>5
<1>3. R \in [0..c -> Seq(Int)]
  BY <1>1, <1>2
<1>4. R[0] = <<>>
  BY <1>2, EmptySeq
<1>5. ASSUME NEW k \in 1..c PROVE R[k] = Append(R[k - 1], l[k])
  <2>1. PICK s \in Seq(Int) : s = R[k - 1] /\ Len(s) = k - 1 /\ \A i \in 1..(k - 1) : s[i] = 0
    <3>1. k - 1 \in 0..c
      OBVIOUS
    <3>2. QED
      BY <1>2, <3>1, Zenon
  <2>2. PICK t \in Seq(Int) : t = R[k] /\ Len(t) = k /\ \A i \in 1..k : t[i] = 0
    BY <1>2
  <2>3. l[k] = 0 /\ 0 \in Int
    OBVIOUS
  <2>4. PICK a \in Seq(Int) : a = Append(s, l[k])
    BY <2>3, AppendProperties
  <2>5. Len(a) = k /\ a[k] = 0 /\ \A i \in 1..(k - 1) : a[i] = 0
    <3>1. Len(a) = Len(s) + 1 /\ a[Len(s) + 1] = l[k] /\ \A i \in 1..Len(s) : a[i] = s[i]
      BY <2>3, <2>4, AppendProperties
    <3>2. k \in Nat /\ Len(s) + 1 = k /\ Len(s) = k - 1
      BY <2>1
    <3>3. \A i \in 1..(k - 1) : a[i] = s[i]
      BY <3>1, <3>2, Zenon
    <3>4. QED
      BY <2>1, <2>3, <3>1, <3>2, <3>3, Zenon
  <2>6. t = a
    <3>1. Len(t) = Len(a)
      BY <2>2, <2>5
    <3>2. \A i \in 1..Len(t) : t[i] = a[i]
      BY <2>2, <2>5
    <3>3. QED
      BY <3>1, <3>2, SeqEqual
  <2>7. QED
    BY <2>1, <2>2, <2>4, <2>6, Zenon
<1>6. \A k \in 0..c : Len(R[k]) <= k
  BY <1>2
<1>7. Replays(R, l)
  <2>1. \A k \in 1..c : l[k] # -1
    OBVIOUS
  <2>2. QED
    BY <1>3, <1>4, <1>5, <1>6, <2>1 DEF Replays
<1>8. QED
  BY <1>2, <1>7

-----------------------------------------------------------------------------
(***************************************************************************)
(* Sets of numbers in increasing order                                     *)
(***************************************************************************)
Enumerates(e, P) ==
  /\ e \in Seq(Nat)
  /\ \A a \in 1..Len(e) : e[a] \in P
  /\ \A a, b \in 1..Len(e) : a < b => e[a] < e[b]
  /\ \A j \in P : \E a \in 1..Len(e) : e[a] = j

\* Sequence f is e with j at its end.
Extends(f, e, j) ==
  Len(f) = Len(e) + 1 /\ f[Len(e) + 1] = j /\ \A a \in 1..Len(e) : f[a] = e[a]

LEMMA EnumeratesMore ==
  ASSUME NEW e, NEW P, Enumerates(e, P), NEW j \in Nat, \A i \in P : i < j
  PROVE  \E f : Enumerates(f, P \cup {j}) /\ Extends(f, e, j)
<1>1. e \in Seq(Nat) /\ Len(e) \in Nat
  BY DEF Enumerates
<1>2. PICK f \in Seq(Nat) : f = Append(e, j)
  BY <1>1, AppendProperties
<1>3. Len(f) = Len(e) + 1 /\ f[Len(e) + 1] = j /\ \A a \in 1..Len(e) : f[a] = e[a]
  BY <1>1, <1>2, AppendProperties
<1>4. ASSUME NEW a \in 1..Len(f) PROVE f[a] \in P \cup {j}
  <2>1. CASE a \in 1..Len(e)
    <3>1. f[a] = e[a] /\ e[a] \in P
      BY <1>3, <2>1 DEF Enumerates
    <3>2. QED
      BY <3>1
  <2>2. CASE a = Len(e) + 1
    BY <1>3, <2>2
  <2>3. QED
    BY <1>1, <1>3, <2>1, <2>2
<1>5. ASSUME NEW a \in 1..Len(f), NEW b \in 1..Len(f), a < b PROVE f[a] < f[b]
  <2>1. a \in 1..Len(e) /\ f[a] = e[a] /\ e[a] \in P
    BY <1>1, <1>3, <1>5 DEF Enumerates
  <2>2. CASE b \in 1..Len(e)
    BY <1>3, <1>5, <2>1, <2>2 DEF Enumerates
  <2>3. CASE b = Len(e) + 1
    BY <1>3, <2>1, <2>3
  <2>4. QED
    BY <1>1, <1>3, <2>2, <2>3
<1>6. ASSUME NEW i \in P \cup {j} PROVE \E a \in 1..Len(f) : f[a] = i
  <2>1. CASE i = j
    BY <1>1, <1>3, <2>1
  <2>2. CASE i \in P
    <3>1. PICK a \in 1..Len(e) : e[a] = i
      BY <2>2 DEF Enumerates
    <3>2. a \in 1..Len(f) /\ f[a] = i
      BY <1>1, <1>3, <3>1
    <3>3. QED
      BY <3>2
  <2>3. QED
    BY <2>1, <2>2
<1>7. Enumerates(f, P \cup {j})
  BY <1>4, <1>5, <1>6 DEF Enumerates
<1>8. Extends(f, e, j)
  BY <1>3 DEF Extends
<1>9. QED
  BY <1>7, <1>8

\* Sequence f is e without its end.
Shortens(f, e) ==
  e # <<>> /\ Len(f) = Len(e) - 1 /\ \A a \in 1..(Len(e) - 1) : f[a] = e[a]

LEMMA EnumeratesLess ==
  ASSUME NEW e, NEW P, Enumerates(e, P), NEW j \in P, \A i \in P : i <= j
  PROVE  \E f : Enumerates(f, P \ {j}) /\ Shortens(f, e)
<1>1. e \in Seq(Nat) /\ Len(e) \in Nat /\ \A a \in 1..Len(e) : e[a] \in Nat /\ e[a] \in P
  BY DEF Enumerates
<1>2. PICK a \in 1..Len(e) : e[a] = j
  BY DEF Enumerates
<1>3. e # <<>>
  BY <1>1, <1>2
<1>4. a = Len(e)
  <2>1. CASE a < Len(e)
    <3>1. Len(e) \in 1..Len(e) /\ e[a] < e[Len(e)] /\ e[Len(e)] \in P
      BY <1>1, <1>2, <2>1 DEF Enumerates
    <3>2. e[Len(e)] <= e[a] /\ e[Len(e)] \in Nat /\ e[a] \in Nat
      BY <1>1, <1>2, <3>1
    <3>3. QED
      BY <3>1, <3>2
  <2>2. QED
    BY <1>1, <2>1
<1>5. PICK f \in Seq(Nat) : f = Short(e)
  BY <1>1, <1>3, ShortProperties
<1>6. Len(f) = Len(e) - 1 /\ \A b \in 1..(Len(e) - 1) : f[b] = e[b]
  BY <1>1, <1>3, <1>5, ShortProperties
<1>7. ASSUME NEW b \in 1..Len(f) PROVE f[b] \in P \ {j}
  <2>1. b \in 1..Len(e) /\ Len(e) \in 1..Len(e) /\ b < Len(e) /\ f[b] = e[b]
    BY <1>1, <1>6
  <2>2. e[b] < e[Len(e)] /\ e[b] \in P
    BY <2>1 DEF Enumerates
  <2>3. e[b] # j
    BY <1>1, <1>2, <1>4, <2>1, <2>2
  <2>4. QED
    BY <2>1, <2>2, <2>3
<1>8. ASSUME NEW b \in 1..Len(f), NEW c \in 1..Len(f), b < c PROVE f[b] < f[c]
  <2>1. b \in 1..(Len(e) - 1) /\ c \in 1..(Len(e) - 1) /\ b \in 1..Len(e) /\ c \in 1..Len(e)
    BY <1>1, <1>6
  <2>2. f[b] = e[b] /\ f[c] = e[c]
    BY <1>6, <2>1, Zenon
  <2>3. QED
    BY <1>8, <2>1, <2>2 DEF Enumerates
<1>9. ASSUME NEW i \in P \ {j} PROVE \E b \in 1..Len(f) : f[b] = i
  <2>1. PICK b \in 1..Len(e) : e[b] = i
    BY DEF Enumerates
  <2>2. b # Len(e)
    BY <1>2, <1>4, <2>1
  <2>3. b \in 1..Len(f) /\ f[b] = i
    BY <1>1, <1>6, <2>1, <2>2
  <2>4. QED
    BY <2>3
<1>10. Enumerates(f, P \ {j})
  BY <1>7, <1>8, <1>9 DEF Enumerates
<1>11. Shortens(f, e)
  BY <1>3, <1>6 DEF Shortens
<1>12. QED
  BY <1>10, <1>11

\* Counting from the end
LEMMA EnumeratesCount ==
  ASSUME NEW e, NEW P, Enumerates(e, P), NEW a \in 1..(Len(e) + 1), NEW S,
         S = {j \in P : \E b \in a..Len(e) : e[b] = j}
  PROVE  IsFiniteSet(S) /\ Cardinality(S) = Len(e) + 1 - a
<1>1. e \in Seq(Nat) /\ Len(e) \in Nat /\ a \in Nat
  BY DEF Enumerates
<1>2. PICK f : f = [b \in a..Len(e) |-> e[b]]
  OBVIOUS
<1>3. f \in Bijection(a..Len(e), S)
  <2>1. f \in [a..Len(e) -> S]
    <3>1. ASSUME NEW b \in a..Len(e) PROVE e[b] \in S
      <4>1. b \in 1..Len(e)
        BY <1>1
      <4>2. e[b] \in P
        BY <4>1 DEF Enumerates
      <4>3. QED
        BY <4>2
    <3>2. QED
      BY <1>2, <3>1
  <2>2. ASSUME NEW b \in a..Len(e), NEW c \in a..Len(e), f[b] = f[c] PROVE b = c
    <3>1. b \in 1..Len(e) /\ c \in 1..Len(e) /\ e[b] = e[c]
      BY <1>1, <1>2, <2>2
    <3>2. e[b] \in Nat /\ e[c] \in Nat /\ ~(e[b] < e[c]) /\ ~(e[c] < e[b])
      BY <1>1, <3>1
    <3>3. ~(b < c) /\ ~(c < b)
      BY <3>1, <3>2 DEF Enumerates
    <3>4. QED
      BY <3>1, <3>3
  <2>3. \A j \in S : \E b \in a..Len(e) : f[b] = j
    BY <1>2
  <2>4. QED
    BY <2>1, <2>2, <2>3 DEF Bijection, Injection, Surjection, IsInjective
<1>4. IsFiniteSet(a..Len(e)) /\ Cardinality(a..Len(e)) = IF a > Len(e) THEN 0 ELSE Len(e) - a + 1
  <2>1. a \in Int /\ Len(e) \in Int
    BY <1>1
  <2>2. QED
    BY <2>1, FS_Interval
<1>5. Cardinality(a..Len(e)) = Len(e) + 1 - a
  <2>1. a <= Len(e) + 1
    BY <1>1
  <2>2. QED
    BY <1>1, <1>4, <2>1
<1>6. ExistsBijection(a..Len(e), S)
  BY <1>3 DEF ExistsBijection
<1>7. QED
  BY <1>4, <1>5, <1>6, FS_Bijection

-----------------------------------------------------------------------------
(***************************************************************************)
(* The invariant                                                           *)
(***************************************************************************)
\* A call whose first hook has run and whose second has not
IsPending(g) ==
  g.stage \in {"inst", "post"} /\ g.pc <= Len(Code(g.func)) /\ Hooked(g.func, g.pc)

Waiting(fs) == {j \in 1..Len(fs) : IsPending(fs[j])}

\* What its first hook has logged
Logged(g) == funcname_map(Code(g.func)[g.pc].to)

\* Frame g is in the middle of the call of frame h.
Opens(g, h) ==
  /\ g.stage = "inst" /\ g.pc <= Len(Code(g.func))
  /\ Code(g.func)[g.pc].op \in {"call", "call_indirect"}
  /\ Code(g.func)[g.pc].op = "call" => Code(g.func)[g.pc].to = h.func

Innermost(g) ==
  /\ g.stage = "post" => g.pc <= Len(Code(g.func)) /\ Hooked(g.func, g.pc)
  /\ g.stage = "load" => g.pc = 1

ChainOK ==
  /\ \A j \in 1..(n - 1) : Opens(frames[j], frames[j + 1])
  /\ n > 0 => Innermost(top)

\* Between the two ends of the inserted code the log is not written.
Dumping == n > 0 /\ top.func = inspect_func_name /\ top.pc \in (inspect_line_num + 2)..(inspect_line_num + 3)

DumpOK ==
  /\ status = "running" /\ Dumping => ciovec = log
  /\ status = "running" => backtrace_idx = <<>>
  /\ status \in {"reading", "printed"} =>
       n > 0 /\ top.func = inspect_func_name /\ top.pc = inspect_line_num + 3

\* A function without a number has been called if and only if -2 was logged.
LogOK ==
  /\ loaded = 0 => log = <<>>
  /\ \A k \in 1..Len(log) : log[k] = -2 => \E f \in called : Nameless(f)
  /\ status # "trap" /\ loaded < 2 =>
       \A f \in called : Nameless(f) => \E k \in 1..Len(log) : log[k] = -2

Live == status \in {"running", "reading", "printed"}

\* The stack r after the log are the numbers of the waiting calls.  After a second
\* $__instr_load_data there are at least as many numbers.
Agrees(fs, r, e) == Enumerates(e, Waiting(fs)) /\ Len(e) <= Len(r)
Equals(fs, r, e) == Len(e) = Len(r) /\ \A a \in 1..Len(e) : r[a] = Logged(fs[e[a]])

\* print() has read the first k numbers.
HasRead(R, k) ==
  /\ k \in 0..Len(log)
  /\ ifile = SubSeq(log, k + 1, Len(log))
  /\ backtrace_idx = R[k]
  /\ \A i \in 1..k : log[i] # -2

Reads(R) ==
  /\ status = "reading" => \E k \in 0..Len(log) : HasRead(R, k)
  /\ status = "printed" =>
       /\ HasRead(R, Len(log))
       /\ printed = LET b == Len(backtrace_idx)
                    IN  [k \in 1..b |-> names[backtrace_idx[b + 1 - k] + 1]]

ReplayOK ==
  Live => \E R, e : /\ Replays(R, log)
                    /\ Agrees(frames, R[Len(log)], e)
                    /\ loaded < 2 => Equals(frames, R[Len(log)], e)
                    /\ Reads(R)

\* print() never pops from an empty vector.
AbortOK ==
  /\ status # "undefined"
  /\ status = "aborted" => \E f \in called : Nameless(f)

\* The runtime calls the loader first if there is no "_start".  Until it is loaded
\* the outermost call is "_start" at its beginning, or a function that came too early.
Loading == entries # <<>> /\ entries[1] = LoadData

EntriesOK ==
  /\ \A k \in 2..Len(entries) : entries[k] # LoadData
  /\ Loading => loaded = 0 /\ frames = <<>>
  /\ program.start = None /\ loaded = 0 => Loading
  /\ loaded = 0 /\ n > 0 /\ frames[1].func = program.start => n = 1 /\ top.stage = "load"

StackInv ==
  /\ TypeInv /\ ChainOK /\ DumpOK /\ LogOK /\ EntriesOK /\ ReplayOK
  /\ AbortOK /\ CrashIsExplained

-----------------------------------------------------------------------------
(***************************************************************************)
(* Which calls wait                                                        *)
(***************************************************************************)
LEMMA FrameStays ==
  ASSUME UNCHANGED place, NEW g, NEW h
  PROVE  /\ IsPending(g)' <=> IsPending(g)
         /\ Logged(g)' = Logged(g)
         /\ Opens(g, h)' <=> Opens(g, h)
         /\ Innermost(g)' <=> Innermost(g)
<1>1. Code(g.func)' = Code(g.func) /\ (Hooked(g.func, g.pc)' <=> Hooked(g.func, g.pc))
  BY CodeStays
<1>2. PICK x : x = Code(g.func)[g.pc].to
  OBVIOUS
<1>3. funcname_map(x)' = funcname_map(x)
  BY CodeStays
<1>4. Logged(g)' = Logged(g)
  BY <1>1, <1>2, <1>3 DEF Logged
<1>5. QED
  BY <1>1, <1>4 DEF IsPending, Opens, Innermost

LEMMA WaitingStays ==
  ASSUME UNCHANGED place, NEW fs, NEW r, NEW e
  PROVE  /\ Waiting(fs)' = Waiting(fs)
         /\ Agrees(fs, r, e)' <=> Agrees(fs, r, e)
         /\ Equals(fs, r, e)' <=> Equals(fs, r, e)
<1>1. Waiting(fs)' = Waiting(fs)
  BY FrameStays DEF Waiting
<1>2. Equals(fs, r, e)' <=> Equals(fs, r, e)
  BY FrameStays DEF Equals
<1>3. QED
  BY <1>1, <1>2 DEF Agrees, Enumerates

\* The top frame is replaced.
LEMMA WaitingTop ==
  ASSUME NEW fs \in Seq(Frame), NEW gs \in Seq(Frame), NEW m \in Nat \ {0},
         Len(fs) = m, Len(gs) = m, \A j \in 1..(m - 1) : gs[j] = fs[j]
  PROVE  /\ IsPending(fs[m]) <=> m \in Waiting(fs)
         /\ IsPending(gs[m]) => Waiting(gs) = (Waiting(fs) \ {m}) \cup {m}
         /\ ~IsPending(gs[m]) => Waiting(gs) = Waiting(fs) \ {m}
         /\ \A j \in Waiting(fs) : j <= m
         /\ \A j \in Waiting(fs) \ {m} : j \in 1..(m - 1) /\ gs[j] = fs[j]
<1>1. \A j \in 1..m : j = m \/ (j \in 1..(m - 1) /\ gs[j] = fs[j])
  OBVIOUS
<1>2. QED
  BY <1>1 DEF Waiting

LEMMA SameWaiting ==
  ASSUME NEW fs, NEW gs, Waiting(gs) = Waiting(fs),
         \A j \in Waiting(fs) : Logged(gs[j]) = Logged(fs[j]),
         NEW r, NEW e, Agrees(fs, r, e)
  PROVE  Agrees(gs, r, e) /\ (Equals(fs, r, e) => Equals(gs, r, e))
<1>1. Agrees(gs, r, e)
  BY DEF Agrees
<1>2. \A a \in 1..Len(e) : e[a] \in Waiting(fs)
  BY DEF Agrees, Enumerates
<1>3. QED
  BY <1>1, <1>2 DEF Equals

-----------------------------------------------------------------------------
(***************************************************************************)
(* Steps that log nothing                                                  *)
(***************************************************************************)
LEMMA QuietReplay ==
  ASSUME ReplayOK, UNCHANGED <<place, log>>, loaded' < 2 => loaded < 2,
         Live' => status = "running" /\ status' = "running",
         Waiting(frames') = Waiting(frames),
         \A j \in Waiting(frames) : Logged(frames'[j]) = Logged(frames[j])
  PROVE  ReplayOK'
<1> SUFFICES ASSUME Live'
             PROVE  \E R, e : /\ Replays(R, log')
                              /\ Agrees(frames, R[Len(log)], e)'
                              /\ loaded' < 2 => Equals(frames, R[Len(log)], e)'
                              /\ Reads(R)'
  BY DEF ReplayOK
<1>1. PICK R, e : /\ Replays(R, log)
                  /\ Agrees(frames, R[Len(log)], e)
                  /\ loaded < 2 => Equals(frames, R[Len(log)], e)
  BY DEF ReplayOK, Live
<1>2. PICK r : r = R[Len(log)] /\ r = R[Len(log')]
  OBVIOUS
<1>3. Agrees(frames', r, e) /\ (loaded < 2 => Equals(frames', r, e))
  BY <1>1, <1>2, SameWaiting
<1>4. Agrees(frames, R[Len(log)], e)' /\ (loaded' < 2 => Equals(frames, R[Len(log)], e)')
  BY <1>2, <1>3, WaitingStays
<1>5. Reads(R)'
  BY DEF Reads
<1>6. QED
  BY <1>1, <1>4, <1>5

\* The top frame goes on, and was not and is not waiting, or was and still is.
LEMMA SameTop ==
  ASSUME TypeInv, n > 0, NEW g \in Frame, Top(g),
         \/ ~IsPending(top) /\ ~IsPending(g)
         \/ IsPending(top) /\ IsPending(g) /\ g.func = top.func /\ g.pc = top.pc
  PROVE  /\ Waiting(frames') = Waiting(frames)
         /\ \A j \in Waiting(frames) : Logged(frames'[j]) = Logged(frames[j])
<1>1. /\ frames \in Seq(Frame) /\ n \in Nat \ {0} /\ n = Len(frames) /\ top = frames[n]
  BY TypeContext DEF n, top
<1>2. frames' \in Seq(Frame) /\ Len(frames') = n /\ frames'[n] = g /\ \A j \in 1..(n - 1) : frames'[j] = frames[j]
  BY <1>1, TopReplaced DEF Top
<1>3. /\ IsPending(top) <=> n \in Waiting(frames)
      /\ IsPending(g) => Waiting(frames') = (Waiting(frames) \ {n}) \cup {n}
      /\ ~IsPending(g) => Waiting(frames') = Waiting(frames) \ {n}
      /\ \A j \in Waiting(frames) \ {n} : frames'[j] = frames[j]
  BY <1>1, <1>2, WaitingTop
<1>4. Waiting(frames') = Waiting(frames)
  BY <1>3
<1>5. \A j \in Waiting(frames) : Logged(frames'[j]) = Logged(frames[j])
  <2>1. ASSUME n \in Waiting(frames) PROVE Logged(g) = Logged(top)
    BY <1>3, <2>1 DEF Logged
  <2>2. QED
    BY <1>1, <1>2, <1>3, <2>1
<1>6. QED
  BY <1>4, <1>5

LEMMA QuietTop ==
  ASSUME TypeInv, ReplayOK, n > 0, NEW g \in Frame, Top(g),
         UNCHANGED <<place, log, loaded>>,
         Live' => status = "running" /\ status' = "running",
         \/ ~IsPending(top) /\ ~IsPending(g)
         \/ IsPending(top) /\ IsPending(g) /\ g.func = top.func /\ g.pc = top.pc
  PROVE  ReplayOK'
BY SameTop, QuietReplay

\* The frame of a call is added.
LEMMA QuietCall ==
  ASSUME TypeInv, ReplayOK, n > 0, NEW f \in Defined(program),
         frames' = Append([frames EXCEPT ![n].stage = "inst"], Enter(f)),
         UNCHANGED <<place, log, loaded, status>>, status = "running",
         IsPending(top) \/ ~Hooked(top.func, top.pc)
  PROVE  ReplayOK'
<1>1. /\ frames \in Seq(Frame) /\ n \in Nat \ {0} /\ n = Len(frames) /\ top = frames[n]
  BY TypeContext DEF n, top
<1>2. /\ frames' \in Seq(Frame) /\ Len(frames') = n + 1
      /\ frames'[n + 1] = Enter(f)
      /\ frames'[n].func = top.func /\ frames'[n].pc = top.pc /\ frames'[n].stage = "inst"
      /\ \A j \in 1..(n - 1) : frames'[j] = frames[j]
  BY CallFrames
<1>3. ~IsPending(Enter(f))
  BY EnterTyped DEF IsPending
<1>4. IsPending(frames'[n]) <=> IsPending(top)
  BY <1>2 DEF IsPending
<1>5. \A j \in 1..(n + 1) : j = n + 1 \/ j = n \/ (j \in 1..(n - 1) /\ j \in 1..n /\ frames'[j] = frames[j])
  BY <1>1, <1>2
<1>6. Waiting(frames') = Waiting(frames)
  <2>1. ASSUME NEW j \in Waiting(frames') PROVE j \in Waiting(frames)
    BY <1>1, <1>2, <1>3, <1>4, <1>5 DEF Waiting
  <2>2. ASSUME NEW j \in Waiting(frames) PROVE j \in Waiting(frames')
    <3>1. j \in 1..n /\ j \in 1..(n + 1) /\ j # n + 1
      BY <1>1 DEF Waiting
    <3>2. QED
      BY <1>1, <1>2, <1>3, <1>4, <1>5, <3>1 DEF Waiting
  <2>3. QED
    BY <2>1, <2>2
<1>7. \A j \in Waiting(frames) : Logged(frames'[j]) = Logged(frames[j])
  <2> TAKE j \in Waiting(frames)
  <2>1. j = n \/ frames'[j] = frames[j]
    BY <1>1, <1>5 DEF Waiting
  <2>2. Logged(frames'[n]) = Logged(frames[n])
    BY <1>1, <1>2 DEF Logged
  <2>3. QED
    BY <2>1, <2>2
<1>8. QED
  BY <1>6, <1>7, QuietReplay DEF Live

\* The frame of a call is removed: its caller was waiting and still is, or was not.
LEMMA QuietReturn ==
  ASSUME TypeInv, ReplayOK, ChainOK, Return
  PROVE  ReplayOK'
<1>1. /\ frames \in Seq(Frame) /\ n \in Nat \ {0} /\ n = Len(frames) /\ top = frames[n]
      /\ UNCHANGED <<place, log, loaded, status>> /\ status = "running"
      /\ \A j \in 1..n : frames[j] \in Frame
  BY TypeContext DEF n, top, Return
<1>2. ~IsPending(top)
  <2>1. Len(Code(top.func)) \in Nat /\ top.pc \in Nat
    BY <1>1, TypeContext, CodeTyped
  <2>2. QED
    BY <2>1 DEF IsPending, Return
<1>3. CASE n = 1
  <2>1. frames' = <<>>
    BY <1>3 DEF Return
  <2>2. Len(frames') = 0
    BY <2>1
  <2>3. Waiting(frames') = {}
    BY <2>2 DEF Waiting
  <2>4. Waiting(frames) = {}
    BY <1>1, <1>2, <1>3 DEF Waiting
  <2>5. QED
    BY <1>1, <2>3, <2>4, QuietReplay DEF Live
<1>4. CASE n > 1
  <2>1. frames' = [SubSeq(frames, 1, n - 1) EXCEPT ![n - 1] = AfterCall(@)]
    <3>1. n # 1
      BY <1>1, <1>4
    <3>2. QED
      BY <3>1 DEF Return
  <2>2. PICK g \in Frame : g = frames[n - 1]
    BY <1>1, <1>4
  <2>3. /\ Len(frames') = n - 1
        /\ frames'[n - 1] = AfterCall(g)
        /\ \A j \in 1..(n - 2) : frames'[j] = frames[j]
    BY <1>4, <2>1, <2>2, ReturnFrames
  <2>4. Opens(g, top)
    <3>1. n - 1 \in 1..(n - 1) /\ (n - 1) + 1 = n
      BY <1>1, <1>4
    <3>2. QED
      BY <1>1, <2>2, <3>1 DEF ChainOK
  <2>5. /\ IsPending(AfterCall(g)) <=> IsPending(g)
        /\ IsPending(g) => AfterCall(g).func = g.func /\ AfterCall(g).pc = g.pc
    <3>1. CASE Hooked(g.func, g.pc)
      BY <2>4, <3>1, AfterCallTyped DEF IsPending, Opens
    <3>2. CASE ~Hooked(g.func, g.pc)
      BY <2>4, <3>2, AfterCallTyped DEF IsPending
    <3>3. QED
      BY <3>1, <3>2
  <2>6. \A j \in 1..n : j = n \/ (j = n - 1 /\ j \in 1..(n - 1))
                              \/ (j \in 1..(n - 2) /\ j \in 1..(n - 1) /\ frames'[j] = frames[j])
    BY <1>1, <2>3
  <2>7. \A j \in 1..(n - 1) : j \in 1..n /\ j # n
    BY <1>1
  <2>8. Waiting(frames') = Waiting(frames)
    <3>1. ASSUME NEW j \in Waiting(frames') PROVE j \in Waiting(frames)
      BY <1>1, <2>2, <2>3, <2>5, <2>6, <2>7, <3>1 DEF Waiting
    <3>2. ASSUME NEW j \in Waiting(frames) PROVE j \in Waiting(frames')
      BY <1>1, <1>2, <2>2, <2>3, <2>5, <2>6, <2>7, <3>2 DEF Waiting
    <3>3. QED
      BY <3>1, <3>2
  <2>9. \A j \in Waiting(frames) : Logged(frames'[j]) = Logged(frames[j])
    <3> TAKE j \in Waiting(frames)
    <3>1. j \in 1..n /\ IsPending(frames[j])
      BY <1>1 DEF Waiting
    <3>2. CASE j = n
      BY <1>1, <1>2, <3>1, <3>2
    <3>3. CASE j = n - 1
      BY <2>2, <2>3, <2>5, <3>1, <3>3 DEF Logged
    <3>4. CASE j \in 1..(n - 2)
      BY <2>3, <3>4
    <3>5. QED
      BY <2>6, <3>1, <3>2, <3>3, <3>4
  <2>10. QED
    BY <1>1, <2>8, <2>9, QuietReplay DEF Live
<1>5. QED
  BY <1>1, <1>3, <1>4

-----------------------------------------------------------------------------
(***************************************************************************)
(* Steps that log                                                          *)
(***************************************************************************)
LEMMA StoreLogs ==
  ASSUME NEW x, Store(x), status' # "trap"
  PROVE  loaded > 0 /\ Len(log) < Room /\ log' = Append(log, x) /\ status' = status
BY DEF Store

LEMMA SeqLarger ==
  ASSUME NEW S, NEW T, S \subseteq T, NEW s \in Seq(S)
  PROVE  s \in Seq(T)
OBVIOUS

LEMMA NumbersAreIntegers ==
  ASSUME TypeInv
  PROVE  log \in Seq(Int) /\ \A x \in Number : x \in Int
<1>1. \A x \in Number : x \in Int
  BY NamesTyped DEF TypeInv, Number
<1>2. log \in Seq(Number) /\ Number \subseteq Int
  BY <1>1 DEF TypeInv, Calls
<1>3. log \in Seq(Int)
  BY <1>2, SeqLarger
<1>4. QED
  BY <1>1, <1>3

\* The first hook pushes the number of the function called.
LEMMA ReplayHookBefore ==
  ASSUME TypeInv, ReplayOK, HookBefore
  PROVE  ReplayOK'
<1> SUFFICES ASSUME Live'
             PROVE  \E R, e : /\ Replays(R, log')
                              /\ Agrees(frames, R[Len(log)], e)'
                              /\ loaded' < 2 => Equals(frames, R[Len(log)], e)'
                              /\ Reads(R)'
  BY DEF ReplayOK
<1> DEFINE x == funcname_map(inst.to)
           g == [top EXCEPT !.stage = "inst"]
<1>1. /\ n > 0 /\ status = "running" /\ top.pc <= Len(Code(top.func)) /\ Hooked(top.func, top.pc)
      /\ top.stage = "pre" /\ Store(x) /\ Top(g) /\ UNCHANGED <<place, loaded>>
  BY DEF HookBefore, Running
<1>2. /\ frames \in Seq(Frame) /\ n \in Nat \ {0} /\ n = Len(frames) /\ top = frames[n]
      /\ top \in Frame /\ Placed
  BY <1>1, TypeContext DEF n, top
<1>3. g \in Frame /\ g.func = top.func /\ g.pc = top.pc /\ g.stage = "inst"
  BY <1>2 DEF Frame, Stage
<1>4. log \in Seq(Int) /\ x \in Number /\ x \in Int /\ x # -1
  BY <1>2, NumberTyped, NumbersAreIntegers
<1>5. log' = Append(log, x) /\ status' = "running" /\ Len(log') = Len(log) + 1
  <2>1. status' # "trap"
    BY DEF Live
  <2> HIDE DEF x
  <2>2. QED
    BY <1>1, <1>4, <2>1, StoreLogs, AppendProperties
<1>6. PICK R, e : /\ Replays(R, log)
                  /\ Agrees(frames, R[Len(log)], e)
                  /\ loaded < 2 => Equals(frames, R[Len(log)], e)
  BY <1>1 DEF ReplayOK, Live
<1> HIDE DEF x, g
<1>7. PICK s \in Seq(Int) : s = R[Len(log)]
  <2>1. Len(log) \in 0..Len(log)
    BY <1>4
  <2>2. QED
    BY <1>6, <2>1 DEF Replays
<1>8. PICK r \in Seq(Int) : r = Append(s, x)
  BY <1>4, AppendProperties
<1>9. PICK Q : Replays(Q, log') /\ Q[Len(log')] = r
  <2>1. Turns(x, R[Len(log)], r)
    BY <1>4, <1>7, <1>8, Zenon DEF Turns
  <2>2. PICK P : Continues(P, log, x, r)
    BY <1>4, <1>6, <2>1, ReplaysMore
  <2>3. QED
    BY <1>5, <2>2, Zenon DEF Continues
<1>10. /\ frames' \in Seq(Frame) /\ Len(frames') = n /\ frames'[n] = g
       /\ \A j \in 1..(n - 1) : frames'[j] = frames[j]
  BY <1>1, <1>2, <1>3, TopReplaced DEF Top
<1>11. /\ ~IsPending(top) /\ IsPending(g)
  BY <1>1, <1>3 DEF IsPending
<1>12. /\ n \notin Waiting(frames)
       /\ Waiting(frames') = Waiting(frames) \cup {n}
       /\ \A j \in Waiting(frames) : j < n /\ frames'[j] = frames[j]
  <2>1. /\ IsPending(top) <=> n \in Waiting(frames)
        /\ IsPending(g) => Waiting(frames') = (Waiting(frames) \ {n}) \cup {n}
        /\ \A j \in Waiting(frames) : j <= n
        /\ \A j \in Waiting(frames) \ {n} : j \in 1..(n - 1) /\ frames'[j] = frames[j]
    BY <1>2, <1>10, WaitingTop
  <2>2. n \notin Waiting(frames)
    BY <1>11, <2>1
  <2>3. ASSUME NEW j \in Waiting(frames) PROVE j < n /\ frames'[j] = frames[j]
    BY <1>2, <2>1, <2>2
  <2>4. QED
    BY <1>11, <2>1, <2>2, <2>3
<1>13. Enumerates(e, Waiting(frames)) /\ Len(e) <= Len(s) /\ (loaded < 2 => Equals(frames, s, e))
  BY <1>6, <1>7 DEF Agrees
<1>14. PICK f : Enumerates(f, Waiting(frames')) /\ Extends(f, e, n)
  <2>1. n \in Nat /\ (\A j \in Waiting(frames) : j < n) /\ Enumerates(e, Waiting(frames))
    BY <1>2, <1>12, <1>13
  <2>2. QED
    BY <1>12, <2>1, EnumeratesMore
<1>15. /\ Enumerates(f, Waiting(frames')) /\ Len(f) = Len(e) + 1 /\ f[Len(e) + 1] = n
       /\ \A a \in 1..Len(e) : f[a] = e[a]
  BY <1>14 DEF Extends
<1>16. /\ Len(r) = Len(s) + 1 /\ r[Len(s) + 1] = x /\ \A a \in 1..Len(s) : r[a] = s[a]
       /\ Len(s) \in Nat /\ Len(e) \in Nat
  BY <1>4, <1>8, <1>13, AppendProperties DEF Enumerates
<1>17. Agrees(frames', r, f)
  BY <1>13, <1>15, <1>16 DEF Agrees
<1>18. ASSUME loaded < 2 PROVE Equals(frames', r, f)
  <2>1. Len(e) = Len(s) /\ \A a \in 1..Len(e) : s[a] = Logged(frames[e[a]])
    BY <1>13, <1>18 DEF Equals
  <2>2. ASSUME NEW a \in 1..Len(f) PROVE r[a] = Logged(frames'[f[a]])
    <3>1. CASE a \in 1..Len(e)
      <4>1. r[a] = s[a] /\ f[a] = e[a] /\ e[a] \in Waiting(frames)
        BY <1>13, <1>15, <1>16, <2>1, <3>1 DEF Enumerates
      <4>2. QED
        BY <1>12, <2>1, <3>1, <4>1
    <3>2. CASE a = Len(e) + 1
      <4>1. r[a] = x /\ frames'[f[a]] = g
        BY <1>10, <1>15, <1>16, <2>1, <3>2
      <4>2. x = Logged(g)
        BY <1>3 DEF x, inst, Logged
      <4>3. QED
        BY <4>1, <4>2
    <3>3. QED
      BY <1>15, <1>16, <3>1, <3>2
  <2>3. QED
    BY <1>15, <1>16, <2>1, <2>2 DEF Equals
<1>19. /\ Agrees(frames, Q[Len(log)], f)'
       /\ loaded' < 2 => Equals(frames, Q[Len(log)], f)'
  BY <1>1, <1>9, <1>17, <1>18, WaitingStays
<1>20. Reads(Q)'
  BY <1>5 DEF Reads
<1>21. QED
  BY <1>9, <1>19, <1>20

\* The second one pops it.
LEMMA ReplayHookAfter ==
  ASSUME TypeInv, ReplayOK, ChainOK, HookAfter
  PROVE  ReplayOK'
<1> SUFFICES ASSUME Live'
             PROVE  \E R, e : /\ Replays(R, log')
                              /\ Agrees(frames, R[Len(log)], e)'
                              /\ loaded' < 2 => Equals(frames, R[Len(log)], e)'
                              /\ Reads(R)'
  BY DEF ReplayOK
<1> DEFINE g == Goto(top.pc + 1)
<1>1. /\ n > 0 /\ status = "running" /\ top.stage = "post" /\ Store(-1) /\ Top(g)
      /\ UNCHANGED <<place, loaded>>
  BY DEF HookAfter, Running
<1>2. /\ frames \in Seq(Frame) /\ n \in Nat \ {0} /\ n = Len(frames) /\ top = frames[n]
      /\ top \in Frame /\ top.pc \in Nat \ {0} /\ Placed
  BY <1>1, TypeContext DEF n, top
<1>3. g \in Frame /\ g.stage = "pre"
  BY <1>2, GotoTyped
<1>4. log \in Seq(Int) /\ -1 \in Int
  BY NumbersAreIntegers
<1>5. log' = Append(log, -1) /\ status' = "running" /\ Len(log') = Len(log) + 1
  <2>1. status' # "trap"
    BY DEF Live
  <2>2. QED
    BY <1>1, <1>4, <2>1, StoreLogs, AppendProperties
<1>6. PICK R, e : /\ Replays(R, log)
                  /\ Agrees(frames, R[Len(log)], e)
                  /\ loaded < 2 => Equals(frames, R[Len(log)], e)
  BY <1>1 DEF ReplayOK, Live
<1> HIDE DEF g
<1>7. PICK s \in Seq(Int) : s = R[Len(log)]
  <2>1. Len(log) \in 0..Len(log)
    BY <1>4
  <2>2. QED
    BY <1>6, <2>1 DEF Replays
<1>8. IsPending(top) /\ ~IsPending(g)
  BY <1>1, <1>3 DEF IsPending, ChainOK, Innermost
<1>9. /\ frames' \in Seq(Frame) /\ Len(frames') = n /\ frames'[n] = g
      /\ \A j \in 1..(n - 1) : frames'[j] = frames[j]
  BY <1>1, <1>2, <1>3, TopReplaced DEF Top
<1>10. /\ n \in Waiting(frames) /\ Waiting(frames') = Waiting(frames) \ {n}
       /\ \A j \in Waiting(frames) : j <= n
       /\ \A j \in Waiting(frames) \ {n} : frames'[j] = frames[j]
  BY <1>2, <1>8, <1>9, WaitingTop
<1>11. Enumerates(e, Waiting(frames)) /\ Len(e) <= Len(s) /\ (loaded < 2 => Equals(frames, s, e))
  BY <1>6, <1>7 DEF Agrees
<1>12. PICK f : Enumerates(f, Waiting(frames')) /\ Shortens(f, e)
  BY <1>10, <1>11, EnumeratesLess
<1>13. /\ e # <<>> /\ Enumerates(f, Waiting(frames')) /\ Len(f) = Len(e) - 1
       /\ \A a \in 1..(Len(e) - 1) : f[a] = e[a]
  BY <1>12 DEF Shortens
<1>14. Len(e) \in Nat \ {0} /\ Len(f) \in Nat /\ Len(s) \in Nat \ {0} /\ s # <<>>
  <2>1. e \in Seq(Nat) /\ f \in Seq(Nat)
    BY <1>11, <1>13 DEF Enumerates
  <2>2. Len(e) \in Nat \ {0} /\ Len(f) \in Nat
    BY <1>13, <2>1, EmptySeq
  <2>3. Len(s) \in Nat \ {0}
    BY <1>11, <2>2
  <2>4. QED
    BY <2>2, <2>3, EmptySeq
<1>15. PICK r \in Seq(Int) : /\ r = Short(s) /\ Len(r) = Len(s) - 1
                             /\ \A a \in 1..(Len(s) - 1) : r[a] = s[a]
  BY <1>14, ShortProperties
<1>16. PICK Q : Replays(Q, log') /\ Q[Len(log')] = r
  <2>1. Turns(-1, R[Len(log)], r)
    BY <1>7, <1>14, <1>15, Zenon DEF Turns
  <2>2. PICK P : Continues(P, log, -1, r)
    BY <1>4, <1>6, <2>1, ReplaysMore
  <2>3. QED
    BY <1>5, <2>2, Zenon DEF Continues
<1>17. Agrees(frames', r, f)
  BY <1>11, <1>13, <1>14, <1>15 DEF Agrees
<1>18. ASSUME loaded < 2 PROVE Equals(frames', r, f)
  <2>1. Len(e) = Len(s) /\ \A a \in 1..Len(e) : s[a] = Logged(frames[e[a]])
    BY <1>11, <1>18 DEF Equals
  <2>2. ASSUME NEW a \in 1..Len(f) PROVE r[a] = Logged(frames'[f[a]])
    <3>1. a \in 1..(Len(e) - 1) /\ a \in 1..Len(e) /\ a \in 1..(Len(s) - 1)
      BY <1>13, <1>14, <2>1
    <3>2. r[a] = s[a] /\ f[a] = e[a] /\ s[a] = Logged(frames[e[a]])
      BY <1>13, <1>15, <2>1, <3>1
    <3>3. f[a] \in Waiting(frames) \ {n}
      BY <1>10, <1>13 DEF Enumerates
    <3>4. QED
      BY <1>10, <3>2, <3>3
  <2>3. QED
    BY <1>13, <1>14, <1>15, <2>1, <2>2 DEF Equals
<1>19. /\ Agrees(frames, Q[Len(log)], f)'
       /\ loaded' < 2 => Equals(frames, Q[Len(log)], f)'
  BY <1>1, <1>16, <1>17, <1>18, WaitingStays
<1>20. Reads(Q)'
  BY <1>5 DEF Reads
<1>21. QED
  BY <1>16, <1>19, <1>20

\* A second $__instr_load_data makes zeros of the log.
LEMMA ReplayLoad ==
  ASSUME TypeInv, ReplayOK, LogOK, Load
  PROVE  ReplayOK'
<1> SUFFICES ASSUME Live'
             PROVE  \E R, e : /\ Replays(R, log')
                              /\ Agrees(frames, R[Len(log)], e)'
                              /\ loaded' < 2 => Equals(frames, R[Len(log)], e)'
                              /\ Reads(R)'
  BY DEF ReplayOK
<1> DEFINE g == [top EXCEPT !.stage = "pre"]
<1>1. /\ n > 0 /\ status = "running" /\ top.stage = "load" /\ UNCHANGED <<place, status>>
      /\ Top(g) /\ loaded' = (IF loaded = 0 THEN 1 ELSE 2)
      /\ log' = [k \in DOMAIN log |-> 0]
  BY DEF Load, Live
<1>2. top \in Frame /\ loaded \in 0..2
  BY <1>1, TypeContext DEF Calls
<1>3. g \in Frame /\ ~IsPending(g) /\ ~IsPending(top)
  BY <1>1, <1>2 DEF Frame, Stage, IsPending
<1> HIDE DEF g
<1>4. /\ Waiting(frames') = Waiting(frames)
      /\ \A j \in Waiting(frames) : Logged(frames'[j]) = Logged(frames[j])
  BY <1>1, <1>3, SameTop
<1>5. PICK R, e : /\ Replays(R, log)
                  /\ Agrees(frames, R[Len(log)], e)
                  /\ loaded < 2 => Equals(frames, R[Len(log)], e)
  BY <1>1 DEF ReplayOK, Live
<1>6. log \in Seq(Int) /\ DOMAIN log = 1..Len(log) /\ Len(log) \in Nat
  BY NumbersAreIntegers
<1>7. Reads(R)'
  BY <1>1 DEF Reads
<1>8. \A Q : Reads(Q)'
  BY <1>1 DEF Reads
<1>9. CASE loaded = 0
  <2>1. log = <<>> /\ log' = <<>>
    <3>1. log = <<>>
      BY <1>9 DEF LogOK
    <3>2. Len(log) = 0
      BY <3>1
    <3>3. log' \in [1..0 -> Int]
      BY <1>1, <1>6, <3>2
    <3>4. log' \in Seq(Int) /\ DOMAIN log' = 1..0
      BY <3>3, SeqDef
    <3>5. Len(log') = 0
      BY <3>4
    <3>6. QED
      BY <3>1, <3>4, <3>5, EmptySeq
  <2>2. PICK r : r = R[Len(log)] /\ r = R[Len(log')]
    BY <2>1
  <2>3. Agrees(frames', r, e) /\ Equals(frames', r, e)
    BY <1>4, <1>5, <1>9, <2>2, SameWaiting
  <2>4. Agrees(frames, R[Len(log)], e)' /\ Equals(frames, R[Len(log)], e)'
    BY <1>1, <2>2, <2>3, WaitingStays
  <2>5. QED
    BY <1>5, <1>7, <2>1, <2>4
<1>10. CASE loaded # 0
  <2>1. loaded' = 2
    BY <1>1, <1>10
  <2>2. log' \in Seq(Int) /\ Len(log') = Len(log) /\ \A k \in 1..Len(log) : log'[k] = 0
    <3>1. log' \in [1..Len(log) -> Int] /\ \A k \in 1..Len(log) : log'[k] = 0
      BY <1>1, <1>6
    <3>2. log' \in Seq(Int) /\ DOMAIN log' = 1..Len(log)
      BY <1>6, <3>1, SeqDef
    <3>3. Len(log') = Len(log)
      BY <1>6, <3>2
    <3>4. QED
      BY <3>1, <3>2, <3>3
  <2>3. PICK Q : Replays(Q, log') /\ Len(Q[Len(log)]) = Len(log)
    BY <1>6, <2>2, ReplaysZeros
  <2>4. PICK r : r = Q[Len(log)] /\ r = Q[Len(log')]
    BY <2>2
  <2>5. Len(e) <= Len(r)
    <3>1. PICK s \in Seq(Int) : s = R[Len(log)] /\ Len(s) <= Len(log)
      BY <1>5, <1>6 DEF Replays
    <3>2. Len(e) <= Len(s) /\ Len(e) \in Nat
      BY <1>5, <3>1 DEF Agrees, Enumerates
    <3>3. Len(s) \in Nat
      BY <3>1
    <3>4. QED
      BY <1>6, <2>3, <2>4, <3>1, <3>2, <3>3
  <2>6. Agrees(frames', r, e)
    BY <1>4, <1>5, <2>5 DEF Agrees
  <2>7. Agrees(frames, Q[Len(log)], e)'
    BY <1>1, <2>4, <2>6, WaitingStays
  <2>8. QED
    BY <1>8, <2>1, <2>3, <2>7
<1>11. QED
  BY <1>9, <1>10

-----------------------------------------------------------------------------
(***************************************************************************)
(* Steps of the replay                                                     *)
(***************************************************************************)
\* What is left of a sequence after its first k entries
LEMMA Rest ==
  ASSUME NEW S, NEW s \in Seq(S), NEW k \in 0..Len(s), NEW t, t = SubSeq(s, k + 1, Len(s))
  PROVE  /\ t = <<>> <=> k = Len(s)
         /\ t # <<>> => /\ k + 1 \in 1..Len(s) /\ Head(t) = s[k + 1]
                        /\ Tail(t) = SubSeq(s, (k + 1) + 1, Len(s))
<1>1. Len(s) \in Nat /\ k \in Nat /\ k <= Len(s)
  OBVIOUS
<1>2. /\ t \in Seq(S) /\ Len(t) = Len(s) - k
      /\ \A i \in 1..(Len(s) - k) : t[i] = s[k + i]
  BY <1>1, SubSeqProperties
<1>3. t = <<>> <=> k = Len(s)
  <2>1. PICK v \in Seq(S) : v = t
    BY <1>2
  <2>2. v = <<>> <=> Len(v) = 0
    BY EmptySeq
  <2>3. QED
    BY <1>1, <1>2, <2>1, <2>2
<1>4. ASSUME t # <<>>
      PROVE  /\ k + 1 \in 1..Len(s) /\ Head(t) = s[k + 1]
             /\ Tail(t) = SubSeq(s, (k + 1) + 1, Len(s))
  <2>1. k < Len(s) /\ k + 1 \in 1..Len(s)
    BY <1>1, <1>3, <1>4
  <2>2. Head(t) = t[1] /\ 1 \in 1..(Len(s) - k)
    BY <1>1, <1>2, <1>4, <2>1
  <2>3. Head(t) = s[k + 1]
    BY <1>2, <2>2
  <2>4. PICK u : u = SubSeq(s, (k + 1) + 1, Len(s))
    OBVIOUS
  <2>5. /\ u \in Seq(S) /\ Len(u) = Len(s) - (k + 1)
        /\ \A i \in 1..(Len(s) - (k + 1)) : u[i] = s[(k + 1) + i]
    BY <1>1, <2>1, <2>4, SubSeqProperties
  <2>6. /\ Tail(t) \in Seq(S) /\ Len(Tail(t)) = Len(t) - 1
        /\ \A i \in 1..(Len(t) - 1) : Tail(t)[i] = t[i + 1]
    BY <1>2, <1>4, HeadTailProperties
  <2>7. PICK v \in Seq(S) : /\ v = Tail(t) /\ Len(v) = Len(t) - 1
                            /\ \A i \in 1..(Len(t) - 1) : v[i] = t[i + 1]
    BY <2>6
  <2>8. Len(u) = Len(v)
    BY <1>1, <1>2, <2>5, <2>7
  <2>9. ASSUME NEW i \in 1..Len(v) PROVE v[i] = u[i]
    <3>1. /\ i \in 1..(Len(t) - 1) /\ i + 1 \in 1..(Len(s) - k) /\ i \in 1..(Len(s) - (k + 1))
          /\ k + (i + 1) = (k + 1) + i
      BY <1>1, <1>2, <2>7
    <3>2. v[i] = t[i + 1] /\ t[i + 1] = s[k + (i + 1)] /\ u[i] = s[(k + 1) + i]
      BY <1>2, <2>5, <2>7, <3>1
    <3>3. QED
      BY <3>1, <3>2, Zenon
  <2>10. v = u
    BY <2>5, <2>7, <2>8, <2>9, SeqEqual
  <2>11. QED
    BY <2>1, <2>3, <2>4, <2>7, <2>10, Zenon
<1>5. QED
  BY <1>3, <1>4

LEMMA RestOfAll ==
  ASSUME NEW S, NEW s \in Seq(S)
  PROVE  SubSeq(s, 0 + 1, Len(s)) = s
<1>1. Len(s) \in Nat
  OBVIOUS
<1>2. PICK t \in Seq(S) : t = SubSeq(s, 0 + 1, Len(s)) /\ Len(t) = Len(s) /\ \A i \in 1..Len(s) : t[i] = s[i]
  BY <1>1, SubSeqProperties
<1>3. t = s
  BY <1>2, SeqEqual
<1>4. QED
  BY <1>2, <1>3

LEMMA ReplayProcExit ==
  ASSUME TypeInv, ReplayOK, DumpOK, ProcExit
  PROVE  ReplayOK'
<1>1. /\ Running /\ inst.op = "proc_exit" /\ status = "running" /\ n > 0
      /\ status' = "reading" /\ ifile' = ciovec /\ UNCHANGED <<place, machine, backtrace_idx>>
  BY DEF ProcExit, At, Running
<1>2. Fits(top.func, top.pc, inst) /\ inspect_line_num \in Nat
  BY <1>1, InstTyped, CodeTyped DEF TypeInv, Placed
<1>3. Dumping
  BY <1>1, <1>2 DEF Fits, Dumping
<1>4. ciovec = log /\ backtrace_idx = <<>>
  BY <1>1, <1>3 DEF DumpOK
<1>5. PICK R, e : /\ Replays(R, log)
                  /\ Agrees(frames, R[Len(log)], e)
                  /\ loaded < 2 => Equals(frames, R[Len(log)], e)
  BY <1>1 DEF ReplayOK, Live
<1>6. log \in Seq(Int) /\ Len(log) \in Nat /\ UNCHANGED <<log, frames, loaded>>
  BY <1>1, NumbersAreIntegers DEF machine
<1>7. ifile' = SubSeq(log', 0 + 1, Len(log'))
  BY <1>1, <1>4, <1>6, RestOfAll
<1>8. HasRead(R, 0)'
  <2>1. 0 \in 0..Len(log') /\ \A i \in 1..0 : log'[i] # -2
    BY <1>6
  <2>2. backtrace_idx' = R[0]
    BY <1>1, <1>4, <1>5 DEF Replays
  <2>3. QED
    BY <1>7, <2>1, <2>2 DEF HasRead
<1>9. Reads(R)'
  <2>1. 0 \in 0..Len(log')
    BY <1>6
  <2>2. QED
    BY <1>1, <1>8, <2>1 DEF Reads
<1>10. PICK r : r = R[Len(log)] /\ r = R[Len(log')]
  BY <1>6
<1>11. /\ Agrees(frames, R[Len(log)], e)'
       /\ loaded' < 2 => Equals(frames, R[Len(log)], e)'
  BY <1>1, <1>5, <1>6, <1>10, WaitingStays
<1>12. QED
  BY <1>5, <1>6, <1>9, <1>11 DEF ReplayOK

\* What a step of the replay does
LEMMA ReadOne ==
  ASSUME TypeInv, LogOK, NEW R, Replays(R, log), NEW k, HasRead(R, k), ReadNumber
  PROVE  /\ status' = "reading" => k + 1 \in 0..Len(log) /\ HasRead(R, k + 1)'
         /\ status' # "undefined" /\ status' # "printed"
         /\ status' = "aborted" => \E f \in called : Nameless(f)
<1>1. log \in Seq(Int) /\ Len(log) \in Nat /\ UNCHANGED log
  BY NumbersAreIntegers DEF ReadNumber, machine
<1>2. /\ k \in 0..Len(log) /\ ifile = SubSeq(log, k + 1, Len(log)) /\ backtrace_idx = R[k]
      /\ \A i \in 1..k : log[i] # -2
  BY DEF HasRead
<1>3. /\ k + 1 \in 1..Len(log) /\ Head(ifile) = log[k + 1]
      /\ Tail(ifile) = SubSeq(log, (k + 1) + 1, Len(log))
  BY <1>1, <1>2, Rest DEF ReadNumber
<1>4. k + 1 \in 0..Len(log) /\ (k + 1) - 1 = k
  BY <1>1, <1>2, <1>3
<1>5. /\ log[k + 1] = -1 => R[k] # <<>> /\ R[k + 1] = Short(R[k])
      /\ log[k + 1] # -1 => R[k + 1] = Append(R[k], log[k + 1])
  BY <1>3, <1>4 DEF Replays
<1>6. PICK x \in Int : x = log[k + 1]
  BY <1>1, <1>3
<1>7. ASSUME x # -2, backtrace_idx' = R[k + 1] PROVE HasRead(R, k + 1)'
  <2>1. ifile' = SubSeq(log', (k + 1) + 1, Len(log'))
    BY <1>1, <1>3 DEF ReadNumber
  <2>2. \A i \in 1..(k + 1) : log'[i] # -2
    BY <1>1, <1>2, <1>6, <1>7
  <2>3. QED
    BY <1>1, <1>4, <1>7, <2>1, <2>2 DEF HasRead
<1>8. CASE x >= 0
  <2>1. backtrace_idx' = Append(backtrace_idx, x) /\ status' = "reading"
    BY <1>3, <1>6, <1>8 DEF ReadNumber
  <2>2. backtrace_idx' = R[k + 1]
    BY <1>2, <1>5, <1>6, <1>8, <2>1
  <2>3. QED
    BY <1>4, <1>7, <1>8, <2>1, <2>2
<1>9. CASE x = -1
  <2>1. R[k] # <<>> /\ R[k + 1] = Short(R[k])
    BY <1>5, <1>6, <1>9
  <2>2. backtrace_idx' = SubSeq(backtrace_idx, 1, Len(backtrace_idx) - 1) /\ status' = "reading"
    BY <1>2, <1>3, <1>6, <1>9, <2>1 DEF ReadNumber
  <2>3. backtrace_idx' = R[k + 1]
    BY <1>2, <2>1, <2>2 DEF Short
  <2>4. QED
    BY <1>4, <1>7, <1>9, <2>2, <2>3
<1>10. CASE x = -2
  <2>1. status' = "aborted"
    BY <1>3, <1>6, <1>10 DEF ReadNumber
  <2>2. \E f \in called : Nameless(f)
    BY <1>3, <1>6, <1>10 DEF LogOK
  <2>3. QED
    BY <2>1, <2>2
<1>11. x >= 0 \/ x = -1 \/ x = -2
  BY <1>3, <1>6 DEF ReadNumber
<1>12. QED
  BY <1>8, <1>9, <1>10, <1>11

LEMMA ReplayReadNumber ==
  ASSUME TypeInv, ReplayOK, LogOK, AbortOK, ReadNumber
  PROVE  ReplayOK' /\ AbortOK'
<1>1. status = "reading" /\ UNCHANGED <<place, machine>> /\ UNCHANGED <<log, frames, loaded, called>>
  BY DEF ReadNumber, machine
<1>2. PICK R, e : /\ Replays(R, log)
                  /\ Agrees(frames, R[Len(log)], e)
                  /\ loaded < 2 => Equals(frames, R[Len(log)], e)
                  /\ Reads(R)
  BY <1>1 DEF ReplayOK, Live
<1>3. PICK k : HasRead(R, k)
  BY <1>1, <1>2 DEF Reads
<1>4. /\ status' = "reading" => k + 1 \in 0..Len(log) /\ HasRead(R, k + 1)'
      /\ status' # "undefined" /\ status' # "printed"
      /\ status' = "aborted" => \E f \in called : Nameless(f)
  BY <1>2, <1>3, ReadOne
<1>5. PICK r : r = R[Len(log)] /\ r = R[Len(log')]
  BY <1>1
<1>6. /\ Agrees(frames, R[Len(log)], e)'
      /\ loaded' < 2 => Equals(frames, R[Len(log)], e)'
  BY <1>1, <1>2, <1>5, WaitingStays
<1>7. Reads(R)'
  <2>1. status' = "reading" => \E i \in 0..Len(log') : HasRead(R, i)'
    BY <1>1, <1>4
  <2>2. QED
    BY <1>4, <2>1 DEF Reads
<1>8. ReplayOK'
  BY <1>1, <1>2, <1>6, <1>7 DEF ReplayOK
<1>9. AbortOK'
  BY <1>1, <1>4, CodeStays DEF AbortOK
<1>10. QED
  BY <1>8, <1>9

LEMMA ReplayPrintBacktrace ==
  ASSUME TypeInv, ReplayOK, PrintBacktrace
  PROVE  ReplayOK'
<1>1. /\ status = "reading" /\ status' = "printed" /\ ifile = <<>>
      /\ UNCHANGED <<place, machine, ifile, backtrace_idx>> /\ UNCHANGED <<log, frames, loaded>>
  BY DEF PrintBacktrace, machine
<1>2. PICK R, e : /\ Replays(R, log)
                  /\ Agrees(frames, R[Len(log)], e)
                  /\ loaded < 2 => Equals(frames, R[Len(log)], e)
                  /\ Reads(R)
  BY <1>1 DEF ReplayOK, Live
<1>3. PICK k : HasRead(R, k)
  BY <1>1, <1>2 DEF Reads
<1>4. log \in Seq(Int) /\ Len(log) \in Nat
  BY NumbersAreIntegers
<1>5. k = Len(log)
  BY <1>1, <1>3, <1>4, Rest DEF HasRead
<1>6. HasRead(R, Len(log))'
  BY <1>1, <1>3, <1>5 DEF HasRead
<1>7. printed' = LET b == Len(backtrace_idx')
                 IN  [i \in 1..b |-> names'[backtrace_idx'[b + 1 - i] + 1]]
  BY <1>1, Stays DEF PrintBacktrace
<1>8. Reads(R)'
  BY <1>1, <1>6, <1>7 DEF Reads
<1>9. PICK r : r = R[Len(log)] /\ r = R[Len(log')]
  BY <1>1
<1>10. /\ Agrees(frames, R[Len(log)], e)'
       /\ loaded' < 2 => Equals(frames, R[Len(log)], e)'
  BY <1>1, <1>2, <1>9, WaitingStays
<1>11. QED
  BY <1>1, <1>2, <1>8, <1>10 DEF ReplayOK

-----------------------------------------------------------------------------
(***************************************************************************)
(* What a change of the top frame preserves                                *)
(***************************************************************************)
LEMMA ChainTop ==
  ASSUME TypeInv, ChainOK, n > 0, NEW g \in Frame, g.func = top.func, Innermost(g), Top(g),
         UNCHANGED place
  PROVE  ChainOK'
<1>1. /\ frames \in Seq(Frame) /\ n \in Nat \ {0} /\ n = Len(frames) /\ top = frames[n]
  BY TypeContext DEF n, top
<1>2. n' = n /\ frames'[n] = g /\ \A j \in 1..(n - 1) : frames'[j] = frames[j]
  BY TopFrames
<1>3. ASSUME NEW j \in 1..(n - 1) PROVE Opens(frames'[j], frames'[j + 1])
  <2>1. Opens(frames[j], frames[j + 1]) /\ frames'[j] = frames[j]
    BY <1>2 DEF ChainOK
  <2>2. CASE j + 1 \in 1..(n - 1)
    BY <1>2, <2>1, <2>2
  <2>3. CASE j + 1 = n
    BY <1>1, <1>2, <2>1, <2>3 DEF Opens
  <2>4. QED
    BY <1>1, <2>2, <2>3
<1>4. ASSUME NEW j \in 1..(n - 1) PROVE Opens(frames[j], frames[j + 1])'
  BY <1>3, FrameStays
<1>5. Innermost(top)'
  <2>1. top' = g
    BY <1>2 DEF top
  <2>2. QED
    BY <2>1, FrameStays
<1>6. QED
  BY <1>2, <1>4, <1>5 DEF ChainOK

LEMMA DumpTop ==
  ASSUME TypeInv, DumpOK, n > 0, NEW g \in Frame, Top(g),
         UNCHANGED <<place, backtrace_idx>>, status = "running",
         status' \notin {"reading", "printed"},
         status' = "running" /\ g.func = inspect_func_name
           /\ g.pc \in (inspect_line_num + 2)..(inspect_line_num + 3) => ciovec' = log'
  PROVE  DumpOK'
<1>1. n' = n /\ frames'[n] = g
  BY TopFrames
<1>2. top' = g
  BY <1>1 DEF top
<1>3. QED
  BY <1>2, Stays DEF DumpOK, Dumping

LEMMA LogStays ==
  ASSUME LogOK, UNCHANGED <<place, loaded, log, called>>, status = "trap" => status' = "trap"
  PROVE  LogOK'
BY CodeStays DEF LogOK

LEMMA EntriesTop ==
  ASSUME TypeInv, EntriesOK, n > 0, top.stage # "load", NEW g \in Frame, g.func = top.func, Top(g),
         UNCHANGED <<place, entries, loaded>>
  PROVE  EntriesOK'
<1>1. /\ frames \in Seq(Frame) /\ n \in Nat \ {0} /\ n = Len(frames) /\ top = frames[n]
  BY TypeContext DEF n, top
<1>2. n' = n /\ frames'[n] = g /\ \A j \in 1..(n - 1) : frames'[j] = frames[j]
  BY TopFrames
<1>3. frames'[1].func = frames[1].func
  BY <1>1, <1>2
<1>4. ~Loading /\ (Loading' <=> Loading)
  <2>1. frames # <<>>
    BY <1>1
  <2>2. QED
    BY <2>1 DEF EntriesOK, Loading
<1>5. loaded = 0 => frames[1].func # program.start
  BY DEF EntriesOK
<1>6. QED
  BY <1>3, <1>4, <1>5, Stays DEF EntriesOK

\* Steps that do not end the program with a trap
LEMMA EndsWell ==
  ASSUME AbortOK, UNCHANGED place, status' = "running" \/ status' = "ended"
  PROVE  AbortOK' /\ CrashIsExplained'
BY DEF AbortOK, CrashIsExplained

\* Steps in the code that log nothing and go to another place of the same function
LEMMA StackGoto ==
  ASSUME StackInv, n > 0, NEW k \in Nat \ {0}, Top(Goto(k)), ~IsPending(top), top.stage # "load",
         UNCHANGED <<place, entries, loaded, log, called, ciovec, replay, status>>,
         status = "running",
         top.func = inspect_func_name =>
           k \notin (inspect_line_num + 2)..(inspect_line_num + 3)
  PROVE  /\ ChainOK' /\ DumpOK' /\ LogOK' /\ EntriesOK' /\ ReplayOK'
         /\ AbortOK' /\ CrashIsExplained'
<1>1. PICK g \in Frame : /\ g = Goto(k) /\ g.func = top.func /\ g.pc = k /\ g.stage = "pre"
  BY TypeContext, GotoTyped DEF StackInv
<1>2. ~IsPending(g) /\ Innermost(g)
  BY <1>1 DEF IsPending, Innermost
<1>3. Top(g)
  BY <1>1
<1>4. ChainOK'
  BY <1>1, <1>2, <1>3, ChainTop DEF StackInv
<1>5. DumpOK'
  BY <1>1, <1>3, DumpTop DEF StackInv, replay
<1>6. LogOK'
  BY LogStays DEF StackInv
<1>7. EntriesOK'
  BY <1>1, <1>3, EntriesTop DEF StackInv
<1>8. ReplayOK'
  BY <1>1, <1>2, <1>3, QuietTop DEF StackInv
<1>9. AbortOK' /\ CrashIsExplained'
  BY EndsWell DEF StackInv
<1>10. QED
  BY <1>4, <1>5, <1>6, <1>7, <1>8, <1>9

\* At an instruction that is not a call nothing waits.
LEMMA NoCall ==
  ASSUME NEW op, op # "call", At(op)
  PROVE  ~IsPending(top) /\ Running /\ n > 0 /\ inst.op = op /\ top.stage # "load" /\ status = "running"
BY DEF At, Running, IsPending, Hooked, inst

LEMMA StackOther == ASSUME StackInv, Other PROVE StackInv'
<1>1. PICK op \in {"other", "br_if"} : At(op)
  BY DEF Other
<1>2. /\ ~IsPending(top) /\ Running /\ n > 0 /\ inst.op = op /\ top.stage # "load" /\ status = "running"
  BY <1>1, NoCall
<1>3. Fits(top.func, top.pc, inst) /\ top.pc \in Nat \ {0} /\ inspect_line_num \in Nat
  BY <1>2, InstTyped, TypeContext, CodeTyped DEF StackInv
<1>4. top.func = inspect_func_name => /\ top.pc # inspect_line_num + 1
                                      /\ top.pc # inspect_line_num + 2
  BY <1>2, <1>3 DEF Fits
<1>5. top.func = inspect_func_name =>
        top.pc + 1 \notin (inspect_line_num + 2)..(inspect_line_num + 3)
  BY <1>3, <1>4
<1>6. top.pc + 1 \in Nat \ {0}
  BY <1>3
<1>7. TypeInv'
  BY TypeOther DEF StackInv
<1>8. QED
  BY <1>2, <1>5, <1>6, <1>7, StackGoto DEF StackInv, Other

LEMMA StackBranch == ASSUME StackInv, Branch PROVE StackInv'
<1>1. /\ ~IsPending(top) /\ Running /\ n > 0 /\ inst.op = "br_if" /\ top.stage # "load"
      /\ status = "running"
  BY NoCall DEF Branch
<1>2. Fits(top.func, top.pc, inst) /\ inspect_line_num \in Nat
  BY <1>1, InstTyped, TypeContext, CodeTyped DEF StackInv
<1>3. PICK k \in Nat \ {0} : k = Shifted(top.func, inst.label)
  BY <1>1, <1>2 DEF Fits
<1>4. top.func = inspect_func_name =>
        ~(k \in (inspect_line_num + 1)..(inspect_line_num + 3))
  BY <1>1, <1>2, <1>3 DEF Fits
<1>5. top.func = inspect_func_name =>
        k \notin (inspect_line_num + 2)..(inspect_line_num + 3)
  BY <1>2, <1>4
<1>6. TypeInv'
  BY TypeBranch DEF StackInv
<1>7. QED
  BY <1>1, <1>3, <1>5, <1>6, StackGoto DEF StackInv, Branch

-----------------------------------------------------------------------------
(***************************************************************************)
(* The hooks                                                               *)
(***************************************************************************)
\* Code that runs before the data is loaded belongs to a call of the runtime that
\* is not "_start".
LEMMA TooEarly ==
  ASSUME TypeInv, EntriesOK, n > 0, loaded = 0, top.stage # "load"
  PROVE  program.start # None /\ frames[1].func # program.start
<1>1. frames # <<>>
  BY DEF n
<1>2. QED
  BY <1>1 DEF EntriesOK, Loading

LEMMA FirstKept ==
  ASSUME TypeInv, n > 0, NEW g \in Frame, g.func = top.func, Top(g), UNCHANGED place
  PROVE  frames'[1].func = frames[1].func
<1>1. n \in Nat \ {0} /\ top = frames[n]
  BY TypeContext DEF top
<1>2. frames'[n] = g /\ \A j \in 1..(n - 1) : frames'[j] = frames[j]
  BY TopFrames
<1>3. QED
  BY <1>1, <1>2

LEMMA LogMore ==
  ASSUME TypeInv, LogOK, NEW x \in Int, Store(x), UNCHANGED <<place, loaded>>, status = "running",
         called \subseteq called',
         x = -2 => \E f \in called' : Nameless(f),
         \A f \in called' \ called : Nameless(f) => x = -2
  PROVE  LogOK'
<1>1. log \in Seq(Int) /\ Len(log) \in Nat
  BY NumbersAreIntegers
<1>2. \A f : Nameless(f)' <=> Nameless(f)
  BY CodeStays
<1>3. CASE log' = log /\ status' = "trap"
  BY <1>2, <1>3 DEF LogOK
<1>4. CASE loaded > 0 /\ log' = Append(log, x) /\ status' = "running"
  <2>1. PICK m \in Seq(Int) : m = log'
    BY <1>1, <1>4, AppendProperties
  <2>2. Len(m) = Len(log) + 1 /\ m[Len(log) + 1] = x /\ \A k \in 1..Len(log) : m[k] = log[k]
    BY <1>1, <1>4, <2>1, AppendProperties
  <2>3. loaded' # 0
    BY <1>4
  <2>4. ASSUME NEW k \in 1..Len(m), m[k] = -2 PROVE \E f \in called' : Nameless(f)
    <3>1. CASE k \in 1..Len(log)
      <4>1. log[k] = -2
        BY <2>2, <2>4, <3>1
      <4>2. PICK f \in called : Nameless(f)
        BY <3>1, <4>1 DEF LogOK
      <4>3. QED
        BY <4>2
    <3>2. CASE k = Len(log) + 1
      BY <2>2, <2>4, <3>2
    <3>3. QED
      BY <1>1, <2>2, <3>1, <3>2
  <2>5. ASSUME loaded < 2, NEW f \in called', Nameless(f) PROVE \E k \in 1..Len(m) : m[k] = -2
    <3>1. CASE f \in called
      <4>1. PICK k \in 1..Len(log) : log[k] = -2
        BY <2>5, <3>1 DEF LogOK
      <4>2. k \in 1..Len(m) /\ m[k] = -2
        BY <1>1, <2>2, <4>1
      <4>3. QED
        BY <4>2
    <3>2. CASE f \notin called
      <4>1. x = -2 /\ Len(log) + 1 \in 1..Len(m)
        BY <1>1, <2>2, <2>5, <3>2
      <4>2. QED
        BY <2>2, <4>1
    <3>3. QED
      BY <3>1, <3>2
  <2>6. QED
    BY <1>2, <2>1, <2>3, <2>4, <2>5 DEF LogOK
<1>5. QED
  BY <1>3, <1>4 DEF Store

\* A hook traps when there is no buffer or the buffer is full.
LEMMA HookCrash ==
  ASSUME TypeInv, EntriesOK, AbortOK, n > 0, NEW g \in Frame, g.func = top.func, Top(g),
         top.stage # "load", NEW x, Store(x), UNCHANGED <<place, loaded>>, status = "running"
  PROVE  AbortOK' /\ CrashIsExplained'
<1>1. loaded \in 0..2 /\ Len(log) <= Room /\ Len(log) \in Nat /\ Room \in Nat
  BY BacktraceConstants, NumbersAreIntegers DEF TypeInv, Calls
<1>2. CASE status' = "running"
  BY <1>2, EndsWell
<1>3. CASE log' = log /\ status' = "trap" /\ ~(loaded > 0 /\ Len(log) < Room)
  <2>1. AbortOK'
    BY <1>3 DEF AbortOK
  <2>2. CASE loaded = 0
    <3>1. program.start # None /\ frames[1].func # program.start
      BY <2>2, TooEarly
    <3>2. frames'[1].func = frames[1].func /\ program' = program /\ loaded' = 0
      BY <2>2, FirstKept, Stays
    <3>3. QED
      BY <2>1, <3>1, <3>2 DEF CrashIsExplained
  <2>3. CASE Len(log) = Room
    BY <1>3, <2>1, <2>3 DEF CrashIsExplained
  <2>4. QED
    BY <1>1, <1>3, <2>2, <2>3
<1>4. QED
  BY <1>2, <1>3 DEF Store

LEMMA StackHook ==
  ASSUME StackInv, n > 0, NEW g \in Frame, g.func = top.func, Innermost(g), Top(g),
         top.stage # "load", NEW x, Store(x), status = "running",
         UNCHANGED <<place, entries, loaded, ciovec, replay>>,
         top.func = inspect_func_name =>
           g.pc \notin (inspect_line_num + 2)..(inspect_line_num + 3)
  PROVE  ChainOK' /\ DumpOK' /\ EntriesOK' /\ AbortOK' /\ CrashIsExplained'
<1>1. status' = "running" \/ status' = "trap"
  BY DEF Store
<1>2. ChainOK'
  BY ChainTop DEF StackInv
<1>3. DumpOK'
  BY <1>1, DumpTop DEF StackInv, replay
<1>4. EntriesOK'
  BY EntriesTop DEF StackInv
<1>5. AbortOK' /\ CrashIsExplained'
  BY HookCrash DEF StackInv
<1>6. QED
  BY <1>2, <1>3, <1>4, <1>5

LEMMA StageTyped ==
  ASSUME NEW t \in Frame, NEW st \in Stage
  PROVE  \E g \in Frame : /\ g = [t EXCEPT !.stage = st]
                          /\ g.func = t.func /\ g.pc = t.pc /\ g.stage = st
<1>1. /\ [t EXCEPT !.stage = st].func = t.func /\ [t EXCEPT !.stage = st].pc = t.pc
      /\ [t EXCEPT !.stage = st].stage = st /\ [t EXCEPT !.stage = st] \in Frame
  BY DEF Frame
<1>2. QED
  BY <1>1, Zenon

LEMMA StackHookBefore == ASSUME StackInv, HookBefore PROVE StackInv'
<1>1. /\ n > 0 /\ Running /\ status = "running" /\ top.stage = "pre" /\ Hooked(top.func, top.pc)
      /\ Store(funcname_map(inst.to)) /\ UNCHANGED <<place, entries, loaded, ciovec, replay>>
      /\ called' = called \cup {inst.to}
  BY DEF HookBefore, Running
<1>2. Placed /\ top \in Frame /\ top.pc \in Nat \ {0} /\ inspect_line_num \in Nat
  BY <1>1, TypeContext, CodeTyped DEF StackInv
<1>3. PICK g \in Frame : /\ g = [top EXCEPT !.stage = "inst"]
                         /\ g.func = top.func /\ g.pc = top.pc /\ g.stage = "inst"
  <2>1. "inst" \in Stage
    BY DEF Stage
  <2>2. QED
    BY <1>2, <2>1, StageTyped, Zenon
<1>4. Top(g) /\ Innermost(g)
  BY <1>3 DEF HookBefore, Innermost
<1>5. top.func = inspect_func_name => g.pc \notin (inspect_line_num + 2)..(inspect_line_num + 3)
  BY <1>1, <1>2, <1>3 DEF Hooked
<1>6. ChainOK' /\ DumpOK' /\ EntriesOK' /\ AbortOK' /\ CrashIsExplained'
  BY <1>1, <1>3, <1>4, <1>5, StackHook
<1>7. PICK x \in Int : x = funcname_map(inst.to) /\ (x = -2 <=> Nameless(inst.to))
  BY <1>2, NumberTyped, NumbersAreIntegers DEF StackInv
<1>8. LogOK'
  BY <1>1, <1>7, LogMore DEF StackInv
<1>9. TypeInv' /\ ReplayOK'
  BY TypeHookBefore, ReplayHookBefore DEF StackInv
<1>10. QED
  BY <1>6, <1>8, <1>9 DEF StackInv

LEMMA StackHookAfter == ASSUME StackInv, HookAfter PROVE StackInv'
<1>1. /\ n > 0 /\ Running /\ status = "running" /\ top.stage = "post" /\ Store(-1)
      /\ UNCHANGED <<place, entries, loaded, called, ciovec, replay>>
  BY DEF HookAfter, Running
<1>2. Placed /\ top \in Frame /\ top.pc \in Nat \ {0} /\ inspect_line_num \in Nat
  BY <1>1, TypeContext, CodeTyped DEF StackInv
<1>3. PICK g \in Frame : /\ g = Goto(top.pc + 1)
                         /\ g.func = top.func /\ g.pc = top.pc + 1 /\ g.stage = "pre"
  BY <1>2, GotoTyped
<1>4. Top(g) /\ Innermost(g)
  BY <1>3 DEF HookAfter, Innermost
<1>5. Hooked(top.func, top.pc)
  BY <1>1 DEF StackInv, ChainOK, Innermost
<1>6. top.func = inspect_func_name => g.pc \notin (inspect_line_num + 2)..(inspect_line_num + 3)
  BY <1>2, <1>3, <1>5 DEF Hooked
<1>7. ChainOK' /\ DumpOK' /\ EntriesOK' /\ AbortOK' /\ CrashIsExplained'
  BY <1>1, <1>3, <1>4, <1>6, StackHook
<1>8. LogOK'
  BY <1>1, LogMore DEF StackInv
<1>9. TypeInv' /\ ReplayOK'
  BY TypeHookAfter, ReplayHookAfter DEF StackInv
<1>10. QED
  BY <1>7, <1>8, <1>9 DEF StackInv

-----------------------------------------------------------------------------
(***************************************************************************)
(* Calls and returns                                                       *)
(***************************************************************************)
LEMMA FramesStay ==
  ASSUME UNCHANGED <<place, frames>>
  PROVE  n' = n /\ top' = top /\ (ChainOK => ChainOK') /\ (Dumping' <=> Dumping)
<1>1. n' = n /\ top' = top /\ frames' = frames
  BY DEF n, top
<1>2. ASSUME ChainOK PROVE ChainOK'
  <2>1. ASSUME NEW j \in 1..(n - 1) PROVE Opens(frames[j], frames[j + 1])'
    <3>1. Opens(frames[j], frames[j + 1])
      BY <1>2 DEF ChainOK
    <3>2. QED
      BY <1>1, <3>1, FrameStays
  <2>2. n > 0 => Innermost(top)'
    BY <1>1, <1>2, FrameStays DEF ChainOK
  <2>3. QED
    BY <1>1, <2>1, <2>2 DEF ChainOK
<1>3. QED
  BY <1>1, <1>2, Stays DEF Dumping

LEMMA EntriesStay ==
  ASSUME EntriesOK, UNCHANGED <<place, entries, frames, loaded>>
  PROVE  EntriesOK'
BY FramesStay, Stays DEF EntriesOK, Loading

\* The program stops without having changed its stack.
LEMMA StackStops ==
  ASSUME StackInv, UNCHANGED <<place, entries, frames, loaded, log, called>>, status = "running",
         status' \in {"ended", "trap"}
  PROVE  /\ ChainOK' /\ DumpOK' /\ LogOK' /\ EntriesOK' /\ ReplayOK' /\ AbortOK'
<1>1. ChainOK'
  BY FramesStay DEF StackInv
<1>2. DumpOK'
  BY DEF DumpOK
<1>3. LogOK'
  BY LogStays DEF StackInv
<1>4. EntriesOK'
  BY EntriesStay DEF StackInv
<1>5. ReplayOK' /\ AbortOK'
  BY DEF ReplayOK, Live, AbortOK
<1>6. QED
  BY <1>1, <1>2, <1>3, <1>4, <1>5

LEMMA StackLoad == ASSUME StackInv, Load PROVE StackInv'
<1>1. /\ n > 0 /\ status = "running" /\ top.stage = "load"
      /\ UNCHANGED <<place, entries, called, ciovec, replay>>
  BY DEF Load
<1>2. TypeInv'
  BY TypeLoad DEF StackInv
<1>3. CASE NotFirst /\ status' = "trap" /\ UNCHANGED <<loaded, log, frames>>
  <2>1. ChainOK' /\ DumpOK' /\ LogOK' /\ EntriesOK' /\ ReplayOK' /\ AbortOK'
    BY <1>1, <1>3, StackStops
  <2>2. n' = n /\ top' = top /\ program' = program
    BY <1>1, <1>3, FramesStay, Stays
  <2>3. CrashIsExplained'
    BY <1>1, <1>3, <2>2 DEF CrashIsExplained, NotFirst
  <2>4. QED
    BY <1>2, <2>1, <2>3 DEF StackInv
<1>4. CASE /\ loaded' = IF loaded = 0 THEN 1 ELSE 2
           /\ log' = [k \in DOMAIN log |-> 0]
           /\ Top([top EXCEPT !.stage = "pre"])
           /\ UNCHANGED status
  <2>1. top \in Frame /\ top.pc = 1 /\ inspect_line_num \in Nat /\ loaded \in 0..2
    BY <1>1, TypeContext, CodeTyped DEF StackInv, ChainOK, Innermost, Calls
  <2>2. PICK g \in Frame : /\ g = [top EXCEPT !.stage = "pre"]
                           /\ g.func = top.func /\ g.pc = top.pc /\ g.stage = "pre"
    <3>1. "pre" \in Stage
      BY DEF Stage
    <3>2. QED
      BY <2>1, <3>1, StageTyped, Zenon
  <2>3. Top(g) /\ Innermost(g)
    BY <1>4, <2>2 DEF Innermost
  <2>4. ChainOK'
    BY <1>1, <2>2, <2>3, ChainTop DEF StackInv
  <2>5. DumpOK'
    <3>1. g.pc \notin (inspect_line_num + 2)..(inspect_line_num + 3)
      BY <2>1, <2>2
    <3>2. QED
      BY <1>1, <1>4, <2>3, <3>1, DumpTop DEF StackInv, replay
  <2>6. LogOK'
    <3>1. loaded' # 0
      BY <1>4
    <3>2. DOMAIN log = 1..Len(log) /\ Len(log) \in Nat
      BY NumbersAreIntegers DEF StackInv
    <3>3. log' \in [1..Len(log) -> {0}]
      BY <1>4, <3>2
    <3>4. log' \in Seq({0}) /\ DOMAIN log' = 1..Len(log)
      BY <3>2, <3>3, SeqDef
    <3>5. \A k \in 1..Len(log') : log'[k] # -2
      BY <3>4
    <3>6. ASSUME loaded' < 2, NEW f \in called, Nameless(f) PROVE FALSE
      <4>1. loaded = 0 /\ loaded < 2
        BY <1>4, <2>1, <3>6
      <4>2. log = <<>>
        BY <4>1 DEF StackInv, LogOK
      <4>3. Len(log) = 0
        BY <4>2
      <4>4. \E k \in 1..Len(log) : log[k] = -2
        BY <1>1, <3>6, <4>1 DEF StackInv, LogOK
      <4>5. QED
        BY <4>3, <4>4
    <3>7. \A f : Nameless(f)' <=> Nameless(f)
      BY <1>1, CodeStays
    <3>8. QED
      BY <1>1, <3>1, <3>5, <3>6, <3>7 DEF LogOK
  <2>7. EntriesOK'
    <3>1. ~Loading
      <4>1. frames # <<>>
        BY <1>1 DEF n
      <4>2. QED
        BY <4>1 DEF StackInv, EntriesOK
    <3>2. loaded' # 0 /\ entries' = entries /\ ~Loading'
      BY <1>1, <1>4, <3>1 DEF Loading
    <3>3. QED
      BY <3>2 DEF StackInv, EntriesOK
  <2>8. ReplayOK'
    BY ReplayLoad DEF StackInv
  <2>9. AbortOK' /\ CrashIsExplained'
    BY <1>1, <1>4, EndsWell DEF StackInv
  <2>10. QED
    BY <1>2, <2>4, <2>5, <2>6, <2>7, <2>8, <2>9 DEF StackInv
<1>5. QED
  BY <1>3, <1>4 DEF Load

LEMMA StackCallOut == ASSUME StackInv, CallOut PROVE StackInv'
<1>1. /\ n > 0 /\ status = "running" /\ Running /\ inst.op = "call" /\ top.stage # "load"
      /\ IF Hooked(top.func, top.pc) THEN top.stage = "inst" ELSE top.stage \in {"pre", "inst"}
      /\ UNCHANGED <<place, entries, loaded, log, called, ciovec, replay>>
  BY DEF CallOut, At, Running
<1>2. TypeInv'
  BY TypeCallOut DEF StackInv
<1>3. CASE status' = "ended" /\ UNCHANGED frames
  <2>1. CrashIsExplained'
    BY <1>1, <1>3, EndsWell DEF StackInv
  <2>2. QED
    BY <1>1, <1>2, <1>3, <2>1, StackStops DEF StackInv
<1>4. CASE Top(AfterCall(top)) /\ UNCHANGED status
  <2>1. /\ top \in Frame /\ top.pc \in Nat /\ inspect_line_num \in Nat
        /\ Fits(top.func, top.pc, inst) /\ top.pc <= Len(Code(top.func))
    BY <1>1, TypeContext, CodeTyped, InstTyped DEF StackInv, Running
  <2>2. PICK g \in Frame :
          /\ g = AfterCall(top) /\ g.func = top.func
          /\ Hooked(g.func, top.pc) => g.pc = top.pc /\ g.stage = "post"
          /\ ~Hooked(g.func, top.pc) => g.pc = top.pc + 1 /\ g.stage = "pre"
    BY <2>1, AfterCallTyped
  <2>3. Top(g) /\ Innermost(g)
    BY <1>4, <2>1, <2>2 DEF Innermost
  <2>4. ChainOK'
    BY <1>1, <2>2, <2>3, ChainTop DEF StackInv
  <2>5. DumpOK'
    <3>1. ASSUME g.func = inspect_func_name,
                 g.pc \in (inspect_line_num + 2)..(inspect_line_num + 3)
          PROVE  ciovec' = log'
      <4>1. CASE Hooked(g.func, top.pc)
        BY <2>1, <2>2, <3>1, <4>1 DEF Hooked
      <4>2. CASE ~Hooked(g.func, top.pc)
        <5>1. top.pc # inspect_line_num + 1
          BY <1>1, <2>1, <2>2, <3>1 DEF Fits
        <5>2. Dumping
          BY <1>1, <2>1, <2>2, <3>1, <4>2, <5>1 DEF Dumping
        <5>3. QED
          BY <1>1, <5>2 DEF StackInv, DumpOK
      <4>3. QED
        BY <4>1, <4>2
    <3>2. QED
      BY <1>1, <1>4, <2>3, <3>1, DumpTop DEF StackInv, replay
  <2>6. LogOK' /\ EntriesOK'
    BY <1>1, <1>4, <2>2, <2>3, LogStays, EntriesTop DEF StackInv
  <2>7. ReplayOK'
    <3>1. \/ ~IsPending(top) /\ ~IsPending(g)
          \/ IsPending(top) /\ IsPending(g) /\ g.func = top.func /\ g.pc = top.pc
      BY <1>1, <2>1, <2>2 DEF IsPending
    <3>2. QED
      BY <1>1, <1>4, <2>3, <3>1, QuietTop DEF StackInv
  <2>8. AbortOK' /\ CrashIsExplained'
    BY <1>1, <1>4, EndsWell DEF StackInv
  <2>9. QED
    BY <1>2, <2>4, <2>5, <2>6, <2>7, <2>8 DEF StackInv
<1>5. QED
  BY <1>3, <1>4 DEF CallOut

LEMMA StackCall == ASSUME StackInv, Call PROVE StackInv'
<1>1. PICK f \in Defined(program) :
        /\ \/ At("call") /\ f = inst.to
           \/ At("call_indirect") /\ f \in program.table
        /\ IF n < MaxDepth
           THEN frames' = Append([frames EXCEPT ![n].stage = "inst"], Enter(f)) /\ UNCHANGED status
           ELSE status' = "trap" /\ UNCHANGED frames
  BY DEF Call
<1>2. /\ n > 0 /\ status = "running" /\ Running /\ top.stage # "load"
      /\ inst.op \in {"call", "call_indirect"} /\ (inst.op = "call" => inst.to = f)
      /\ Hooked(top.func, top.pc) => top.stage = "inst"
  BY <1>1 DEF At, Running
<1>3. UNCHANGED <<place, entries, loaded, log, called, ciovec, replay>>
  BY DEF Call
<1>4. TypeInv'
  BY TypeCall DEF StackInv
<1>5. /\ n \in Nat \ {0} /\ n <= MaxDepth /\ MaxDepth \in Nat /\ inspect_line_num \in Nat
      /\ n = Len(frames) /\ top = frames[n] /\ top.pc <= Len(Code(top.func))
  BY <1>2, TypeContext, CodeTyped, ProgramConstants DEF StackInv, Running, n, top
<1>6. CASE ~(n < MaxDepth)
  <2>1. status' = "trap" /\ UNCHANGED frames
    BY <1>1, <1>6
  <2>2. n' = MaxDepth
    BY <1>3, <1>5, <1>6, <2>1, FramesStay
  <2>3. CrashIsExplained'
    BY <2>2 DEF CrashIsExplained
  <2>4. QED
    BY <1>2, <1>3, <1>4, <2>1, <2>3, StackStops DEF StackInv
<1>7. CASE n < MaxDepth
  <2>1. frames' = Append([frames EXCEPT ![n].stage = "inst"], Enter(f)) /\ status' = "running"
    BY <1>1, <1>2, <1>7
  <2>2. /\ Len(frames') = n + 1 /\ frames'[n + 1] = Enter(f)
        /\ frames'[n].func = top.func /\ frames'[n].pc = top.pc /\ frames'[n].stage = "inst"
        /\ \A j \in 1..(n - 1) : frames'[j] = frames[j]
    BY <1>2, <2>1, CallFrames DEF StackInv
  <2>3. n' = n + 1 /\ top' = Enter(f) /\ Enter(f).pc = 1 /\ Enter(f).stage \in {"load", "pre"}
    BY <2>2, EnterTyped DEF n, top
  <2>4. ChainOK'
    <3>1. ASSUME NEW j \in 1..n PROVE Opens(frames'[j], frames'[j + 1])
      <4>1. CASE j = n
        <5>1. Enter(f).func = f
          BY EnterTyped
        <5>2. QED
          BY <1>2, <1>5, <2>2, <4>1, <5>1 DEF Opens, inst
      <4>2. CASE j # n
        <5>1. j \in 1..(n - 1) /\ (j + 1 = n \/ j + 1 \in 1..(n - 1))
          BY <1>5, <4>2
        <5>2. Opens(frames[j], frames[j + 1]) /\ frames'[j] = frames[j]
              /\ frames'[j + 1].func = frames[j + 1].func
          BY <1>5, <2>2, <5>1 DEF StackInv, ChainOK
        <5>3. QED
          BY <5>2 DEF Opens
      <4>3. QED
        BY <4>1, <4>2
    <3>2. ASSUME NEW j \in 1..n PROVE Opens(frames[j], frames[j + 1])'
      BY <1>3, <3>1, FrameStays
    <3>3. Innermost(Enter(f))
      BY <2>3 DEF Innermost
    <3>4. Innermost(top)'
      BY <1>3, <2>3, <3>3, FrameStays
    <3>5. n' - 1 = n
      BY <1>5, <2>3
    <3>6. QED
      BY <3>2, <3>4, <3>5 DEF ChainOK
  <2>5. DumpOK'
    <3>1. ~Dumping'
      BY <1>3, <1>5, <2>3, Stays DEF Dumping
    <3>2. backtrace_idx' = <<>>
      BY <1>2, <1>3 DEF StackInv, DumpOK, replay
    <3>3. QED
      BY <2>1, <3>1, <3>2 DEF DumpOK
  <2>6. LogOK'
    BY <1>2, <1>3, LogStays DEF StackInv
  <2>7. EntriesOK'
    <3>1. frames # <<>>
      BY <1>5
    <3>2. ~Loading /\ ~Loading'
      BY <1>3, <3>1 DEF StackInv, EntriesOK, Loading
    <3>3. frames'[1].func = frames[1].func
      BY <1>5, <2>2
    <3>4. loaded = 0 => frames[1].func # program.start
      BY <1>2 DEF StackInv, EntriesOK
    <3>5. QED
      BY <1>3, <3>2, <3>3, <3>4, Stays DEF StackInv, EntriesOK
  <2>8. ReplayOK'
    <3>1. IsPending(top) \/ ~Hooked(top.func, top.pc)
      BY <1>2, <1>5 DEF IsPending
    <3>2. QED
      BY <1>2, <1>3, <2>1, <3>1, QuietCall DEF StackInv
  <2>9. AbortOK' /\ CrashIsExplained'
    BY <1>3, <2>1, EndsWell DEF StackInv
  <2>10. QED
    BY <1>4, <2>4, <2>5, <2>6, <2>7, <2>8, <2>9 DEF StackInv
<1>8. QED
  BY <1>6, <1>7

\* The caller of a function of the program is not in the inserted code.
LEMMA CallerElsewhere ==
  ASSUME Placed, NEW g \in Frame, NEW h \in Frame, Opens(g, h), g.func = inspect_func_name,
         ~Hooked(g.func, g.pc)
  PROVE  g.pc + 1 \notin (inspect_line_num + 2)..(inspect_line_num + 3)
<1>1. /\ g.func \in Defined(program) /\ h.func \in Func /\ g.pc \in 1..Len(Code(g.func))
      /\ inspect_line_num \in Nat
  <2>1. g.func \in Defined(program) /\ h.func \in Defined(program) /\ g.pc \in Nat \ {0}
    BY DEF Frame
  <2>2. Defined(program) \subseteq Func
    BY ProgramIsProgram DEF Placed
  <2>3. Len(Code(g.func)) \in Nat /\ inspect_line_num \in Nat
    BY <2>1, CodeTyped
  <2>4. QED
    BY <2>1, <2>2, <2>3 DEF Opens
<1>2. Fits(g.func, g.pc, Code(g.func)[g.pc])
  BY <1>1, CodeTyped
<1>3. GetCwdFd \notin Func
  BY BacktraceConstants
<1>4. g.pc # inspect_line_num + 1 /\ g.pc # inspect_line_num + 2
  BY <1>1, <1>2, <1>3 DEF Fits, Opens
<1>5. QED
  BY <1>1, <1>4

LEMMA StackReturn == ASSUME StackInv, Return PROVE StackInv'
<1>1. /\ n > 0 /\ status = "running" /\ status' = "running" /\ top.stage # "load"
      /\ UNCHANGED <<place, entries, loaded, log, called, ciovec, replay>>
  BY DEF Return
<1>2. TypeInv' /\ ReplayOK' /\ LogOK' /\ AbortOK' /\ CrashIsExplained'
  BY <1>1, TypeReturn, QuietReturn, LogStays, EndsWell DEF StackInv
<1>3. /\ n \in Nat \ {0} /\ n = Len(frames) /\ top = frames[n] /\ Placed /\ inspect_line_num \in Nat
      /\ \A j \in 1..n : frames[j] \in Frame
  BY <1>1, TypeContext, CodeTyped DEF StackInv, n, top, Placed
<1>4. backtrace_idx' = <<>>
  BY <1>1 DEF StackInv, DumpOK, replay
<1>5. /\ ~Loading /\ ~Loading'
      /\ loaded = 0 => program.start # None /\ frames[1].func # program.start
  <2>1. frames # <<>>
    BY <1>3
  <2>2. ~Loading /\ ~Loading'
    BY <1>1, <2>1 DEF StackInv, EntriesOK, Loading
  <2>3. QED
    BY <1>1, <2>2, TooEarly DEF StackInv
<1>6. CASE n = 1
  <2>1. frames' = <<>>
    BY <1>6 DEF Return
  <2>2. n' = 0
    BY <2>1 DEF n
  <2>3. ChainOK'
    BY <2>2 DEF ChainOK
  <2>4. DumpOK'
    BY <1>1, <1>4, <2>2 DEF DumpOK, Dumping
  <2>5. EntriesOK'
    BY <1>1, <1>5, <2>2, Stays DEF StackInv, EntriesOK
  <2>6. QED
    BY <1>2, <2>3, <2>4, <2>5 DEF StackInv
<1>7. CASE n > 1
  <2>1. frames' = [SubSeq(frames, 1, n - 1) EXCEPT ![n - 1] = AfterCall(@)]
    <3>1. n # 1
      BY <1>3, <1>7
    <3>2. QED
      BY <3>1 DEF Return
  <2>2. PICK g \in Frame : g = frames[n - 1]
    BY <1>3, <1>7
  <2>3. PICK h \in Frame :
          /\ h = AfterCall(g) /\ h.func = g.func
          /\ Hooked(g.func, g.pc) => h.pc = g.pc /\ h.stage = "post"
          /\ ~Hooked(g.func, g.pc) => h.pc = g.pc + 1 /\ h.stage = "pre"
    BY AfterCallTyped
  <2>4. /\ Len(frames') = n - 1 /\ frames'[n - 1] = h
        /\ \A j \in 1..(n - 2) : frames'[j] = frames[j]
    BY <1>7, <2>1, <2>2, <2>3, ReturnFrames DEF StackInv
  <2>5. n' = n - 1 /\ top' = h
    BY <2>4 DEF n, top
  <2>6. Opens(g, top)
    <3>1. n - 1 \in 1..(n - 1) /\ (n - 1) + 1 = n
      BY <1>3, <1>7
    <3>2. QED
      BY <1>3, <2>2, <3>1 DEF StackInv, ChainOK
  <2>7. ChainOK'
    <3>1. ASSUME NEW j \in 1..(n - 2) PROVE Opens(frames'[j], frames'[j + 1])
      <4>1. j \in 1..(n - 1) /\ (j + 1 = n - 1 \/ j + 1 \in 1..(n - 2))
        BY <1>3
      <4>2. /\ Opens(frames[j], frames[j + 1]) /\ frames'[j] = frames[j]
            /\ frames'[j + 1].func = frames[j + 1].func
        BY <1>3, <2>2, <2>3, <2>4, <4>1 DEF StackInv, ChainOK
      <4>3. QED
        BY <4>2 DEF Opens
    <3>2. ASSUME NEW j \in 1..(n - 2) PROVE Opens(frames[j], frames[j + 1])'
      BY <1>1, <3>1, FrameStays
    <3>3. Innermost(h)
      BY <2>3, <2>6 DEF Innermost, Opens
    <3>4. Innermost(top)'
      BY <1>1, <2>5, <3>3, FrameStays
    <3>5. n' - 1 = n - 2
      BY <1>3, <2>5
    <3>6. QED
      BY <3>2, <3>4, <3>5 DEF ChainOK
  <2>8. DumpOK'
    <3>1. ~(h.func = inspect_func_name /\ h.pc \in (inspect_line_num + 2)..(inspect_line_num + 3))
      <4>1. CASE Hooked(g.func, g.pc)
        BY <1>3, <2>3, <4>1 DEF Hooked
      <4>2. CASE ~Hooked(g.func, g.pc)
        <5>1. top \in Frame
          BY <1>3
        <5>2. QED
          BY <1>3, <2>3, <2>6, <4>2, <5>1, CallerElsewhere
      <4>3. QED
        BY <4>1, <4>2
    <3>2. ~Dumping'
      BY <1>1, <2>5, <3>1, Stays DEF Dumping
    <3>3. QED
      BY <1>1, <1>4, <3>2 DEF DumpOK
  <2>9. EntriesOK'
    <3>1. frames'[1].func = frames[1].func
      BY <1>3, <1>7, <2>2, <2>3, <2>4
    <3>2. QED
      BY <1>1, <1>5, <3>1, Stays DEF StackInv, EntriesOK
  <2>10. QED
    BY <1>2, <2>7, <2>8, <2>9 DEF StackInv
<1>8. QED
  BY <1>3, <1>6, <1>7

-----------------------------------------------------------------------------
(***************************************************************************)
(* What the runtime calls                                                  *)
(***************************************************************************)
LEMMA StackBegin == ASSUME StackInv, Begin PROVE StackInv'
<1>1. /\ frames = <<>> /\ entries # <<>> /\ entries' = Tail(entries)
      /\ status = "running" /\ status' = "running"
      /\ UNCHANGED <<place, log, called, ciovec, replay>>
  BY DEF Begin
<1>2. TypeInv' /\ AbortOK' /\ CrashIsExplained'
  BY <1>1, TypeBegin, EndsWell DEF StackInv
<1>3. /\ entries \in Seq(Defined(program) \cup {LoadData}) /\ loaded \in 0..2
      /\ inspect_line_num \in Nat
  BY CodeTyped DEF StackInv, TypeInv, Calls, Placed
<1>4. backtrace_idx' = <<>>
  BY <1>1 DEF StackInv, DumpOK, replay
<1>5. /\ Head(entries) = entries[1] /\ Len(entries) \in Nat \ {0}
      /\ Len(entries') = Len(entries) - 1
      /\ \A k \in 1..(Len(entries) - 1) : entries'[k] = entries[k + 1]
  <2>1. PICK es \in Seq(Defined(program) \cup {LoadData}) : es = entries
    BY <1>3
  <2>2. es # <<>>
    BY <1>1, <2>1
  <2>3. Head(es) = es[1] /\ Len(es) \in Nat \ {0}
    BY <2>2, EmptySeq
  <2>4. Len(Tail(es)) = Len(es) - 1 /\ \A k \in 1..(Len(es) - 1) : Tail(es)[k] = es[k + 1]
    BY <2>2, HeadTailProperties
  <2>5. QED
    BY <1>1, <2>1, <2>3, <2>4
<1>6. \A k \in 1..Len(entries') : entries'[k] # LoadData
  BY <1>5 DEF StackInv, EntriesOK
<1>7. ~Loading' /\ \A k \in 2..Len(entries') : entries'[k] # LoadData
  <2>1. entries' \in Seq(Defined(program) \cup {LoadData})
    BY <1>1, <1>2, Stays DEF TypeInv, Calls
  <2>2. entries' # <<>> => 1 \in 1..Len(entries')
    BY <2>1, EmptySeq
  <2>3. QED
    BY <1>6, <2>2 DEF Loading
<1>8. Waiting(frames) = {}
  <2>1. Len(frames) = 0
    BY <1>1
  <2>2. QED
    BY <2>1 DEF Waiting
<1>9. LogOK' \/ loaded' # loaded
  BY <1>1, LogStays DEF StackInv
<1>10. CASE Head(entries) = LoadData
  <2>1. loaded' = 1 /\ frames' = frames /\ Loading /\ loaded = 0
    BY <1>1, <1>5, <1>10 DEF Begin, Loading, StackInv, EntriesOK
  <2>2. n' = 0
    BY <1>1, <2>1 DEF n
  <2>3. ChainOK' /\ DumpOK' /\ EntriesOK'
    BY <1>1, <1>4, <1>7, <2>1, <2>2 DEF ChainOK, DumpOK, Dumping, EntriesOK
  <2>4. LogOK'
    <3>1. \A f : Nameless(f)' <=> Nameless(f)
      BY <1>1, CodeStays
    <3>2. QED
      BY <1>1, <2>1, <3>1 DEF StackInv, LogOK
  <2>5. ReplayOK'
    BY <1>1, <1>8, <2>1, QuietReplay DEF StackInv
  <2>6. QED
    BY <1>2, <2>3, <2>4, <2>5 DEF StackInv
<1>11. CASE Head(entries) # LoadData
  <2>1. PICK g : g = Enter(Head(entries))
    OBVIOUS
  <2>2. loaded' = loaded /\ frames' = <<g>> /\ ~Loading
    BY <1>5, <1>11, <2>1 DEF Begin, Loading
  <2>3. g.pc = 1 /\ g.func = Head(entries) /\ g.stage \in {"load", "pre"}
        /\ (g.func = program.start => g.stage = "load")
    BY <2>1 DEF Enter
  <2>4. n' = 1 /\ top' = g /\ frames'[1] = g
    <3>1. Len(frames') = 1 /\ frames'[1] = g
      BY <2>2
    <3>2. QED
      BY <3>1 DEF n, top
  <2>5. ChainOK'
    <3>1. Innermost(g)
      BY <2>3 DEF Innermost
    <3>2. Innermost(top)'
      BY <1>1, <2>4, <3>1, FrameStays
    <3>3. QED
      BY <2>4, <3>2 DEF ChainOK
  <2>6. DumpOK'
    <3>1. ~Dumping'
      BY <1>1, <1>3, <2>3, <2>4, Stays DEF Dumping
    <3>2. QED
      BY <1>1, <1>4, <3>1 DEF DumpOK
  <2>7. EntriesOK'
    <3>1. program.start = None => loaded # 0
      BY <2>2 DEF StackInv, EntriesOK
    <3>2. QED
      BY <1>1, <1>7, <2>2, <2>3, <2>4, <3>1, Stays DEF EntriesOK
  <2>8. LogOK'
    BY <1>9, <2>2
  <2>9. ReplayOK'
    <3>1. ~IsPending(g) /\ Len(frames') = 1
      BY <2>2, <2>3 DEF IsPending
    <3>2. Waiting(frames') = {}
      BY <2>4, <3>1 DEF Waiting
    <3>3. QED
      BY <1>1, <1>8, <2>2, <3>2, QuietReplay DEF StackInv
  <2>10. QED
    BY <1>2, <2>5, <2>6, <2>7, <2>8, <2>9 DEF StackInv
<1>12. QED
  BY <1>10, <1>11

LEMMA StackFinish == ASSUME StackInv, Finish PROVE StackInv'
<1>1. /\ status = "running" /\ status' = "ended" /\ UNCHANGED place
      /\ UNCHANGED <<entries, frames, loaded, log, called>>
  BY DEF Finish, machine
<1>2. TypeInv'
  BY TypeFinish DEF StackInv
<1>3. CrashIsExplained'
  BY <1>1, EndsWell DEF StackInv
<1>4. QED
  BY <1>1, <1>2, <1>3, StackStops DEF StackInv

-----------------------------------------------------------------------------
(***************************************************************************)
(* The code of the inspection and the replay                               *)
(***************************************************************************)
LEMMA StackCiovec == ASSUME StackInv, Ciovec PROVE StackInv'
<1>1. /\ ~IsPending(top) /\ Running /\ n > 0 /\ inst.op = "ciovec" /\ top.stage # "load"
      /\ status = "running"
  BY NoCall DEF Ciovec
<1>2. /\ UNCHANGED <<place, entries, loaded, log, called, replay>>
      /\ \/ loaded > 0 /\ ciovec' = log /\ status' = "running"
         \/ ~(loaded > 0) /\ status' \in {"trap", "failed"}
  BY <1>1 DEF Ciovec
<1>3. top \in Frame /\ top.pc \in Nat \ {0} /\ loaded \in 0..2
  BY <1>1, TypeContext DEF StackInv, Calls
<1>4. PICK g \in Frame : g = Goto(top.pc + 1) /\ g.func = top.func /\ g.stage = "pre"
  BY <1>3, GotoTyped
<1>5. Top(g) /\ Innermost(g) /\ ~IsPending(g)
  BY <1>4 DEF Ciovec, Innermost, IsPending
<1>6. TypeInv'
  BY TypeCiovec DEF StackInv
<1>7. ChainOK'
  BY <1>1, <1>2, <1>4, <1>5, ChainTop DEF StackInv
<1>8. DumpOK'
  <2>1. status' \notin {"reading", "printed"} /\ (status' = "running" => ciovec' = log')
    BY <1>2
  <2>2. UNCHANGED <<place, backtrace_idx>>
    BY <1>2 DEF replay
  <2>3. QED
    BY <1>1, <1>5, <2>1, <2>2, DumpTop DEF StackInv
<1>9. LogOK' /\ EntriesOK'
  BY <1>1, <1>2, <1>4, <1>5, LogStays, EntriesTop DEF StackInv
<1>10. ReplayOK'
  <2>1. Live' => status' = "running"
    BY <1>2 DEF Live
  <2>2. QED
    BY <1>1, <1>2, <1>5, <2>1, QuietTop DEF StackInv
<1>11. AbortOK' /\ CrashIsExplained'
  <2>1. CASE status' = "running"
    BY <1>2, <2>1, EndsWell DEF StackInv
  <2>2. CASE ~(loaded > 0) /\ status' \in {"trap", "failed"}
    <3>1. AbortOK'
      BY <2>2 DEF AbortOK
    <3>2. loaded = 0
      BY <1>3, <2>2
    <3>3. program.start # None /\ frames[1].func # program.start
      BY <1>1, <3>2, TooEarly DEF StackInv
    <3>4. frames'[1].func = frames[1].func /\ program' = program /\ loaded' = 0
      BY <1>1, <1>2, <1>4, <1>5, <3>2, FirstKept, Stays DEF StackInv
    <3>5. QED
      BY <3>1, <3>3, <3>4 DEF CrashIsExplained
  <2>3. QED
    BY <1>2, <2>1, <2>2
<1>12. QED
  BY <1>6, <1>7, <1>8, <1>9, <1>10, <1>11 DEF StackInv

\* The replay leaves the program as it is.
LEMMA MachineStays ==
  ASSUME StackInv, UNCHANGED <<place, machine>>, status # "trap"
  PROVE  ChainOK' /\ LogOK' /\ EntriesOK' /\ n' = n /\ top' = top
<1>1. UNCHANGED <<place, frames>> /\ UNCHANGED <<entries, loaded, log, called>>
  BY DEF machine
<1>2. QED
  BY <1>1, FramesStay, LogStays, EntriesStay DEF StackInv

LEMMA StackProcExit == ASSUME StackInv, ProcExit PROVE StackInv'
<1>1. /\ Running /\ n > 0 /\ inst.op = "proc_exit" /\ status = "running" /\ status' = "reading"
      /\ UNCHANGED <<place, machine>>
  BY DEF ProcExit, At, Running
<1>2. top.func = inspect_func_name /\ top.pc = inspect_line_num + 3
  BY <1>1, InstTyped DEF StackInv, Fits
<1>3. ChainOK' /\ LogOK' /\ EntriesOK' /\ n' = n /\ top' = top
  BY <1>1, MachineStays
<1>4. DumpOK'
  BY <1>1, <1>2, <1>3, Stays DEF DumpOK
<1>5. TypeInv' /\ ReplayOK'
  BY TypeProcExit, ReplayProcExit DEF StackInv
<1>6. AbortOK' /\ CrashIsExplained'
  BY <1>1 DEF AbortOK, CrashIsExplained
<1>7. QED
  BY <1>3, <1>4, <1>5, <1>6 DEF StackInv

LEMMA StackReadNumber == ASSUME StackInv, ReadNumber PROVE StackInv'
<1>1. /\ status = "reading" /\ status' \in {"reading", "undefined", "aborted"}
      /\ UNCHANGED <<place, machine>>
  BY DEF ReadNumber
<1>2. ChainOK' /\ LogOK' /\ EntriesOK' /\ n' = n /\ top' = top
  BY <1>1, MachineStays
<1>3. DumpOK'
  BY <1>1, <1>2, Stays DEF StackInv, DumpOK
<1>4. TypeInv' /\ ReplayOK' /\ AbortOK'
  BY TypeReadNumber, ReplayReadNumber DEF StackInv
<1>5. CrashIsExplained'
  BY <1>1 DEF CrashIsExplained
<1>6. QED
  BY <1>2, <1>3, <1>4, <1>5 DEF StackInv

LEMMA StackPrintBacktrace == ASSUME StackInv, PrintBacktrace PROVE StackInv'
<1>1. /\ status = "reading" /\ status' = "printed" /\ UNCHANGED <<place, machine>>
  BY DEF PrintBacktrace
<1>2. ChainOK' /\ LogOK' /\ EntriesOK' /\ n' = n /\ top' = top
  BY <1>1, MachineStays
<1>3. DumpOK'
  BY <1>1, <1>2, Stays DEF StackInv, DumpOK
<1>4. TypeInv' /\ ReplayOK'
  BY TypePrintBacktrace, ReplayPrintBacktrace DEF StackInv
<1>5. AbortOK' /\ CrashIsExplained'
  BY <1>1 DEF AbortOK, CrashIsExplained
<1>6. QED
  BY <1>2, <1>3, <1>4, <1>5 DEF StackInv

LEMMA StackStill == ASSUME StackInv, UNCHANGED vars PROVE StackInv'
<1>1. /\ UNCHANGED <<place, machine, replay>> /\ UNCHANGED <<ciovec, status>>
      /\ UNCHANGED <<entries, frames, loaded, log, called>>
      /\ UNCHANGED <<ifile, backtrace_idx, printed>>
  BY DEF vars, machine, replay
<1>2. TypeInv'
  BY TypeStill DEF StackInv
<1>3. ChainOK' /\ EntriesOK' /\ n' = n /\ top' = top /\ (Dumping' <=> Dumping)
  BY <1>1, FramesStay, EntriesStay DEF StackInv
<1>4. LogOK'
  BY <1>1, LogStays DEF StackInv
<1>5. DumpOK'
  BY <1>1, <1>3, Stays DEF StackInv, DumpOK
<1>6. ReplayOK'
  <2> SUFFICES ASSUME Live
               PROVE  \E R, e : /\ Replays(R, log')
                                /\ Agrees(frames, R[Len(log)], e)'
                                /\ loaded' < 2 => Equals(frames, R[Len(log)], e)'
                                /\ Reads(R)'
    BY <1>1 DEF ReplayOK, Live
  <2>1. PICK R, e : /\ Replays(R, log)
                    /\ Agrees(frames, R[Len(log)], e)
                    /\ loaded < 2 => Equals(frames, R[Len(log)], e)
                    /\ Reads(R)
    BY DEF StackInv, ReplayOK
  <2>2. PICK r : r = R[Len(log)] /\ r = R[Len(log')]
    BY <1>1
  <2>3. /\ Agrees(frames, R[Len(log)], e)'
        /\ loaded' < 2 => Equals(frames, R[Len(log)], e)'
    BY <1>1, <2>1, <2>2, WaitingStays
  <2>4. Reads(R)'
    <3>1. \A k : HasRead(R, k)' <=> HasRead(R, k)
      BY <1>1 DEF HasRead
    <3>2. names' = names
      BY <1>1, Stays
    <3>3. QED
      BY <1>1, <2>1, <3>1, <3>2 DEF Reads
  <2>5. QED
    BY <1>1, <2>1, <2>3, <2>4
<1>7. AbortOK'
  BY <1>1, CodeStays DEF StackInv, AbortOK
<1>8. CrashIsExplained'
  <2>1. NotFirst' <=> NotFirst
    BY <1>1, <1>3, Stays DEF NotFirst
  <2>2. QED
    BY <1>1, <1>3, <2>1, Stays DEF StackInv, CrashIsExplained
<1>9. QED
  BY <1>2, <1>3, <1>4, <1>5, <1>6, <1>7, <1>8 DEF StackInv

-----------------------------------------------------------------------------
(***************************************************************************)
(* The invariant holds.                                                    *)
(***************************************************************************)
LEMMA StackInit == Init => StackInv
<1> SUFFICES ASSUME Init PROVE StackInv
  OBVIOUS
<1>1. /\ frames = <<>> /\ log = <<>> /\ loaded = 0 /\ called = {} /\ status = "running"
      /\ backtrace_idx = <<>> /\ ciovec = <<>>
  BY DEF Init
<1>2. TypeInv
  BY TypeInit
<1>3. n = 0 /\ Len(log) = 0
  BY <1>1 DEF n
<1>4. ChainOK /\ DumpOK /\ LogOK /\ AbortOK /\ CrashIsExplained
  BY <1>1, <1>3 DEF ChainOK, DumpOK, Dumping, LogOK, AbortOK, CrashIsExplained
<1>5. EntriesOK
  <2>1. entries = InstrumentedEntries(program)
    BY DEF Init
  <2>2. program.main \in Func /\ (program.init = None \/ program.init \in Func) /\ LoadData \notin Func
    <3>1. Placed
      BY <1>2 DEF TypeInv
    <3>2. QED
      BY <3>1, ProgramIsProgram, BacktraceConstants DEF Placed
  <2>3. CASE program.start = None
    <3>1. entries = <<LoadData, program.main>>
      BY <2>1, <2>3 DEF InstrumentedEntries
    <3>2. Len(entries) = 2 /\ entries[1] = LoadData /\ entries[2] = program.main /\ entries # <<>>
      BY <3>1
    <3>3. QED
      BY <1>1, <1>3, <2>2, <3>2 DEF EntriesOK, Loading
  <2>4. CASE program.start # None
    <3>1. \A k \in 1..Len(entries) : entries[k] # LoadData
      <4>1. CASE program.init = None
        <5>1. entries = <<program.main>>
          BY <2>1, <2>4, <4>1 DEF InstrumentedEntries
        <5>2. QED
          BY <2>2, <5>1
      <4>2. CASE program.init # None
        <5>1. PICK u, v \in Func : u = program.init /\ v = program.main
          BY <2>2, <4>2
        <5>2. entries = <<u>> \o <<v>>
          BY <2>1, <2>4, <4>2, <5>1 DEF InstrumentedEntries
        <5>3. (<<u>>) \in Seq(Func) /\ (<<v>>) \in Seq(Func) /\ Len(<<u>>) = 1 /\ Len(<<v>>) = 1
          OBVIOUS
        <5>4. entries \in Seq(Func)
          BY <5>2, <5>3, ConcatProperties
        <5>5. \A k \in 1..Len(entries) : entries[k] \in Func
          BY <5>4
        <5>6. QED
          BY <2>2, <5>5
      <4>3. QED
        BY <4>1, <4>2
    <3>2. entries \in Seq(Defined(program) \cup {LoadData})
      BY <1>2 DEF TypeInv, Calls
    <3>3. entries # <<>> => 1 \in 1..Len(entries)
      BY <3>2, EmptySeq
    <3>4. QED
      BY <1>1, <1>3, <2>4, <3>1, <3>3 DEF EntriesOK, Loading
  <2>5. QED
    BY <2>3, <2>4
<1>6. ReplayOK
  <2>1. PICK R : R = [k \in 0..0 |-> <<>>] /\ Replays(R, log)
    BY <1>1, ReplaysNothing
  <2>2. R[Len(log)] = <<>>
    BY <1>3, <2>1
  <2>3. Waiting(frames) = {}
    BY <1>3 DEF Waiting, n
  <2>4. PICK e \in Seq(Nat) : e = <<>> /\ Len(e) = 0
    <3>1. (<<>>) \in Seq(Nat) /\ Len(<<>>) = 0
      OBVIOUS
    <3>2. QED
      BY <3>1, Zenon
  <2>5. Agrees(frames, R[Len(log)], e) /\ Equals(frames, R[Len(log)], e)
    BY <2>2, <2>3, <2>4 DEF Agrees, Equals, Enumerates
  <2>6. Reads(R)
    BY <1>1 DEF Reads
  <2>7. QED
    BY <2>1, <2>5, <2>6 DEF ReplayOK
<1>7. QED
  BY <1>2, <1>4, <1>5, <1>6 DEF StackInv

LEMMA StackStep == StackInv /\ [Next]_vars => StackInv'
<1> SUFFICES ASSUME StackInv, [Next]_vars PROVE StackInv'
  OBVIOUS
<1>1. CASE Begin
  BY <1>1, StackBegin
<1>2. CASE Load
  BY <1>2, StackLoad
<1>3. CASE HookBefore
  BY <1>3, StackHookBefore
<1>4. CASE HookAfter
  BY <1>4, StackHookAfter
<1>5. CASE Other
  BY <1>5, StackOther
<1>6. CASE Branch
  BY <1>6, StackBranch
<1>7. CASE CallOut
  BY <1>7, StackCallOut
<1>8. CASE Call
  BY <1>8, StackCall
<1>9. CASE Return
  BY <1>9, StackReturn
<1>10. CASE Finish
  BY <1>10, StackFinish
<1>11. CASE Ciovec
  BY <1>11, StackCiovec
<1>12. CASE ProcExit
  BY <1>12, StackProcExit
<1>13. CASE ReadNumber
  BY <1>13, StackReadNumber
<1>14. CASE PrintBacktrace
  BY <1>14, StackPrintBacktrace
<1>15. CASE Stopped \/ UNCHANGED vars
  BY <1>15, StackStill DEF Stopped
<1>16. QED
  BY <1>1, <1>2, <1>3, <1>4, <1>5, <1>6, <1>7, <1>8, <1>9, <1>10, <1>11, <1>12, <1>13,
     <1>14, <1>15 DEF Next

LEMMA StackAlways == Spec => []StackInv
<1>1. QED
  BY StackInit, StackStep, PTL DEF Spec

-----------------------------------------------------------------------------
(***************************************************************************)
(* The properties                                                          *)
(***************************************************************************)
\* The places after those of a set
Nexts(P) == {j + 1 : j \in P}

LEMMA EnumeratesNexts ==
  ASSUME NEW e, NEW P, Enumerates(e, P), P \subseteq Nat
  PROVE  \E f : Enumerates(f, Nexts(P)) /\ Len(f) = Len(e) /\ \A a \in 1..Len(e) : f[a] = e[a] + 1
<1>1. e \in Seq(Nat) /\ Len(e) \in Nat /\ \A a \in 1..Len(e) : e[a] \in Nat /\ e[a] \in P
  BY DEF Enumerates
<1>2. PICK f : f = [a \in 1..Len(e) |-> e[a] + 1]
  OBVIOUS
<1>3. f \in Seq(Nat) /\ Len(f) = Len(e) /\ \A a \in 1..Len(e) : f[a] = e[a] + 1
  <2>1. f \in [1..Len(e) -> Nat] /\ \A a \in 1..Len(e) : f[a] = e[a] + 1
    BY <1>1, <1>2
  <2>2. f \in Seq(Nat) /\ DOMAIN f = 1..Len(e)
    BY <1>1, <2>1, SeqDef
  <2>3. Len(f) = Len(e)
    BY <1>1, <2>2
  <2>4. QED
    BY <2>1, <2>2, <2>3
<1>4. \A a \in 1..Len(f) : f[a] \in Nexts(P)
  BY <1>1, <1>3 DEF Nexts
<1>5. ASSUME NEW a \in 1..Len(f), NEW b \in 1..Len(f), a < b PROVE f[a] < f[b]
  <2>1. e[a] < e[b]
    BY <1>3, <1>5 DEF Enumerates
  <2>2. QED
    BY <1>1, <1>3, <2>1
<1>6. ASSUME NEW j \in Nexts(P) PROVE \E a \in 1..Len(f) : f[a] = j
  <2>1. PICK i \in P : j = i + 1
    BY DEF Nexts
  <2>2. PICK a \in 1..Len(e) : e[a] = i
    BY DEF Enumerates
  <2>3. QED
    BY <1>3, <2>1, <2>2
<1>7. Enumerates(f, Nexts(P))
  BY <1>3, <1>4, <1>5, <1>6 DEF Enumerates
<1>8. QED
  BY <1>3, <1>7

\* When the program has stopped, the waiting calls are those that have to be shown.
LEMMA TracedWait ==
  ASSUME StackInv, status = "printed"
  PROVE  /\ Waiting(frames) \subseteq 1..(n - 1)
         /\ {j \in 2..n : Traced(j)} = Nexts(Waiting(frames))
<1>1. n > 0 /\ top.func = inspect_func_name /\ top.pc = inspect_line_num + 3
  BY DEF StackInv, DumpOK
<1>2. /\ n \in Nat \ {0} /\ n = Len(frames) /\ top = frames[n] /\ Placed /\ inspect_line_num \in Nat
      /\ \A j \in 1..n : frames[j] \in Frame
  BY <1>1, TypeContext, CodeTyped DEF StackInv, n, top, Placed
<1>3. Waiting(frames) \subseteq 1..(n - 1)
  <2>1. ~IsPending(frames[n])
    BY <1>1, <1>2 DEF IsPending, Hooked
  <2>2. QED
    BY <1>2, <2>1 DEF Waiting
<1>4. ASSUME NEW i \in 1..(n - 1) PROVE Traced(i + 1) <=> i \in Waiting(frames)
  <2>1. PICK g \in Frame, h \in Frame : g = frames[i] /\ h = frames[i + 1]
    <3>1. i \in 1..n /\ i + 1 \in 1..n
      BY <1>2
    <3>2. QED
      BY <1>2, <3>1
  <2>2. Opens(g, h)
    BY <2>1 DEF StackInv, ChainOK
  <2>3. i \in Waiting(frames) <=> Hooked(g.func, g.pc)
    BY <1>2, <2>1, <2>2 DEF Waiting, IsPending, Opens
  <2>4. Traced(i + 1) <=>
          /\ Code(g.func)[g.pc].op = "call"
          /\ ~(g.func = inspect_func_name /\ g.pc > inspect_line_num + 3)
    <3>1. (i + 1) - 1 = i /\ Len(DumpCode) = 3
      BY DEF DumpCode
    <3>2. QED
      BY <2>1, <3>1 DEF Traced
  <2>5. g.pc \in Nat \ {0} /\ g.func \in Defined(program)
    BY DEF Frame
  <2>6. Fits(g.func, g.pc, Code(g.func)[g.pc])
    BY <1>2, <2>2, <2>5, CodeTyped DEF Opens
  <2>7. CASE Hooked(g.func, g.pc)
    <3>1. Traced(i + 1)
      BY <1>2, <2>4, <2>5, <2>7 DEF Hooked
    <3>2. QED
      BY <2>3, <2>7, <3>1
  <2>8. CASE ~Hooked(g.func, g.pc)
    <3>1. ASSUME Code(g.func)[g.pc].op = "call", g.func = inspect_func_name
          PROVE  g.pc > inspect_line_num + 3
      <4>1. g.pc > inspect_line_num
        BY <1>2, <2>5, <2>8, <3>1 DEF Hooked
      <4>2. g.pc + 1 \notin (inspect_line_num + 2)..(inspect_line_num + 3)
        BY <1>2, <2>2, <2>8, <3>1, CallerElsewhere
      <4>3. g.pc # inspect_line_num + 3
        BY <2>6, <3>1 DEF Fits
      <4>4. QED
        BY <1>2, <2>5, <4>1, <4>2, <4>3
    <3>2. Code(g.func)[g.pc].op = "call" => g.func = inspect_func_name
      BY <2>8 DEF Hooked
    <3>3. ~Traced(i + 1)
      BY <2>4, <3>1, <3>2
    <3>4. QED
      BY <2>3, <2>8, <3>3
  <2>9. QED
    BY <2>7, <2>8
<1>5. ASSUME NEW j \in 2..n, Traced(j) PROVE j \in Nexts(Waiting(frames))
  <2>1. j - 1 \in 1..(n - 1) /\ (j - 1) + 1 = j
    BY <1>2
  <2>2. j - 1 \in Waiting(frames)
    BY <1>4, <1>5, <2>1
  <2>3. QED
    BY <2>1, <2>2 DEF Nexts
<1>6. ASSUME NEW j \in Nexts(Waiting(frames)) PROVE j \in 2..n /\ Traced(j)
  <2>1. PICK i \in Waiting(frames) : j = i + 1
    BY DEF Nexts
  <2>2. i \in 1..(n - 1)
    BY <1>3
  <2>3. QED
    BY <1>2, <1>4, <2>1, <2>2
<1>7. QED
  BY <1>3, <1>5, <1>6

LEMMA Shown ==
  ASSUME StackInv, status = "printed", loaded = 1
  PROVE  LET shown == {j \in 2..n : Traced(j)}
         IN  /\ Len(printed) = Cardinality(shown)
             /\ \A j \in shown : printed[Cardinality({i \in shown : j <= i})] = frames[j].func
<1> DEFINE shown == {j \in 2..n : Traced(j)}
<1>1. PICK R, e : /\ Replays(R, log)
                  /\ Agrees(frames, R[Len(log)], e)
                  /\ Equals(frames, R[Len(log)], e)
                  /\ Reads(R)
  BY DEF StackInv, ReplayOK, Live
<1>2. PICK r : r = backtrace_idx
  OBVIOUS
<1>3. /\ Enumerates(e, Waiting(frames)) /\ Len(e) = Len(r)
      /\ \A a \in 1..Len(e) : r[a] = Logged(frames[e[a]])
      /\ printed = [k \in 1..Len(r) |-> names[r[Len(r) + 1 - k] + 1]]
  BY <1>1, <1>2 DEF Agrees, Equals, Reads, HasRead
<1>4. Placed /\ Waiting(frames) \subseteq 1..(n - 1) /\ shown = Nexts(Waiting(frames))
  BY TracedWait DEF StackInv, TypeInv
<1>5. r \in Seq(0..(Len(names) - 1)) /\ Len(e) \in Nat
  BY <1>2, <1>3 DEF StackInv, TypeInv, Report, Enumerates
<1>6. PICK f : /\ Enumerates(f, shown) /\ Len(f) = Len(e)
               /\ \A a \in 1..Len(e) : f[a] = e[a] + 1
  <2>1. Waiting(frames) \subseteq Nat
    BY <1>4
  <2> HIDE DEF shown
  <2>2. QED
    BY <1>3, <1>4, <2>1, EnumeratesNexts
<1>7. Len(printed) = Len(e)
  <2>1. printed \in Seq(Func)
    BY DEF StackInv, TypeInv, Report
  <2>2. DOMAIN printed = 1..Len(e) /\ DOMAIN printed = 1..Len(printed) /\ Len(printed) \in Nat
    BY <1>3, <2>1
  <2>3. QED
    BY <1>5, <2>2
<1> HIDE DEF shown
<1>8. Cardinality(shown) = Len(e)
  <2>1. shown = {j \in shown : \E b \in 1..Len(f) : f[b] = j}
    BY <1>6 DEF Enumerates
  <2>2. 1 \in 1..(Len(f) + 1)
    BY <1>5, <1>6
  <2>3. Cardinality(shown) = Len(f) + 1 - 1
    BY <1>6, <2>1, <2>2, EnumeratesCount
  <2>4. QED
    BY <1>5, <1>6, <2>3
<1>9. ASSUME NEW j \in shown
      PROVE  printed[Cardinality({i \in shown : j <= i})] = frames[j].func
  <2>1. PICK a \in 1..Len(e) : f[a] = j
    BY <1>6 DEF Enumerates
  <2>2. {i \in shown : j <= i} = {i \in shown : \E b \in a..Len(f) : f[b] = i}
    <3>1. ASSUME NEW i \in shown, j <= i PROVE \E b \in a..Len(f) : f[b] = i
      <4>1. PICK b \in 1..Len(f) : f[b] = i
        BY <1>6 DEF Enumerates
      <4>2. f[a] \in Nat /\ f[b] \in Nat /\ a \in 1..Len(f)
        BY <1>6, <2>1, <4>1 DEF Enumerates
      <4>3. ~(b < a)
        BY <1>6, <2>1, <3>1, <4>1, <4>2 DEF Enumerates
      <4>4. b \in a..Len(f)
        BY <1>5, <1>6, <4>1, <4>3
      <4>5. QED
        BY <4>1, <4>4
    <3>2. ASSUME NEW i \in shown, NEW b \in a..Len(f), f[b] = i PROVE j <= i
      <4>1. a \in 1..Len(f) /\ b \in 1..Len(f) /\ (a = b \/ a < b)
        BY <1>5, <1>6
      <4>2. f[a] \in Nat /\ f[b] \in Nat
        BY <1>6, <4>1 DEF Enumerates
      <4>3. a < b => f[a] < f[b]
        BY <1>6, <4>1 DEF Enumerates
      <4>4. QED
        BY <2>1, <3>2, <4>1, <4>2, <4>3
    <3>3. QED
      BY <3>1, <3>2
  <2>3. PICK c : c = Cardinality({i \in shown : j <= i}) /\ c = Len(e) + 1 - a
    <3>1. a \in 1..(Len(f) + 1)
      BY <1>5, <1>6
    <3>2. Cardinality({i \in shown : j <= i}) = Len(f) + 1 - a
      BY <1>6, <2>2, <3>1, EnumeratesCount
    <3>3. QED
      BY <1>6, <3>2
  <2>4. c \in 1..Len(r) /\ Len(r) + 1 - c = a
    <3>1. PICK m \in Nat : m = Len(e) /\ m = Len(r) /\ c = m + 1 - a /\ a \in 1..m
      BY <1>3, <1>5, <2>3
    <3>2. c \in 1..m /\ m + 1 - c = a
      BY <3>1
    <3>3. QED
      BY <3>1, <3>2
  <2>5. printed[c] = names[r[a] + 1]
    BY <1>3, <2>4
  <2>6. PICK w : w = e[a] /\ w \in 1..(n - 1) /\ j = w + 1
    BY <1>3, <1>4, <1>6, <2>1 DEF Enumerates
  <2>7. PICK g : g = frames[w] /\ Opens(g, frames[j]) /\ IsPending(g)
    <3>1. Opens(frames[w], frames[w + 1])
      BY <2>6 DEF StackInv, ChainOK
    <3>2. w \in Waiting(frames)
      BY <1>3, <2>6 DEF Enumerates
    <3>3. QED
      BY <2>6, <3>1, <3>2 DEF Waiting
  <2>8. PICK t : t = Code(g.func)[g.pc].to
    OBVIOUS
  <2>9. t = frames[j].func
    BY <2>7, <2>8 DEF Opens, IsPending, Hooked
  <2>10. r[a] = funcname_map(t) /\ r[a] >= 0
    <3>1. r[a] = Logged(g)
      BY <1>3, <2>6, <2>7
    <3>2. r[a] \in 0..(Len(names) - 1)
      BY <1>3, <1>5
    <3>3. r[a] >= 0
      <4>1. Len(names) \in Nat
        BY <1>4, NamesTyped
      <4>2. QED
        BY <3>2, <4>1
    <3>4. QED
      BY <2>8, <3>1, <3>3 DEF Logged
  <2>11. names[r[a] + 1] = t
    BY <1>4, <2>10, NumberTyped
  <2>12. QED
    BY <2>3, <2>5, <2>9, <2>11
<1>10. QED
  BY <1>7, <1>8, <1>9 DEF shown

\* The backtrace that is printed names the open calls, the innermost first: all that
\* were made by a call before the end of the inserted code, and no others, if
\* "_start" was run once.  This is so for every program and every line.
THEOREM StackShown == Spec => []ShowsCallStack
<1>1. StackInv => ShowsCallStack
  BY Shown DEF ShowsCallStack
<1>2. QED
  BY <1>1, StackAlways, PTL

\* The replay never pops from an empty vector.  It fails on -2 only if a function was
\* called that has no number, and it fails whenever one was, if "_start" was run once.
THEOREM FailuresExplained == Spec => []FailsForImportsOnly
<1>1. StackInv => FailsForImportsOnly
  <2> SUFFICES ASSUME StackInv PROVE FailsForImportsOnly
    OBVIOUS
  <2>1. ASSUME status = "printed", loaded = 1, NEW f \in called PROVE ~Nameless(f)
    <3>1. PICK R : HasRead(R, Len(log))
      BY <2>1 DEF StackInv, ReplayOK, Live, Reads
    <3>2. \A i \in 1..Len(log) : log[i] # -2
      BY <3>1 DEF HasRead
    <3>3. Nameless(f) => \E i \in 1..Len(log) : log[i] = -2
      BY <2>1 DEF StackInv, LogOK
    <3>4. QED
      BY <3>2, <3>3
  <2>2. QED
    BY <2>1 DEF StackInv, AbortOK, FailsForImportsOnly
<1>2. QED
  BY <1>1, StackAlways, PTL

\* The instrumented program traps, or ends with 12, for one of the four reasons that
\* CrashIsExplained lists and for no other.
THEOREM CrashesExplained == Spec => []CrashIsExplained
<1>1. StackInv => CrashIsExplained
  BY DEF StackInv
<1>2. QED
  BY <1>1, StackAlways, PTL

=============================================================================
