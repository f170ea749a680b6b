-------------------------- MODULE MatchInsertProofs --------------------------
(***************************************************************************)
(* instrument() weaves, for every code, scope and list of operations.  The *)
(* argument: at the head of the loop the list up to the iterator is the    *)
(* woven form of the instructions passed, and the list from the iterator   *)
(* on is the rest of the original code, so nothing inserted is ever        *)
(* compared with a target.                                                 *)
(***************************************************************************)
EXTENDS MatchInsert, StackIRProofs

\* The instance of Weaving is about the same targets, fragments and vectors.
LEMMA SameOperators ==
  /\ \A x, targets : W!exp_match_targets(x, targets) = exp_match_targets(x, targets)
  /\ \A v : W!vec2list(v) = vec2list(v)
  /\ W!IRVector = IRVector
<1>1. \A x, target : W!exp_match_target(x, target) = exp_match_target(x, target)
  BY DEF W!exp_match_target, exp_match_target
<1>2. \A x, targets : W!exp_match_targets(x, targets) = exp_match_targets(x, targets)
  BY <1>1 DEF W!exp_match_targets, exp_match_targets
<1>3. ASSUME NEW v PROVE W!vec2list(v) = vec2list(v)
  BY DEF W!vec2list, vec2list, W!Cardinality, Cardinality
<1>4. QED
  BY <1>2, <1>3 DEF W!IRVector, IRVector

(***************************************************************************)
(* Weaving one more instruction.                                           *)
(***************************************************************************)
LEMMA NothingWoven ==
  ASSUME NEW ops PROVE W!IsWoven(ops, <<>>, <<>>)
<1> DEFINE end == [k \in 0..0 |-> 0]
<1>1. Len(<<>>) = 0 /\ end \in [0..0 -> 0..0] /\ end[0] = 0
  OBVIOUS
<1>2. W!IsWovenAt(ops, <<>>, <<>>, end)
  BY <1>1 DEF W!IsWovenAt
<1>3. QED
  BY <1>1, <1>2 DEF W!IsWoven

LEMMA OneMoreWoven ==
  ASSUME NEW ops, NEW old \in Seq(Inst), NEW new \in Seq(Inst), NEW x \in Inst,
         NEW piece \in Seq(Inst), piece # <<>>,
         W!StandsFor(ops, x, piece), W!IsWoven(ops, old, new)
  PROVE  W!IsWoven(ops, Append(old, x), new \o piece)
<1> DEFINE n == Len(old)
           m == Len(new)
           p == Len(piece)
<1>1. n \in Nat /\ m \in Nat /\ p \in Nat /\ p # 0
  BY LenProperties, EmptySeq
<1>2. PICK end \in [0..n -> 0..m] : W!IsWovenAt(ops, old, new, end)
  BY DEF W!IsWoven
<1> DEFINE longer == [k \in 0..(n + 1) |-> IF k <= n THEN end[k] ELSE m + p]
<1>3. /\ Append(old, x) \in Seq(Inst)
      /\ Len(Append(old, x)) = n + 1
      /\ \A k \in 1..n : Append(old, x)[k] = old[k]
      /\ Append(old, x)[n + 1] = x
  BY AppendProperties
<1>4. Len(new \o piece) = m + p
  BY ConcatProperties
<1>5. longer \in [0..(n + 1) -> 0..(m + p)]
  BY <1>1
<1>6. longer[0] = 0 /\ longer[n + 1] = m + p
  BY <1>1, <1>2 DEF W!IsWovenAt
<1>7. ASSUME NEW k \in 1..n
      PROVE  /\ longer[k - 1] < longer[k]
             /\ W!StandsFor(ops, Append(old, x)[k],
                            SubSeq(new \o piece, longer[k - 1] + 1, longer[k]))
  <2>1. longer[k - 1] = end[k - 1] /\ longer[k] = end[k]
    BY <1>1
  <2>2. /\ end[k - 1] < end[k]
        /\ W!StandsFor(ops, old[k], SubSeq(new, end[k - 1] + 1, end[k]))
    BY <1>2 DEF W!IsWovenAt
  <2>3. end[k - 1] \in 0..m /\ end[k] \in 0..m
    <3>1. k - 1 \in 0..n /\ k \in 0..n
      BY <1>1
    <3>2. QED
      BY <3>1
  <2>4. end[k - 1] + 1 \in 1..m /\ end[k] \in 1..m
    BY <1>1, <2>2, <2>3
  <2>5. SubSeq(new \o piece, end[k - 1] + 1, end[k]) = SubSeq(new, end[k - 1] + 1, end[k])
    BY <2>4, SubSeqOfConcat1
  <2> HIDE DEF longer
  <2>6. SubSeq(new \o piece, longer[k - 1] + 1, longer[k]) = SubSeq(new, end[k - 1] + 1, end[k])
    BY <2>1, <2>5
  <2>7. Append(old, x)[k] = old[k]
    BY <1>3
  <2>8. QED
    BY <2>1, <2>2, <2>6, <2>7
<1>8. /\ longer[n] < longer[n + 1]
      /\ W!StandsFor(ops, x, SubSeq(new \o piece, longer[n] + 1, longer[n + 1]))
  <2>1. longer[n] = m /\ longer[n + 1] = m + p
    BY <1>1, <1>2 DEF W!IsWovenAt
  <2>2. m + 1 \in (m + 1)..(m + p) /\ m + p \in (m + 1)..(m + p)
    BY <1>1
  <2>3. SubSeq(new \o piece, m + 1, m + p) = SubSeq(piece, (m + 1) - m, (m + p) - m)
    BY <2>2, SubSeqOfConcat2
  <2>4. (m + 1) - m = 1 /\ (m + p) - m = p
    BY <1>1
  <2>5. SubSeq(piece, 1, p) = piece
    BY SubSeqFull
  <2> HIDE DEF longer
  <2>6. SubSeq(new \o piece, longer[n] + 1, longer[n + 1]) = piece
    BY <2>1, <2>3, <2>4, <2>5
  <2>7. m < m + p
    BY <1>1
  <2>8. QED
    BY <2>1, <2>6, <2>7
<1> HIDE DEF longer, n, m, p
<1>9. ASSUME NEW k \in 1..(n + 1)
      PROVE  /\ longer[k - 1] < longer[k]
             /\ W!StandsFor(ops, Append(old, x)[k],
                            SubSeq(new \o piece, longer[k - 1] + 1, longer[k]))
  <2>1. CASE k \in 1..n
    BY <1>7, <2>1
  <2>2. CASE k = n + 1
    <3>1. k - 1 = n
      BY <1>1, <2>2
    <3>2. longer[k - 1] = longer[n] /\ longer[k] = longer[n + 1] /\ Append(old, x)[k] = x
      BY <1>3, <2>2, <3>1
    <3>3. QED
      BY <1>8, <3>2
  <2>3. k \in 1..n \/ k = n + 1
    BY <1>1
  <2>4. QED
    BY <2>1, <2>2, <2>3
<1>10. W!IsWovenAt(ops, Append(old, x), new \o piece, longer)
  BY <1>3, <1>4, <1>6, <1>9 DEF W!IsWovenAt
<1>11. QED
  BY <1>3, <1>4, <1>5, <1>10 DEF W!IsWoven

-----------------------------------------------------------------------------
(***************************************************************************)
(* Types.                                                                  *)
(***************************************************************************)
\* Where Insert leaves the iterator
LEMMA InsertWalk ==
  ASSUME TypeOK, Insert
  PROVE  LET p == operations[op_num]
             piece == Append(PreList(p), Head(after)) \o PostList(p)
         IN  /\ before' \in Seq(Inst) /\ after' \in Seq(Inst) /\ after' # <<>>
             /\ piece \in Seq(Inst) /\ piece # <<>>
             /\ Append(before', Head(after')) = before \o piece
             /\ Tail(after') = Tail(after)
<1> DEFINE p == operations[op_num]
           x == Head(after)
           pre == PreList(p)
           post == PostList(p)
           piece == Append(pre, x) \o post
           w == Append(before \o pre, x) \o post
<1>1. after # <<>> /\ after \in Seq(Inst) /\ before \in Seq(Inst) /\ p \in Operation
  BY ElementOfSeq DEF Insert, Comparing, TypeOK
<1>2. pre \in Seq(Inst) /\ post \in Seq(Inst)
  BY <1>1, FragmentLists
<1>3. x \in Inst /\ Tail(after) \in Seq(Inst)
  BY <1>1, HeadTailProperties
<1>4. before' = SubSeq(w, 1, Len(w) - 1) /\ after' = <<w[Len(w)]>> \o Tail(after)
  BY DEF Insert
<1> HIDE DEF pre, post, x, p
<1>5. Append(pre, x) \in Seq(Inst) /\ Append(pre, x) # <<>>
  BY <1>2, <1>3, AppendProperties
<1>6. piece \in Seq(Inst) /\ piece # <<>>
  BY <1>2, <1>5, ConcatProperties, ConcatEqualIffEmpty
<1>7. w = before \o piece
  <2>1. before \o pre \in Seq(Inst) /\ <<x>> \in Seq(Inst)
    BY <1>1, <1>2, <1>3, ConcatProperties
  <2>2. Append(before \o pre, x) = (before \o pre) \o <<x>> /\ Append(pre, x) = pre \o <<x>>
    BY <1>2, <1>3, <2>1, AppendIsConcat
  <2>3. (before \o pre) \o <<x>> = before \o (pre \o <<x>>)
    <3>1. before \in Seq(Inst) /\ pre \in Seq(Inst) /\ <<x>> \in Seq(Inst)
      BY <1>1, <1>2, <2>1
    <3>2. QED
      BY ONLY <3>1, ConcatAssociative
  <2>4. ASSUME NEW a \in Seq(Inst)
        PROVE  (before \o a) \o post = before \o (a \o post)
    <3>1. before \in Seq(Inst) /\ post \in Seq(Inst)
      BY <1>1, <1>2
    <3>2. QED
      BY ONLY <3>1, <2>4, ConcatAssociative
  <2>5. QED
    BY <1>5, <2>2, <2>3, <2>4
<1> HIDE DEF w, piece
<1>8. w \in Seq(Inst) /\ w # <<>>
  BY <1>1, <1>6, <1>7, ConcatProperties, ConcatEqualIffEmpty
<1>9. /\ w[Len(w)] \in Inst
      /\ before' \in Seq(Inst)
      /\ Append(before', w[Len(w)]) = w
  BY <1>4, <1>8, AppendBack
<1>10. /\ after' \in Seq(Inst) /\ after' # <<>>
       /\ Head(after') = w[Len(w)] /\ Tail(after') = Tail(after)
  BY <1>3, <1>4, <1>9, ConsBack
<1>11. QED
  BY <1>6, <1>7, <1>9, <1>10 DEF piece, pre, post, x, p

LEMMA OperationsLen ==
  ASSUME TypeOK
  PROVE  Len(operations) \in Nat /\ op_num \in Nat /\ 1 \in 1..(Len(operations) + 1)
<1>1. Len(operations) \in Nat
  BY LenProperties DEF TypeOK
<1>2. QED
  BY <1>1 DEF TypeOK

\* The iterator is not end() when it is advanced.
OnElement == pc = "advance" => after # <<>>

LEMMA TypeCorrectStep ==
  ASSUME TypeOK, OnElement, [Next]_vars
  PROVE  TypeOK' /\ OnElement'
<1> USE OperationsLen DEF TypeOK, OnElement
<1>1. ASSUME NEW f \in Func, Pass(f) PROVE TypeOK' /\ OnElement'
  BY <1>1 DEF Pass, input
<1>2. ASSUME NEW f \in Func, Visit(f) PROVE TypeOK' /\ OnElement'
  <2>1. vec2list(stackIR[f]) \in Seq(Inst) /\ <<>> \in Seq(Inst)
    BY Vec2ListType, EmptySeq
  <2>2. QED
    BY <1>2, <2>1 DEF Visit, input
<1>3. CASE NoMatch
  BY <1>3 DEF NoMatch, Comparing, input
<1>4. CASE Insert
  <2>1. before' \in Seq(Inst) /\ after' \in Seq(Inst) /\ after' # <<>>
    BY <1>4, InsertWalk
  <2>2. QED
    BY <1>4, <2>1 DEF Insert, input
<1>5. CASE Advance
  <2>1. Head(after) \in Inst /\ Tail(after) \in Seq(Inst)
    BY <1>5, HeadTailProperties DEF Advance
  <2>2. Append(before, Head(after)) \in Seq(Inst)
    BY <2>1, AppendProperties
  <2>3. QED
    BY <1>5, <2>1, <2>2 DEF Advance, input
<1>6. CASE WriteBack
  <2>1. before \in IRVector
    BY SeqMonotonic DEF IRVector
  <2>2. QED
    BY <1>6, <2>1 DEF WriteBack, input
<1>7. CASE Return
  BY <1>7 DEF Return, input
<1>8. CASE UNCHANGED vars \/ Returned
  BY <1>8 DEF Returned, vars
<1>9. QED
  BY <1>1, <1>2, <1>3, <1>4, <1>5, <1>6, <1>7, <1>8 DEF Next

(***************************************************************************)
(* Every variable keeps its type: in particular the list never holds one   *)
(* of the vector's holes, and no operation past the last one is compared.  *)
(***************************************************************************)
THEOREM TypeCorrect == Spec => []TypeOK
<1>1. Init => TypeOK /\ OnElement
  <2> SUFFICES ASSUME Init PROVE TypeOK /\ OnElement
    OBVIOUS
  <2>1. operations \in Seq(Operation) /\ original \in [Func -> IRVector]
    BY MatchInsertConstants DEF Init
  <2>2. Len(operations) \in Nat /\ <<>> \in Seq(Inst)
    BY <2>1, LenProperties, EmptySeq
  <2>3. QED
    BY <2>1, <2>2 DEF Init, TypeOK, OnElement
<1>2. TypeOK /\ OnElement /\ [Next]_vars => TypeOK' /\ OnElement'
  BY TypeCorrectStep
<1>3. QED
  BY <1>1, <1>2, PTL DEF Spec

-----------------------------------------------------------------------------
(***************************************************************************)
(* The loop invariant.                                                     *)
(***************************************************************************)
\* out is the woven form of the instructions of code that come before rest.
WovenSoFar(ops, code, out, rest) ==
  \E old \in Seq(Inst) : old \o rest = code /\ W!IsWoven(ops, old, out)

Unmatched(x) == \A k \in 1..(op_num - 1) : ~exp_match_targets(x, operations[k].targets)

LoopInv ==
  /\ pc \in {"match", "advance"} => func \in todo \cap scope \cap defined
  /\ pc = "match" =>
       /\ WovenSoFar(operations, vec2list(stackIR[func]), before, after)
       /\ after # <<>> => Unmatched(Head(after))
  /\ pc = "advance" =>
       /\ after # <<>>
       /\ WovenSoFar(operations, vec2list(stackIR[func]), Append(before, Head(after)), Tail(after))

Finished(f) ==
  IF f \in scope \cap defined
  THEN W!IsWoven(operations, vec2list(original[f]), stackIR[f])
  ELSE stackIR[f] = original[f]

FunctionsInv ==
  /\ \A f \in Func : IF f \in todo THEN stackIR[f] = original[f] ELSE Finished(f)
  /\ pc = "done" => todo = {}

LEMMA NothingSoFar ==
  ASSUME NEW ops, NEW code \in Seq(Inst)
  PROVE  WovenSoFar(ops, code, <<>>, code)
<1>1. <<>> \in Seq(Inst) /\ <<>> \o code = code
  BY EmptySeq, ConcatEmptySeq
<1>2. QED
  BY <1>1, NothingWoven DEF WovenSoFar

LEMMA OneMoreSoFar ==
  ASSUME NEW ops, NEW code, NEW out \in Seq(Inst), NEW rest \in Seq(Inst), rest # <<>>,
         NEW piece \in Seq(Inst), piece # <<>>,
         W!StandsFor(ops, Head(rest), piece), WovenSoFar(ops, code, out, rest)
  PROVE  WovenSoFar(ops, code, out \o piece, Tail(rest))
<1>1. PICK old \in Seq(Inst) : old \o rest = code /\ W!IsWoven(ops, old, out)
  BY DEF WovenSoFar
<1>2. /\ Head(rest) \in Inst
      /\ Append(old, Head(rest)) \in Seq(Inst)
      /\ Append(old, Head(rest)) \o Tail(rest) = code
  BY <1>1, TakeHead
<1>3. W!IsWoven(ops, Append(old, Head(rest)), out \o piece)
  BY <1>1, <1>2, OneMoreWoven
<1>4. QED
  BY <1>2, <1>3 DEF WovenSoFar

\* All instructions have been passed.
LEMMA AllWoven ==
  ASSUME NEW ops, NEW code, NEW out, WovenSoFar(ops, code, out, <<>>)
  PROVE  W!IsWoven(ops, code, out)
<1>1. PICK old \in Seq(Inst) : old \o <<>> = code /\ W!IsWoven(ops, old, out)
  BY DEF WovenSoFar
<1>2. QED
  BY <1>1, ConcatEmptySeq

\* The operation that is inserted is the first that matches.
LEMMA InsertStands ==
  ASSUME TypeOK, Insert, Unmatched(Head(after))
  PROVE  LET p == operations[op_num]
         IN  W!StandsFor(operations, Head(after), Append(PreList(p), Head(after)) \o PostList(p))
<1> DEFINE hits == {k \in DOMAIN operations :
                      exp_match_targets(Head(after), operations[k].targets)}
<1>1. DOMAIN operations = 1..Len(operations) /\ Len(operations) \in Nat
  BY LenProperties DEF TypeOK
<1>2. op_num \in hits
  BY <1>1 DEF Insert, Comparing, TypeOK
<1>3. \A h \in hits : op_num <= h
  BY <1>1 DEF Unmatched, TypeOK
<1>4. operations[op_num] \in Operation
  BY <1>1, <1>2, ElementOfSeq DEF TypeOK
<1>5. QED
  BY <1>2, <1>3, <1>4, FragmentLists, SameOperators DEF W!StandsFor

LEMMA UnmatchedStands ==
  ASSUME TypeOK, op_num > Len(operations), Unmatched(Head(after))
  PROVE  W!StandsFor(operations, Head(after), <<Head(after)>>)
<1>1. DOMAIN operations = 1..Len(operations) /\ Len(operations) \in Nat
  BY LenProperties DEF TypeOK
<1>2. \A k \in DOMAIN operations : ~exp_match_targets(Head(after), operations[k].targets)
  BY <1>1 DEF Unmatched, TypeOK
<1>3. QED
  BY <1>2, SameOperators DEF W!StandsFor

-----------------------------------------------------------------------------
LEMMA LoopStep ==
  ASSUME TypeOK, LoopInv, [Next]_vars
  PROVE  LoopInv'
<1>0. before \in Seq(Inst) /\ after \in Seq(Inst)
  BY DEF TypeOK
<1>1. ASSUME NEW f \in Func, Pass(f) PROVE LoopInv'
  BY <1>1 DEF Pass, LoopInv
<1>2. ASSUME NEW f \in Func, Visit(f) PROVE LoopInv'
  <2>1. vec2list(stackIR[f]) \in Seq(Inst)
    BY Vec2ListType DEF TypeOK
  <2>2. WovenSoFar(operations, vec2list(stackIR[f]), <<>>, vec2list(stackIR[f]))
    BY <2>1, NothingSoFar
  <2>3. 1..(op_num' - 1) = {}
    BY <1>2 DEF Visit
  <2>4. QED
    BY <1>2, <2>2, <2>3 DEF Visit, LoopInv, Unmatched, input
<1>3. CASE NoMatch
  <2>1. \A k \in 1..(op_num' - 1) : k \in 1..(op_num - 1) \/ k = op_num
    BY <1>3, OperationsLen DEF NoMatch
  <2>2. /\ UNCHANGED <<operations, stackIR, todo, func, before, after>>
        /\ pc = "match" /\ pc' = "match" /\ after # <<>>
        /\ ~exp_match_targets(Head(after), operations[op_num].targets)
    BY <1>3 DEF NoMatch, Comparing, input
  <2>3. Unmatched(Head(after))'
    BY <2>1, <2>2 DEF LoopInv, Unmatched
  <2>4. QED
    BY <2>2, <2>3 DEF LoopInv
<1>4. CASE Insert
  <2> DEFINE p == operations[op_num]
             piece == Append(PreList(p), Head(after)) \o PostList(p)
  <2>1. /\ UNCHANGED <<operations, stackIR, todo, func>>
        /\ pc = "match" /\ pc' = "advance" /\ after # <<>>
    BY <1>4 DEF Insert, Comparing, input
  <2>2. W!StandsFor(operations, Head(after), piece)
    BY <1>4, <2>1, InsertStands DEF LoopInv
  <2>3. /\ piece \in Seq(Inst) /\ piece # <<>> /\ after' # <<>>
        /\ Append(before', Head(after')) = before \o piece /\ Tail(after') = Tail(after)
    BY <1>4, InsertWalk
  <2> HIDE DEF piece
  <2>4. WovenSoFar(operations, vec2list(stackIR[func]), before \o piece, Tail(after))
    BY <1>0, <2>1, <2>2, <2>3, OneMoreSoFar DEF LoopInv
  <2>5. QED
    BY <2>1, <2>3, <2>4 DEF LoopInv
<1>5. CASE Advance
  <2>1. /\ UNCHANGED <<operations, stackIR, todo, func>>
        /\ pc \in {"match", "advance"} /\ pc' = "match"
        /\ before' = Append(before, Head(after)) /\ after' = Tail(after)
        /\ op_num' = 1
    BY <1>5 DEF Advance, input
  <2>2. Unmatched(Head(after))'
    <3>1. 1..(op_num' - 1) = {}
      BY <2>1
    <3>2. QED
      BY <3>1 DEF Unmatched
  <2>3. WovenSoFar(operations, vec2list(stackIR[func]), Append(before, Head(after)), Tail(after))
    <3>1. CASE pc = "advance"
      BY <3>1 DEF LoopInv
    <3>2. CASE pc = "match"
      <4>1. after # <<>> /\ op_num > Len(operations)
        BY <1>5, <3>2 DEF Advance
      <4>2. W!StandsFor(operations, Head(after), <<Head(after)>>)
        BY <3>2, <4>1, UnmatchedStands DEF LoopInv
      <4>3. Head(after) \in Inst /\ <<Head(after)>> \in Seq(Inst) /\ <<Head(after)>> # <<>>
        BY <1>0, <4>1, HeadTailProperties
      <4>4. WovenSoFar(operations, vec2list(stackIR[func]), before \o <<Head(after)>>, Tail(after))
        BY <1>0, <3>2, <4>1, <4>2, <4>3, OneMoreSoFar DEF LoopInv
      <4>5. QED
        BY <1>0, <4>3, <4>4, AppendIsConcat
    <3>3. QED
      BY <2>1, <3>1, <3>2
  <2>4. QED
    BY <2>1, <2>2, <2>3 DEF LoopInv
<1>6. CASE WriteBack \/ Return
  BY <1>6 DEF WriteBack, Return, LoopInv
<1>7. CASE UNCHANGED vars \/ Returned
  BY <1>7 DEF Returned, vars, LoopInv, Unmatched
<1>8. QED
  BY <1>1, <1>2, <1>3, <1>4, <1>5, <1>6, <1>7 DEF Next

\* What is written back is the function's code, woven.
LEMMA WriteBackWeaves ==
  ASSUME TypeOK, LoopInv, WriteBack
  PROVE  W!IsWoven(operations, vec2list(stackIR[func]), before)
BY AllWoven DEF LoopInv, WriteBack

(***************************************************************************)
(* instrument() implements Weaving.                                        *)
(***************************************************************************)
LEMMA InitWeaves ==
  ASSUME Init PROVE W!Init
<1>1. original \in [Func -> IRVector] /\ operations \in Seq(Operation)
  BY MatchInsertConstants DEF Init
<1>2. QED
  BY <1>1, SameOperators DEF Init, W!Init

LEMMA StepWeaves ==
  ASSUME TypeOK, LoopInv, [Next]_vars
  PROVE  [W!Next]_<<operations, stackIR, todo>>
<1>1. ASSUME NEW f \in Func, Pass(f) PROVE W!Next
  BY <1>1 DEF Pass, W!Next, W!Pass, input
<1>2. CASE WriteBack
  <2>1. /\ func \in todo \cap scope \cap defined
        /\ stackIR' = [stackIR EXCEPT ![func] = before]
        /\ todo' = todo \ {func} /\ operations' = operations
    BY <1>2 DEF WriteBack, LoopInv, input
  <2>2. stackIR'[func] = before
    BY <2>1 DEF TypeOK
  <2>3. W!IsWoven(operations, vec2list(stackIR[func]), before)
    BY <1>2, WriteBackWeaves
  <2>4. W!Weave(func)
    BY <2>1, <2>2, <2>3, SameOperators DEF W!Weave
  <2>5. QED
    BY <2>1, <2>4 DEF W!Next
<1>3. ASSUME \/ \E f \in Func : Visit(f)
             \/ NoMatch \/ Insert \/ Advance \/ Return \/ Returned \/ UNCHANGED vars
      PROVE  UNCHANGED <<operations, stackIR, todo>>
  BY <1>3 DEF Visit, NoMatch, Insert, Advance, Return, Returned, vars, input
<1>4. QED
  BY <1>1, <1>2, <1>3 DEF Next

\* The inductive invariant holds at first and is preserved.
LEMMA InductiveInit ==
  ASSUME Init PROVE TypeOK /\ OnElement /\ LoopInv /\ FunctionsInv
<1>1. operations \in Seq(Operation) /\ original \in [Func -> IRVector]
  BY MatchInsertConstants DEF Init
<1>2. Len(operations) \in Nat /\ <<>> \in Seq(Inst)
  BY <1>1, LenProperties, EmptySeq
<1>3. QED
  BY <1>1, <1>2 DEF Init, TypeOK, OnElement, LoopInv, FunctionsInv

(***************************************************************************)
(* For every code of the functions, every scope and every list of          *)
(* operations, the loop over std::list implements the promise of Weaving.  *)
(***************************************************************************)
THEOREM InstrumentWeaves == Spec => Weaves
<1>1. Init => W!Init
  BY InitWeaves
<1>2. Init => TypeOK /\ OnElement /\ LoopInv
  BY InductiveInit
<1>3. TypeOK /\ OnElement /\ LoopInv /\ [Next]_vars => TypeOK' /\ OnElement' /\ LoopInv'
  BY TypeCorrectStep, LoopStep
<1>4. TypeOK /\ LoopInv /\ [Next]_vars => [W!Next]_<<operations, stackIR, todo>>
  BY StepWeaves
<1>5. QED
  BY <1>1, <1>2, <1>3, <1>4, PTL DEF Spec, Weaves, W!Spec

LEMMA FunctionsStep ==
  ASSUME TypeOK, LoopInv, FunctionsInv, [Next]_vars
  PROVE  FunctionsInv'
<1>1. ASSUME NEW f \in Func, Pass(f) PROVE FunctionsInv'
  BY <1>1 DEF Pass, FunctionsInv, Finished, input
<1>2. CASE WriteBack
  <2>1. /\ func \in todo \cap scope \cap defined
        /\ stackIR' = [stackIR EXCEPT ![func] = before]
        /\ todo' = todo \ {func} /\ pc' = "functions"
        /\ operations' = operations /\ original' = original
    BY <1>2 DEF WriteBack, LoopInv, input
  <2>2. W!IsWoven(operations, vec2list(original[func]), before)
    BY <1>2, <2>1, WriteBackWeaves DEF FunctionsInv, TypeOK
  <2>3. /\ stackIR'[func] = before
        /\ \A f \in Func \ {func} : stackIR'[f] = stackIR[f]
    BY <2>1 DEF TypeOK
  <2>4. ASSUME NEW f \in Func
        PROVE  IF f \in todo' THEN stackIR'[f] = original[f] ELSE Finished(f)'
    <3>1. CASE f = func
      BY <2>1, <2>2, <2>3, <3>1 DEF Finished
    <3>2. CASE f # func
      BY <2>1, <2>3, <3>2 DEF Finished, FunctionsInv
    <3>3. QED
      BY <3>1, <3>2
  <2>5. QED
    BY <2>1, <2>4 DEF FunctionsInv
<1>3. ASSUME \/ \E f \in Func : Visit(f)
             \/ NoMatch \/ Insert \/ Advance \/ Return \/ Returned \/ UNCHANGED vars
      PROVE  FunctionsInv'
  <2>1. UNCHANGED <<operations, original, stackIR, todo>>
    BY <1>3 DEF Visit, NoMatch, Insert, Advance, Return, Returned, vars, input
  <2>2. pc' = "done" => todo' = {}
    BY <1>3 DEF Visit, NoMatch, Insert, Advance, Return, Returned, vars, input, FunctionsInv
  <2>3. QED
    BY <2>1, <2>2 DEF FunctionsInv, Finished
<1>4. QED
  BY <1>1, <1>2, <1>3 DEF Next

(***************************************************************************)
(* When the call has returned, each function of the scope is its original  *)
(* code woven once, and the other functions are as they were.              *)
(***************************************************************************)
THEOREM AlwaysWovenOnce == Spec => []WovenOnce
<1> DEFINE Inv == TypeOK /\ OnElement /\ LoopInv /\ FunctionsInv
<1>1. Init => Inv
  BY InductiveInit
<1>2. Inv /\ [Next]_vars => Inv'
  BY TypeCorrectStep, LoopStep, FunctionsStep
<1>3. Inv => WovenOnce
  BY DEF FunctionsInv, Finished, WovenOnce
<1>4. QED
  BY <1>1, <1>2, <1>3, PTL DEF Spec
=============================================================================
