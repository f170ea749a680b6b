------------------------ MODULE PositionInsertProofs ------------------------
(***************************************************************************)
(* Theorems about PositionInsert.  The argument: up to the splice the list *)
(* is the function's code, split at the iterator; and as long as the       *)
(* position is one of the list, what is in front of the iterator is as     *)
(* long as the iterator was advanced, so it never leaves the list.         *)
(***************************************************************************)
EXTENDS PositionInsert, StackIRProofs

code == vec2list(original)

\* What InsertedOnce rests on
PositionInvariant ==
  /\ TypeOK
  /\ pc \in {"check", "refused"} => stackIR = original
  /\ pc = "check" => before = <<>> /\ advanced = 0
  /\ pc = "advance" => /\ before \o after = code
                       /\ pos <= Len(code) => Len(before) = advanced
  /\ pc = "done" => IF pos <= Len(code) THEN InsertedAt(pos, code, stackIR)
                    ELSE \E at \in 0..Len(code) : InsertedAt(at, code, stackIR)

-----------------------------------------------------------------------------
LEMMA PositionInit == Init => PositionInvariant
<1> SUFFICES ASSUME Init PROVE PositionInvariant
  OBVIOUS
<1>1. original \in IRVector /\ pos \in Nat
  BY PositionInsertConstants DEF Init
<1>2. <<>> \in Seq(Inst) /\ advanced \in 0..pos
  BY <1>1 DEF Init
<1>3. TypeOK
  BY <1>1, <1>2 DEF Init, TypeOK
<1>4. QED
  BY <1>3 DEF Init, PositionInvariant

LEMMA RefuseKeeps ==
  ASSUME PositionInvariant, Refuse
  PROVE  PositionInvariant'
BY DEF PositionInvariant, TypeOK, Refuse, input, code

LEMMA StartKeeps ==
  ASSUME PositionInvariant, Start
  PROVE  PositionInvariant'
<1>1. stackIR = original /\ before = <<>> /\ advanced = 0 /\ TypeOK
  BY DEF PositionInvariant, Start
<1>2. vec2list(stackIR) = code /\ code \in Seq(Inst)
  BY <1>1, Vec2ListType DEF code, TypeOK
<1>3. /\ before' = <<>> /\ after' = code /\ advanced' = 0 /\ pc' = "advance"
      /\ code' = code /\ UNCHANGED <<input, stackIR>>
  BY <1>1, <1>2 DEF Start, code, input
<1>4. TypeOK'
  BY <1>1, <1>2, <1>3 DEF TypeOK, input
<1>5. (before \o after)' = code
  BY <1>2, <1>3, ConcatEmptySeq
<1>6. Len(<<>>) = 0
  OBVIOUS
<1>7. QED
  BY <1>3, <1>4, <1>5, <1>6 DEF PositionInvariant, input

LEMMA AdvanceKeeps ==
  ASSUME PositionInvariant, Advance
  PROVE  PositionInvariant'
<1>1. /\ TypeOK /\ before \o after = code
      /\ pos <= Len(code) => Len(before) = advanced
  BY DEF PositionInvariant, Advance
<1>2. /\ Head(after) \in Inst /\ Tail(after) \in Seq(Inst)
      /\ Append(before, Head(after)) \in Seq(Inst)
      /\ Append(before, Head(after)) \o Tail(after) = before \o after
  BY <1>1, TakeHead DEF TypeOK, Advance
<1>3. Len(Append(before, Head(after))) = Len(before) + 1
  BY <1>1, <1>2, AppendProperties DEF TypeOK
<1>4. code' = code /\ UNCHANGED <<operation, pos, original, stackIR, pc>> /\ pc = "advance"
  BY DEF Advance, code, input
<1>5. TypeOK'
  BY <1>1, <1>2, <1>4 DEF TypeOK, Advance
<1>6. (before \o after)' = code /\ (pos <= Len(code) => Len(before') = advanced')
  BY <1>1, <1>2, <1>3 DEF Advance
<1>7. QED
  BY <1>4, <1>5, <1>6 DEF PositionInvariant

LEMMA AdvancePastEndKeeps ==
  ASSUME PositionInvariant, AdvancePastEnd
  PROVE  PositionInvariant'
<1>1. /\ TypeOK /\ before \o after = code
      /\ pos <= Len(code) => Len(before) = advanced
      /\ after = <<>> /\ advanced < pos
  BY DEF PositionInvariant, AdvancePastEnd
<1>2. before = code /\ Len(before) \in Nat
  BY <1>1, ConcatEmptySeq, LenProperties DEF TypeOK
<1>3. PICK at \in 0..Len(before) : /\ before' = SubSeq(before, 1, at)
                                   /\ after' = SubSeq(before, at + 1, Len(before))
  BY DEF AdvancePastEnd
<1>4. before' \in Seq(Inst) /\ after' \in Seq(Inst)
  <2>1. \A i \in 1..Len(before) : before[i] \in Inst
    BY <1>1, ElementOfSeq DEF TypeOK
  <2>2. /\ 1 \in Int /\ at \in Int /\ at + 1 \in Int /\ Len(before) \in Int
        /\ \A i \in 1..at : before[i] \in Inst
        /\ \A i \in (at + 1)..Len(before) : before[i] \in Inst
    BY <1>2, <1>3, <2>1
  <2>3. SubSeq(before, 1, at) \in Seq(Inst) /\ SubSeq(before, at + 1, Len(before)) \in Seq(Inst)
    BY ONLY <2>2, SubSeqProperties
  <2>4. QED
    BY <1>3, <2>3
<1>5. (before \o after)' = code
  <2>1. /\ before \in Seq(Inst) /\ 1 \in 1..(Len(before) + 1)
        /\ at \in (1 - 1)..Len(before) /\ Len(before) \in at..Len(before)
    BY <1>1, <1>2, <1>3 DEF TypeOK
  <2>2. SubSeq(before, 1, at) \o SubSeq(before, at + 1, Len(before))
          = SubSeq(before, 1, Len(before))
    BY ONLY <2>1, ConcatAdjacentSubSeq
  <2>3. SubSeq(before, 1, Len(before)) = before
    BY <2>1, SubSeqFull
  <2>4. QED
    BY <1>2, <1>3, <2>2, <2>3
<1>6. /\ UNCHANGED <<operation, pos, original, stackIR, pc>> /\ code' = code
      /\ advanced' = pos /\ pc = "advance"
  BY DEF AdvancePastEnd, code, input
<1>7. TypeOK'
  BY <1>1, <1>4, <1>6 DEF TypeOK
<1>8. ~ (pos <= Len(code))
  BY <1>1, <1>2 DEF TypeOK
<1>9. QED
  BY <1>5, <1>6, <1>7, <1>8 DEF PositionInvariant

LEMMA SpliceKeeps ==
  ASSUME PositionInvariant, Splice
  PROVE  PositionInvariant'
<1> DEFINE post == PostList(operation)
<1>1. /\ TypeOK /\ before \o after = code
      /\ pos <= Len(code) => Len(before) = advanced
  BY DEF PositionInvariant, Splice
<1>2. post \in Seq(Inst) /\ post = vec2list(operation.post_instructions.instructions)
  BY <1>1, FragmentLists DEF TypeOK
<1> HIDE DEF post
<1>3. /\ before' = before \o post /\ stackIR' = (before \o post) \o after
      /\ UNCHANGED <<operation, pos, original, after, advanced>> /\ code' = code
      /\ pc' = "done" /\ advanced = pos
  BY DEF Splice, input, code, post
<1>4. before \o post \in Seq(Inst) /\ (before \o post) \o after \in Seq(Inst)
  BY <1>1, <1>2, ConcatProperties DEF TypeOK
<1>5. (before \o post) \o after \in IRVector
  BY <1>4, SeqMonotonic DEF IRVector
<1>6. TypeOK'
  BY <1>1, <1>3, <1>4, <1>5 DEF TypeOK
<1>7. /\ Len(before) \in 0..Len(code)
      /\ SubSeq(code, 1, Len(before)) = before
      /\ SubSeq(code, Len(before) + 1, Len(code)) = after
  BY <1>1, Parts DEF TypeOK
<1>8. PICK at \in 0..Len(code) : at = Len(before)
  BY <1>7
<1>9. stackIR' = SubSeq(code, 1, at) \o post \o SubSeq(code, at + 1, Len(code))
  BY <1>3, <1>7, <1>8
<1>10. InsertedAt(at, code, stackIR)'
  BY <1>2, <1>3, <1>9 DEF InsertedAt
<1>11. pos' <= Len(code') => at = pos'
  BY <1>1, <1>3, <1>8
<1>12. QED
  BY <1>3, <1>6, <1>8, <1>10, <1>11 DEF PositionInvariant

LEMMA PositionStep == PositionInvariant /\ [Next]_vars => PositionInvariant'
<1> SUFFICES ASSUME PositionInvariant, [Next]_vars PROVE PositionInvariant'
  OBVIOUS
<1>1. CASE UNCHANGED vars
  BY <1>1 DEF PositionInvariant, TypeOK, InsertedAt, code, vars
<1>2. CASE Returned
  BY <1>1, <1>2 DEF Returned
<1>3. QED
  BY <1>1, <1>2, RefuseKeeps, StartKeeps, AdvanceKeeps, AdvancePastEndKeeps, SpliceKeeps
  DEF Next

LEMMA PositionAlways == Spec => []PositionInvariant
BY PositionInit, PositionStep, PTL DEF Spec

\* The walk and the copy keep their types: no hole gets into the list, and the
\* iterator is never advanced further than the position.
THEOREM TypeCorrect == Spec => []TypeOK
<1>1. PositionInvariant => TypeOK
  BY DEF PositionInvariant
<1>2. QED
  BY <1>1, PositionAlways, PTL

(***************************************************************************)
(* Whatever the function, the fragment and the position,                   *)
(* instrumentFunction() inserts the fragment once and keeps all the code,  *)
(* after instruction pos when there is one, and changes nothing when it    *)
(* refuses; with the iterator anywhere once it has passed end().           *)
(***************************************************************************)
THEOREM AlwaysInsertedOnce == Spec => []InsertedOnce
<1>1. PositionInvariant => InsertedOnce
  BY DEF PositionInvariant, InsertedOnce, code
<1>2. QED
  BY <1>1, PositionAlways, PTL
=============================================================================
