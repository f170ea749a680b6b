---------------------------- MODULE StackIRProofs ----------------------------
(***************************************************************************)
(* What the operators of StackIR return.                                   *)
(***************************************************************************)
EXTENDS StackIR, FiniteSetTheorems, SequenceTheorems, FunctionTheorems, TLAPS

(***************************************************************************)
(* Facts about sequences: adding a piece, taking the last element off and  *)
(* putting it back.                                                        *)
(***************************************************************************)
LEMMA AppendBack ==
  ASSUME NEW S, NEW w \in Seq(S), w # <<>>
  PROVE  /\ Len(w) \in 1..Len(w) /\ w[Len(w)] \in S
         /\ SubSeq(w, 1, Len(w) - 1) \in Seq(S)
         /\ Append(SubSeq(w, 1, Len(w) - 1), w[Len(w)]) = w
<1>1. Len(w) \in Nat /\ Len(w) # 0 /\ w \in [1..Len(w) -> S]
  BY EmptySeq, LenProperties
<1>2. Len(w) \in 1..Len(w) /\ 1 \in 1..Len(w) /\ w[Len(w)] \in S
  BY <1>1
<1>3. SubSeq(w, 1, Len(w)) = SubSeq(w, 1, Len(w) - 1) \o <<w[Len(w)]>>
  BY <1>2, SubSeqRecursiveSecond
<1>4. SubSeq(w, 1, Len(w) - 1) \in Seq(S)
  <2>1. 1 \in Int /\ Len(w) - 1 \in Int /\ \A i \in 1..(Len(w) - 1) : w[i] \in S
    BY <1>1
  <2>2. QED
    BY ONLY <2>1, SubSeqProperties
<1>5. QED
  BY <1>2, <1>3, <1>4, SubSeqFull, AppendIsConcat

LEMMA ConsBack ==
  ASSUME NEW S, NEW x \in S, NEW t \in Seq(S)
  PROVE  /\ <<x>> \o t \in Seq(S) /\ <<x>> \o t # <<>>
         /\ Head(<<x>> \o t) = x /\ Tail(<<x>> \o t) = t
<1>1. <<x>> \in Seq(S) /\ Len(<<x>>) = 1
  OBVIOUS
<1>2. <<x>> \o t \in Seq(S) /\ Len(<<x>> \o t) = 1 + Len(t)
  BY <1>1, ConcatProperties
<1>3. QED
  BY <1>1, <1>2

LEMMA TakeHead ==
  ASSUME NEW S, NEW old \in Seq(S), NEW rest \in Seq(S), rest # <<>>
  PROVE  /\ Head(rest) \in S /\ Tail(rest) \in Seq(S)
         /\ Append(old, Head(rest)) \in Seq(S)
         /\ Append(old, Head(rest)) \o Tail(rest) = old \o rest
<1>1. Head(rest) \in S /\ Tail(rest) \in Seq(S)
  BY HeadTailProperties
<1>2. rest = <<Head(rest)>> \o Tail(rest)
  <2>1. /\ Len(rest) \in Nat /\ Len(rest) # 0
        /\ Len(Tail(rest)) = Len(rest) - 1
        /\ \A i \in 1..Len(Tail(rest)) : Tail(rest)[i] = rest[i + 1]
    BY EmptySeq, HeadTailProperties
  <2>2. /\ <<Head(rest)>> \o Tail(rest) \in Seq(S)
        /\ Len(<<Head(rest)>> \o Tail(rest)) = 1 + Len(Tail(rest))
        /\ \A i \in 1..(1 + Len(Tail(rest))) :
              (<<Head(rest)>> \o Tail(rest))[i]
                = IF i <= 1 THEN <<Head(rest)>>[i] ELSE Tail(rest)[i - 1]
    BY <1>1, ConcatProperties
  <2>3. Head(rest) = rest[1]
    OBVIOUS
  <2>4. \A i \in 1..Len(rest) : (<<Head(rest)>> \o Tail(rest))[i] = rest[i]
    BY <2>1, <2>2, <2>3
  <2>5. QED
    BY <2>1, <2>2, <2>4, SeqEqual
<1>3. Append(old, Head(rest)) = old \o <<Head(rest)>>
  BY <1>1, AppendIsConcat
<1>4. <<Head(rest)>> \in Seq(S)
  BY <1>1
<1>5. (old \o <<Head(rest)>>) \o Tail(rest) = old \o (<<Head(rest)>> \o Tail(rest))
  BY <1>1, <1>4, ConcatAssociative
<1>6. QED
  BY <1>1, <1>2, <1>3, <1>5, AppendProperties

\* The two parts of a concatenation.
LEMMA Parts ==
  ASSUME NEW S, NEW s \in Seq(S), NEW t \in Seq(S)
  PROVE  /\ Len(s) \in 0..Len(s \o t)
         /\ SubSeq(s \o t, 1, Len(s)) = s
         /\ SubSeq(s \o t, Len(s) + 1, Len(s \o t)) = t
<1> DEFINE both == s \o t
           n == Len(s)
           m == Len(t)
<1>1. n \in Nat /\ m \in Nat
  BY LenProperties
<1>2. /\ both \in Seq(S) /\ Len(both) = n + m
      /\ \A i \in 1..(n + m) : both[i] = IF i <= n THEN s[i] ELSE t[i - n]
  BY ConcatProperties
<1> HIDE DEF both
<1>3. \A i \in 1..(n + m) : both[i] \in S
  BY <1>2, ElementOfSeq
<1>4. SubSeq(both, 1, n) = s
  <2>1. 1 \in Int /\ n \in Int /\ \A i \in 1..n : both[i] \in S
    BY <1>1, <1>3
  <2>2. /\ SubSeq(both, 1, n) \in Seq(S)
        /\ Len(SubSeq(both, 1, n)) = (IF 1 <= n THEN n - 1 + 1 ELSE 0)
        /\ \A i \in 1..(n - 1 + 1) : SubSeq(both, 1, n)[i] = both[1 + i - 1]
    BY ONLY <2>1, SubSeqProperties
  <2>3. QED
    BY <1>1, <1>2, <2>2, SeqEqual
<1>5. SubSeq(both, n + 1, n + m) = t
  <2>1. n + 1 \in Int /\ n + m \in Int /\ \A i \in (n + 1)..(n + m) : both[i] \in S
    BY <1>1, <1>3
  <2>2. /\ SubSeq(both, n + 1, n + m) \in Seq(S)
        /\ Len(SubSeq(both, n + 1, n + m))
             = (IF n + 1 <= n + m THEN (n + m) - (n + 1) + 1 ELSE 0)
        /\ \A i \in 1..((n + m) - (n + 1) + 1) :
              SubSeq(both, n + 1, n + m)[i] = both[(n + 1) + i - 1]
    BY ONLY <2>1, SubSeqProperties
  <2>3. Len(SubSeq(both, n + 1, n + m)) = m
    BY <1>1, <2>2
  <2>4. ASSUME NEW i \in 1..m
        PROVE  SubSeq(both, n + 1, n + m)[i] = t[i]
    <3>1. SubSeq(both, n + 1, n + m)[i] = both[n + i]
      BY <1>1, <2>2
    <3>2. both[n + i] = t[i]
      BY <1>1, <1>2
    <3>3. QED
      BY <3>1, <3>2
  <2>5. QED
    BY <2>2, <2>3, <2>4, SeqEqual
<1>6. QED
  BY <1>1, <1>2, <1>4, <1>5 DEF both

-----------------------------------------------------------------------------
Live(v) == {k \in DOMAIN v : v[k] # Hole}

Rank(v, k) == Cardinality({j \in Live(v) : j <= k})

LEMMA IRVectorDomain ==
  ASSUME NEW v \in IRVector
  PROVE  /\ Len(v) \in Nat
         /\ DOMAIN v = 1..Len(v)
         /\ Live(v) \subseteq 1..Len(v)
         /\ \A k \in Live(v) : v[k] \in Inst
<1>1. v \in Seq(Inst \cup {Hole})
  BY DEF IRVector
<1>2. Len(v) \in Nat /\ DOMAIN v = 1..Len(v)
  BY <1>1, LenProperties
<1>3. \A k \in 1..Len(v) : v[k] \in Inst \cup {Hole}
  BY <1>1, ElementOfSeq
<1>4. QED
  BY <1>2, <1>3 DEF Live

LEMMA LiveIsFinite ==
  ASSUME NEW v \in IRVector
  PROVE  IsFiniteSet(Live(v)) /\ Cardinality(Live(v)) \in Nat
<1>1. Live(v) \in SUBSET (1..Len(v)) /\ Len(v) \in Int /\ 1 \in Int
  BY IRVectorDomain
<1>2. IsFiniteSet(1..Len(v))
  BY <1>1, FS_Interval
<1>3. IsFiniteSet(Live(v))
  BY <1>1, <1>2, FS_Subset
<1>4. QED
  BY <1>3, FS_CardinalityType

\* There is a live place of every rank.
LEMMA EveryRank ==
  ASSUME NEW v \in IRVector, NEW n \in 1..Cardinality(Live(v))
  PROVE  \E k \in Live(v) : Rank(v, k) = n
<1>1. Live(v) \subseteq 1..Len(v) /\ Len(v) \in Nat
  BY IRVectorDomain
<1>2. IsFiniteSet(Live(v)) /\ Cardinality(Live(v)) \in Nat
  BY LiveIsFinite
<1> DEFINE T == 1..Cardinality(Live(v))
           rank == [k \in Live(v) |-> Rank(v, k)]
<1>3. ASSUME NEW k \in Live(v) PROVE Rank(v, k) \in T
  <2>1. {j \in Live(v) : j <= k} \subseteq Live(v) /\ k \in {j \in Live(v) : j <= k}
    BY <1>1
  <2>2. /\ IsFiniteSet({j \in Live(v) : j <= k})
        /\ Rank(v, k) <= Cardinality(Live(v))
        /\ Rank(v, k) \in Nat
        /\ Rank(v, k) # 0
    BY <1>2, <2>1, FS_Subset, FS_CardinalityType, FS_EmptySet DEF Rank
  <2>3. QED
    BY <1>2, <2>2
<1>4. ASSUME NEW j \in Live(v), NEW k \in Live(v), j < k
      PROVE  Rank(v, j) # Rank(v, k)
  <2> DEFINE A == {h \in Live(v) : h <= j}
             B == {h \in Live(v) : h <= k}
  <2>1. A \subseteq B /\ k \in B /\ k \notin A
    BY <1>1, <1>4
  <2>2. IsFiniteSet(B)
    BY <1>2, FS_Subset
  <2>3. Cardinality(A) # Cardinality(B)
    BY <2>1, <2>2, FS_Subset
  <2>4. QED
    BY <2>3 DEF Rank
<1>5. rank \in Injection(Live(v), T)
  <2>1. rank \in [Live(v) -> T]
    BY <1>3
  <2>2. \A j, k \in Live(v) : rank[j] = rank[k] => j = k
    BY <1>1, <1>4
  <2>3. QED
    BY <2>1, <2>2, Fun_IsInj
<1>6. IsFiniteSet(T) /\ Cardinality(T) = Cardinality(Live(v))
  BY <1>2, FS_Interval
<1>7. rank \in Surjection(Live(v), T)
  BY <1>5, <1>6, FS_Injection
<1>8. PICK k \in Live(v) : rank[k] = n
  <2> HIDE DEF rank
  <2>1. \A t \in T : \E k \in Live(v) : rank[k] = t
    BY <1>7 DEF Surjection
  <2>2. QED
    BY <2>1
<1>9. QED
  BY <1>8

LEMMA Vec2ListType ==
  ASSUME NEW v \in IRVector
  PROVE  vec2list(v) \in Seq(Inst)
<1> DEFINE Nth(n) == CHOOSE k \in Live(v) : Rank(v, k) = n
<1>1. \A n \in 1..Cardinality(Live(v)) : Nth(n) \in Live(v)
  BY EveryRank
<1>2. \A k \in Live(v) : v[k] \in Inst
  BY IRVectorDomain
<1>3. Cardinality(Live(v)) \in Nat
  BY LiveIsFinite
<1>4. vec2list(v) = [n \in 1..Cardinality(Live(v)) |-> v[Nth(n)]]
  BY DEF vec2list, Live, Rank
<1>5. \A n \in 1..Cardinality(Live(v)) : v[Nth(n)] \in Inst
  BY <1>1, <1>2
<1> HIDE DEF Nth
<1>6. QED
  BY <1>3, <1>4, <1>5, SeqDef

\* makeOperations() finds in the helper function what the fragment's text became.
LEMMA AddedIsFragment ==
  ASSUME NEW fragment \in Fragment
  PROVE  Added(fragment) = fragment.instructions
<1> DEFINE S == Inst \cup {Hole}
           n == fragment.stack_context
           ir == fragment.instructions
           consts == [k \in 1..n |-> Const0]
<1>1. n \in Nat /\ ir \in Seq(S)
  BY DEF Fragment, IRVector
<1>2. consts \in Seq(S) /\ Len(consts) = n
  BY <1>1, StackIRConstants
<1> HIDE DEF consts, S
<1>3. /\ HelperIR(fragment) \in Seq(S)
      /\ Len(HelperIR(fragment)) = n + Len(ir)
      /\ \A k \in 1..Len(ir) : HelperIR(fragment)[n + k] = ir[k]
  <2>1. HelperIR(fragment) = consts \o ir
    BY DEF HelperIR, consts
  <2>2. Len(ir) \in Nat
    BY <1>1, LenProperties
  <2>3. /\ consts \o ir \in Seq(S)
        /\ Len(consts \o ir) = Len(consts) + Len(ir)
        /\ \A i \in 1..(Len(consts) + Len(ir)) :
              (consts \o ir)[i] = IF i <= Len(consts) THEN consts[i] ELSE ir[i - Len(consts)]
    BY <1>1, <1>2, ConcatProperties
  <2>4. \A k \in 1..Len(ir) : (consts \o ir)[n + k] = ir[k]
    <3> DEFINE whole == consts \o ir
    <3>1. SUFFICES ASSUME NEW k \in 1..Len(ir) PROVE whole[n + k] = ir[k]
      OBVIOUS
    <3> DEFINE j == n + k
    <3>2. j \in 1..(Len(consts) + Len(ir)) /\ ~(j <= Len(consts)) /\ j - Len(consts) = k
      BY <1>1, <1>2, <2>2
    <3> HIDE DEF j
    <3>3. whole[j] = IF j <= Len(consts) THEN consts[j] ELSE ir[j - Len(consts)]
      BY <2>3, <3>2, Zenon
    <3> HIDE DEF whole
    <3>4. whole[j] = ir[k]
      BY ONLY <3>2, <3>3
    <3>5. QED
      BY <3>4 DEF j
  <2>5. QED
    BY <1>2, <2>1, <2>3, <2>4
<1>4. /\ Added(fragment) \in Seq(S)
      /\ Len(Added(fragment)) = Len(ir)
      /\ \A k \in 1..Len(ir) : Added(fragment)[k] = ir[k]
  <2>1. \A i \in (n + 1)..(n + Len(ir)) : HelperIR(fragment)[i] \in S
    BY <1>1, <1>3, ElementOfSeq, LenProperties
  <2>2. Len(ir) \in Nat
    BY <1>1, LenProperties
  <2>3. Added(fragment) = SubSeq(HelperIR(fragment), n + 1, n + Len(ir))
    BY <1>3 DEF Added
  <2> DEFINE h == HelperIR(fragment)
  <2> HIDE DEF h
  <2>4. /\ SubSeq(h, n + 1, n + Len(ir)) \in Seq(S)
        /\ Len(SubSeq(h, n + 1, n + Len(ir)))
             = IF n + 1 <= n + Len(ir) THEN (n + Len(ir)) - (n + 1) + 1 ELSE 0
        /\ \A i \in 1..((n + Len(ir)) - (n + 1) + 1) :
              SubSeq(h, n + 1, n + Len(ir))[i] = h[(n + 1) + i - 1]
    <3>1. n + 1 \in Int /\ n + Len(ir) \in Int
      BY <1>1, <2>2
    <3>2. \A i \in (n + 1)..(n + Len(ir)) : h[i] \in S
      BY <2>1 DEF h
    <3>3. QED
      BY ONLY <3>1, <3>2, SubSeqProperties
  <2>5. \A k \in 1..Len(ir) : (n + 1) + k - 1 = n + k
    BY <1>1, <2>2
  <2>6. \A k \in 1..Len(ir) : h[n + k] = ir[k]
    BY <1>3 DEF h
  <2>7. Added(fragment) = SubSeq(h, n + 1, n + Len(ir))
    BY <2>3 DEF h
  <2>8. (n + Len(ir)) - (n + 1) + 1 = Len(ir) /\ (n + 1 <= n + Len(ir) \/ Len(ir) = 0)
    BY <1>1, <2>2
  <2> DEFINE sub == SubSeq(h, n + 1, n + Len(ir))
  <2> HIDE DEF sub
  <2>9. sub \in Seq(S) /\ Len(sub) = Len(ir)
    BY <2>4, <2>8 DEF sub
  <2>10. \A k \in 1..Len(ir) : sub[k] = ir[k]
    BY <2>4, <2>5, <2>6, <2>8 DEF sub
  <2>11. QED
    BY <2>7, <2>9, <2>10 DEF sub
<1>5. QED
  BY <1>1, <1>4, SeqEqual

LEMMA FragmentLists ==
  ASSUME NEW p \in Operation
  PROVE  /\ PreList(p) = vec2list(p.pre_instructions.instructions)
         /\ PostList(p) = vec2list(p.post_instructions.instructions)
         /\ PreList(p) \in Seq(Inst) /\ PostList(p) \in Seq(Inst)
BY AddedIsFragment, Vec2ListType, StackIRConstants DEF PreList, PostList, Fragment
=============================================================================
