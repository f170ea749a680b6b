----------------------------- MODULE InspectProofs -----------------------------
(***************************************************************************)
(* Theorems about Inspect, and about Prepare and RuntimeCommand, which it  *)
(* is made of: for all programs, commands and sessions.                    *)
(***************************************************************************)
EXTENDS Inspect, SequenceTheorems, WellFoundedInduction, TLAPS

LEMMA Least ==
  ASSUME NEW T \in SUBSET Nat, T # {}
  PROVE  \E x \in T : \A y \in T : x <= y
<1> DEFINE R == {ss \in Nat \X Nat : ss[1] < ss[2]}
<1>1. IsWellFoundedOn(R, Nat)
  BY NatLessThanWellFounded DEF OpToRel
<1>2. PICK x \in T : \A y \in T : ~(<<y, x>> \in R)
  <2> HIDE DEF R
  <2> QED
    BY <1>1, WFMin
<1>3. ASSUME NEW y \in T PROVE x <= y
  <2>1. ~(<<y, x>> \in R)
    BY <1>2
  <2>2. x \in Nat /\ y \in Nat
    OBVIOUS
  <2>3. QED
    BY <2>1, <2>2
<1>4. QED
  BY <1>3

-----------------------------------------------------------------------------
(***************************************************************************)
(* Putting sequences together                                              *)
(***************************************************************************)
\* F[k] is what the first k parts make.
Flattens(ss, m, F, S) ==
  /\ F \in [1..m -> Seq(S)]
  /\ \A k \in 1..m : F[k] = IF k = 1 THEN ss[k] ELSE F[k - 1] \o ss[k]

LEMMA FlattensExist ==
  ASSUME NEW S, NEW ss \in Seq(Seq(S)), NEW n \in 1..Len(ss)
  PROVE  \E F : Flattens(ss, n, F, S)
<1> DEFINE T == {m \in 1..Len(ss) : ~\E F : Flattens(ss, m, F, S)}
<1>1. Len(ss) \in Nat /\ \A k \in 1..Len(ss) : ss[k] \in Seq(S)
  BY LenProperties, ElementOfSeq
<1>2. T = {}
  <2>1. SUFFICES ASSUME T # {} PROVE FALSE
    OBVIOUS
  <2>2. PICK x \in T : \A y \in T : x <= y
    <3>1. T \in SUBSET Nat
      BY <1>1
    <3>2. QED
      BY <2>1, <3>1, Least
  <2>3. x \in 1..Len(ss) /\ x \in Nat /\ ss[x] \in Seq(S)
    BY <1>1, <2>2
  <2>4. \E F : Flattens(ss, x, F, S)
    <3>1. CASE x = 1
      <4> DEFINE F == [k \in 1..1 |-> ss[1]]
      <4>1. Flattens(ss, x, F, S)
        BY <2>3, <3>1 DEF Flattens
      <4>2. QED
        BY <4>1
    <3>2. CASE x # 1
      <4>1. x - 1 \in 1..Len(ss) /\ x - 1 \notin T
        <5>1. x - 1 \in 1..Len(ss) /\ ~(x <= x - 1)
          BY <1>1, <2>3, <3>2
        <5> HIDE DEF T
        <5>2. QED
          BY <2>2, <5>1
      <4>2. PICK F : Flattens(ss, x - 1, F, S)
        BY <4>1
      <4> DEFINE G == [k \in 1..x |-> IF k = x THEN F[x - 1] \o ss[x] ELSE F[k]]
      <4>3. F[x - 1] \o ss[x] \in Seq(S)
        <5>1. F[x - 1] \in Seq(S)
          BY <2>3, <3>2, <4>2 DEF Flattens
        <5>2. QED
          BY <2>3, <5>1, ConcatProperties
      <4>4. G \in [1..x -> Seq(S)]
        BY <2>3, <4>2, <4>3 DEF Flattens
      <4>5. ASSUME NEW k \in 1..x PROVE G[k] = IF k = 1 THEN ss[k] ELSE G[k - 1] \o ss[k]
        <5>1. CASE k = x
          <6>1. x - 1 \in 1..x /\ x - 1 # x /\ x \in 1..x
            BY <2>3, <3>2
          <6>2. G[x - 1] = F[x - 1] /\ G[x] = F[x - 1] \o ss[x]
            BY <6>1
          <6>3. QED
            BY <3>2, <5>1, <6>2
        <5>2. CASE k # x
          <6>1. k \in 1..(x - 1)
            BY <2>3, <5>2
          <6>2. k # 1 => k - 1 \in 1..x /\ k - 1 # x
            BY <2>3
          <6>3. G[k] = F[k] /\ (k # 1 => G[k - 1] = F[k - 1])
            BY <5>2, <6>2
          <6>4. F[k] = IF k = 1 THEN ss[k] ELSE F[k - 1] \o ss[k]
            BY <4>2, <6>1 DEF Flattens
          <6>5. QED
            BY <6>3, <6>4
        <5>3. QED
          BY <5>1, <5>2
      <4>6. Flattens(ss, x, G, S)
        BY <4>4, <4>5 DEF Flattens
      <4>7. QED
        BY <4>6
    <3>3. QED
      BY <3>1, <3>2
  <2>5. x \in T
    BY <2>2
  <2>6. QED
    BY <2>4, <2>5, Zenon
<1>3. n \notin T
  <2> HIDE DEF T
  <2>1. QED
    BY <1>2
<1>4. QED
  BY <1>3

\* Two such functions agree where the parts do.
LEMMA FlattensSame ==
  ASSUME NEW S, NEW ss, NEW tt, NEW m \in Nat, NEW n \in Nat, NEW F, NEW G,
         Flattens(ss, m, F, S), Flattens(tt, n, G, S), m <= n,
         \A k \in 1..m : ss[k] = tt[k]
  PROVE  \A k \in 1..m : F[k] = G[k]
<1> DEFINE T == {k \in 1..m : F[k] # G[k]}
<1>1. T = {}
  <2>1. SUFFICES ASSUME T # {} PROVE FALSE
    OBVIOUS
  <2>2. PICK x \in T : \A y \in T : x <= y
    <3>1. T \in SUBSET Nat
      OBVIOUS
    <3>2. QED
      BY <2>1, <3>1, Least
  <2>3. x \in 1..m /\ x \in 1..n /\ F[x] # G[x]
    BY <2>2
  <2>4. F[x] = (IF x = 1 THEN ss[x] ELSE F[x - 1] \o ss[x])
        /\ G[x] = (IF x = 1 THEN tt[x] ELSE G[x - 1] \o tt[x])
    BY <2>3 DEF Flattens
  <2>5. x # 1 => F[x - 1] = G[x - 1]
    <3>1. SUFFICES ASSUME x # 1 PROVE F[x - 1] = G[x - 1]
      OBVIOUS
    <3>2. x - 1 \in 1..m /\ ~(x <= x - 1)
      BY <2>3, <3>1
    <3>3. x - 1 \notin T
      <4> HIDE DEF T
      <4>1. QED
        BY <2>2, <3>2
    <3>4. QED
      BY <3>2, <3>3
  <2>6. QED
    BY <2>3, <2>4, <2>5
<1>2. QED
  BY <1>1

\* FlattenSeq is what its definition says.
LEMMA FlattenIs ==
  ASSUME NEW S, NEW ss \in Seq(Seq(S)), Len(ss) # 0
  PROVE  \E F : Flattens(ss, Len(ss), F, S) /\ FlattenSeq(ss) = F[Len(ss)]
<1> DEFINE n == Len(ss)
<1>1. n \in Nat /\ n \in 1..n
  BY LenProperties
<1>2. PICK F : Flattens(ss, n, F, S)
  BY <1>1, FlattensExist
<1>3. F = [k \in 1..n |-> IF k = 1 THEN ss[k] ELSE F[k - 1] \o ss[k]]
  BY <1>2 DEF Flattens
<1> DEFINE H == CHOOSE f : f = [k \in 1..n |-> IF k = 1 THEN ss[k] ELSE f[k - 1] \o ss[k]]
<1>4. H = [k \in 1..n |-> IF k = 1 THEN ss[k] ELSE H[k - 1] \o ss[k]]
  BY <1>3
<1>5. FlattenSeq(ss) = H[n]
  BY DEF FlattenSeq
<1> HIDE DEF H
<1> DEFINE T == {k \in 1..n : F[k] # H[k]}
<1>6. T = {}
  <2>1. SUFFICES ASSUME T # {} PROVE FALSE
    OBVIOUS
  <2>2. PICK x \in T : \A y \in T : x <= y
    <3>1. T \in SUBSET Nat
      BY <1>1
    <3>2. QED
      BY <2>1, <3>1, Least
  <2>3. x \in 1..n /\ F[x] # H[x]
    BY <2>2
  <2>4. x # 1 => F[x - 1] = H[x - 1]
    <3>1. SUFFICES ASSUME x # 1 PROVE F[x - 1] = H[x - 1]
      OBVIOUS
    <3>2. x - 1 \in 1..n /\ ~(x <= x - 1)
      BY <1>1, <2>3, <3>1
    <3>3. x - 1 \notin T
      <4> HIDE DEF T
      <4>1. QED
        BY <2>2, <3>2
    <3>4. QED
      BY <3>2, <3>3
  <2>5. H[x] = IF x = 1 THEN ss[x] ELSE H[x - 1] \o ss[x]
    BY <1>4, <2>3, Zenon
  <2>6. F[x] = IF x = 1 THEN ss[x] ELSE F[x - 1] \o ss[x]
    BY <1>2, <2>3 DEF Flattens
  <2>7. QED
    BY <2>3, <2>4, <2>5, <2>6
<1>7. F[n] = H[n]
  BY <1>1, <1>6
<1>8. QED
  BY <1>2, <1>5, <1>7

LEMMA FlattenType ==
  ASSUME NEW S, NEW ss \in Seq(Seq(S))
  PROVE  FlattenSeq(ss) \in Seq(S)
<1>1. CASE Len(ss) = 0
  <2>1. ss = <<>>
    BY <1>1, EmptySeq
  <2>2. FlattenSeq(ss) = ss
    BY <1>1 DEF FlattenSeq
  <2>3. <<>> \in Seq(S)
    BY EmptySeq
  <2>4. QED
    BY ONLY <2>1, <2>2, <2>3
<1>2. CASE Len(ss) # 0
  <2>1. PICK F : Flattens(ss, Len(ss), F, S) /\ FlattenSeq(ss) = F[Len(ss)]
    BY <1>2, FlattenIs
  <2>2. Len(ss) \in 1..Len(ss)
    BY <1>2, LenProperties
  <2>3. QED
    BY <2>1, <2>2 DEF Flattens
<1>3. QED
  BY <1>1, <1>2

LEMMA FlattenAppend ==
  ASSUME NEW S, NEW ss \in Seq(Seq(S)), NEW s \in Seq(S)
  PROVE  FlattenSeq(Append(ss, s)) = FlattenSeq(ss) \o s
<1> DEFINE tt == Append(ss, s)
           n == Len(ss)
<1>1. /\ tt \in Seq(Seq(S)) /\ Len(tt) = n + 1 /\ n \in Nat
      /\ \A k \in 1..n : tt[k] = ss[k]
      /\ tt[n + 1] = s
  BY AppendProperties, LenProperties
<1> HIDE DEF tt
<1>2. PICK G : Flattens(tt, n + 1, G, S) /\ FlattenSeq(tt) = G[n + 1]
  <2>1. Len(tt) # 0 /\ tt \in Seq(Seq(S))
    BY <1>1
  <2>2. \E G : Flattens(tt, Len(tt), G, S) /\ FlattenSeq(tt) = G[Len(tt)]
    BY ONLY <2>1, FlattenIs
  <2>3. QED
    BY <1>1, <2>2
<1>3. G[n + 1] = IF n + 1 = 1 THEN tt[n + 1] ELSE G[(n + 1) - 1] \o tt[n + 1]
  <2>1. n + 1 \in 1..(n + 1)
    BY <1>1
  <2>2. \A k \in 1..(n + 1) : G[k] = IF k = 1 THEN tt[k] ELSE G[k - 1] \o tt[k]
    BY <1>2 DEF Flattens
  <2>3. QED
    BY ONLY <2>1, <2>2
<1>4. CASE n = 0
  <2>1. ss = <<>> /\ FlattenSeq(ss) = ss
    BY <1>4, EmptySeq DEF FlattenSeq
  <2>2. FlattenSeq(tt) = s
    BY <1>1, <1>2, <1>3, <1>4
  <2>3. <<>> \o s = s
    BY ConcatEmptySeq
  <2>4. QED
    BY <2>1, <2>2, <2>3 DEF tt
<1>5. CASE n # 0
  <2>1. PICK F : Flattens(ss, n, F, S) /\ FlattenSeq(ss) = F[n]
    BY <1>5, FlattenIs
  <2>2. n + 1 \in Nat /\ n <= n + 1 /\ n \in 1..n /\ (n + 1) - 1 = n /\ n + 1 # 1
    BY <1>1, <1>5
  <2>3. \A k \in 1..n : F[k] = G[k]
    <3>1. \A k \in 1..n : ss[k] = tt[k]
      BY <1>1
    <3>2. n \in Nat /\ Flattens(ss, n, F, S) /\ Flattens(tt, n + 1, G, S)
      BY <1>1, <1>2, <2>1
    <3> DEFINE m == n + 1
    <3>3. m \in Nat /\ n <= m /\ Flattens(tt, m, G, S)
      BY <2>2, <3>2
    <3> HIDE DEF m, n
    <3>4. QED
      BY ONLY <3>1, <3>2, <3>3, FlattensSame
  <2>4. FlattenSeq(tt) = F[n] \o s
    BY <1>1, <1>2, <1>3, <2>2, <2>3
  <2>5. QED
    BY <2>1, <2>4 DEF tt
<1>6. QED
  BY <1>4, <1>5

LEMMA FlattenOne ==
  ASSUME NEW S, NEW s \in Seq(S)
  PROVE  FlattenSeq(<<s>>) = s
<1>1. <<s>> \in Seq(Seq(S)) /\ Len(<<s>>) = 1 /\ <<s>>[1] = s
  OBVIOUS
<1>2. PICK F : Flattens(<<s>>, 1, F, S) /\ FlattenSeq(<<s>>) = F[1]
  <2> DEFINE ss == <<s>>
  <2>1. Len(ss) # 0 /\ ss \in Seq(Seq(S)) /\ Len(ss) = 1
    BY <1>1
  <2> HIDE DEF ss
  <2>2. \E F : Flattens(ss, Len(ss), F, S) /\ FlattenSeq(ss) = F[Len(ss)]
    BY ONLY <2>1, FlattenIs
  <2>3. QED
    BY <2>1, <2>2 DEF ss
<1>3. QED
  BY <1>1, <1>2 DEF Flattens

\* Parts of one element each make the sequence of these elements.
LEMMA FlattenSingles ==
  ASSUME NEW S, NEW s \in Seq(S)
  PROVE  FlattenSeq([k \in DOMAIN s |-> <<s[k]>>]) = s
<1> DEFINE n == Len(s)
           ss == [k \in 1..n |-> <<s[k]>>]
<1>1. n \in Nat /\ DOMAIN s = 1..n /\ \A k \in 1..n : s[k] \in S /\ <<s[k]>> \in Seq(S)
  BY LenProperties, ElementOfSeq
<1>2. ss \in Seq(Seq(S)) /\ Len(ss) = n
  <2>1. ss \in [1..n -> Seq(S)]
    BY <1>1
  <2>2. ss \in Seq(Seq(S))
    BY <1>1, <2>1, SeqDef
  <2>3. DOMAIN ss = 1..n
    OBVIOUS
  <2> HIDE DEF ss
  <2>4. QED
    BY <1>1, <2>2, <2>3, LenProperties
<1>3. \A k \in 1..n : ss[k] = <<s[k]>>
  OBVIOUS
<1> HIDE DEF ss
<1>4. CASE n = 0
  <2>1. s = <<>> /\ ss = <<>>
    BY <1>2, <1>4, EmptySeq
  <2>2. FlattenSeq(ss) = ss
    BY <1>2, <1>4 DEF FlattenSeq
  <2>3. QED
    BY <1>1, <2>1, <2>2 DEF ss
<1>5. CASE n # 0
  <2>1. PICK F : Flattens(ss, n, F, S) /\ FlattenSeq(ss) = F[n]
    <3>1. Len(ss) # 0
      BY <1>2, <1>5
    <3>2. \E F : Flattens(ss, Len(ss), F, S) /\ FlattenSeq(ss) = F[Len(ss)]
      BY ONLY <1>2, <3>1, FlattenIs
    <3>3. QED
      BY <1>2, <3>2
  <2> DEFINE G == [k \in 1..n |-> SubSeq(s, 1, k)]
             T == {k \in 1..n : F[k] # SubSeq(s, 1, k)}
  <2>2. T = {}
    <3>1. SUFFICES ASSUME T # {} PROVE FALSE
      OBVIOUS
    <3>2. PICK x \in T : \A y \in T : x <= y
      <4>1. T \in SUBSET Nat
        BY <1>1
      <4>2. QED
        BY <3>1, <4>1, Least
    <3>3. x \in 1..n /\ F[x] # SubSeq(s, 1, x)
      BY <3>2
    <3>4. F[x] = IF x = 1 THEN <<s[x]>> ELSE F[x - 1] \o <<s[x]>>
      BY <1>3, <2>1, <3>3 DEF Flattens
    <3>5. x # 1 => F[x - 1] = SubSeq(s, 1, x - 1)
      <4>1. SUFFICES ASSUME x # 1 PROVE F[x - 1] = SubSeq(s, 1, x - 1)
        OBVIOUS
      <4>2. x - 1 \in 1..n /\ ~(x <= x - 1)
        BY <1>1, <3>3, <4>1
      <4>3. x - 1 \notin T
        <5> HIDE DEF T
        <5>1. QED
          BY <3>2, <4>2
      <4>4. QED
        BY <4>2, <4>3
    <3>6. F[x] = SubSeq(s, 1, x)
      <4>1. 1 \in 1..Len(s) /\ x \in 1..Len(s) /\ s[x] \in S /\ x \in Nat /\ <<s[x]>> \in Seq(S)
        BY <1>1, <3>3
      <4>2. SubSeq(s, 1, x) = SubSeq(s, 1, x - 1) \o <<s[x]>>
        BY ONLY <4>1, SubSeqRecursiveSecond
      <4>3. CASE x = 1
        <5>1. SubSeq(s, 1, x - 1) = <<>>
          BY <4>1, <4>3, SubSeqEmpty
        <5>2. <<>> \o <<s[x]>> = <<s[x]>>
          BY <4>1, ConcatEmptySeq
        <5>3. QED
          BY <3>4, <4>2, <4>3, <5>1, <5>2
      <4>4. CASE x # 1
        BY <3>4, <3>5, <4>2, <4>4
      <4>5. QED
        BY <4>3, <4>4
    <3>7. QED
      BY <3>3, <3>6
  <2>3. F[n] = SubSeq(s, 1, n)
    BY <1>1, <1>5, <2>2
  <2>4. SubSeq(s, 1, n) = s
    BY <1>1
  <2>5. QED
    BY <1>1, <2>1, <2>3, <2>4 DEF ss
<1>6. QED
  BY <1>4, <1>5

-----------------------------------------------------------------------------
(***************************************************************************)
(* Prepare: the imports of WASI and the texts that call them               *)
(***************************************************************************)
LEMMA WASIIs ==
  /\ Len(WASI) = 6 /\ DOMAIN WASI = 1..6
  /\ WASI[1] = "fd_prestat_get" /\ WASI[2] = "fd_prestat_dir_name" /\ WASI[3] = "path_open"
  /\ WASI[4] = "fd_write" /\ WASI[5] = "fd_close" /\ WASI[6] = "proc_exit"
  /\ ToSet(WASI) = {"fd_prestat_get", "fd_prestat_dir_name", "path_open", "fd_write", "fd_close",
                    "proc_exit"}
  /\ \A k \in 1..6 : WASI[k] \in ToSet(WASI)
  /\ \A k, h \in 1..6 : WASI[k] = WASI[h] => k = h
<1>1. Len(WASI) = 6 /\ DOMAIN WASI = 1..6
  BY DEF WASI
<1>2. WASI[1] = "fd_prestat_get" /\ WASI[2] = "fd_prestat_dir_name" /\ WASI[3] = "path_open"
  BY DEF WASI
<1>3. WASI[4] = "fd_write" /\ WASI[5] = "fd_close" /\ WASI[6] = "proc_exit"
  BY DEF WASI
<1>4. \A k \in 1..6 : k = 1 \/ k = 2 \/ k = 3 \/ k = 4 \/ k = 5 \/ k = 6
  OBVIOUS
<1>5. ToSet(WASI) = {WASI[k] : k \in 1..6}
  BY <1>1 DEF ToSet
<1>6. \A k, h \in 1..6 : WASI[k] = WASI[h] => k = h
  BY <1>2, <1>3, <1>4
<1>7. {WASI[k] : k \in 1..6} = {WASI[1], WASI[2], WASI[3], WASI[4], WASI[5], WASI[6]}
  BY <1>4
<1>8. QED
  BY <1>1, <1>2, <1>3, <1>5, <1>6, <1>7

\* A text without the name stays as it is; one that is the name is replaced.
LEMMA ReplacedIs ==
  ASSUME NEW text \in Seq(NamePiece), NEW w \in NamePiece, NEW name \in Seq(NamePiece)
  PROVE  /\ w \notin ToSet(text) => Replaced(text, w, name) = text
         /\ text = <<w>> => Replaced(text, w, name) = name
<1>1. ASSUME w \notin ToSet(text) PROVE Replaced(text, w, name) = text
  <2>1. \A k \in DOMAIN text : text[k] # w
    BY <1>1 DEF ToSet
  <2>2. [k \in DOMAIN text |-> IF text[k] = w THEN name ELSE <<text[k]>>]
          = [k \in DOMAIN text |-> <<text[k]>>]
    BY <2>1
  <2>3. QED
    BY <2>2, FlattenSingles DEF Replaced
<1>2. ASSUME text = <<w>> PROVE Replaced(text, w, name) = name
  <2>1. DOMAIN text = {1} /\ text[1] = w
    BY <1>2
  <2>2. [k \in DOMAIN text |-> IF text[k] = w THEN name ELSE <<text[k]>>] = <<name>>
    BY <2>1
  <2>3. QED
    BY <2>2, FlattenOne DEF Replaced
<1>3. QED
  BY <1>1, <1>2

LEMMA GetImport ==
  ASSUME NEW imports \in Seq(Import), NEW w
  PROVE  /\ \/ getImport(imports, w) = 0
            \/ /\ getImport(imports, w) \in DOMAIN imports
               /\ imports[getImport(imports, w)].base = w
         /\ \A j \in DOMAIN imports :
              imports[j].kind = "function" /\ imports[j].base = w => getImport(imports, w) # 0
<1> DEFINE found(k) == {i \in DOMAIN imports : imports[i].kind = Kinds[k] /\ imports[i].base = w}
           with == {k \in DOMAIN Kinds : found(k) # {}}
           first(s) == CHOOSE i \in s : \A j \in s : i <= j
<1>1. getImport(imports, w) = IF with = {} THEN 0 ELSE first(found(first(with)))
  BY DEF getImport
<1>2. ASSUME NEW s \in SUBSET Nat, s # {} PROVE first(s) \in s
  BY <1>2, Least
<1>3. DOMAIN imports = 1..Len(imports) /\ Len(imports) \in Nat
  BY LenProperties
<1>4. DOMAIN Kinds = 1..4 /\ Kinds[1] = "function"
  BY DEF Kinds
<1>5. with \in SUBSET Nat /\ \A k : found(k) \in SUBSET Nat
  BY <1>3, <1>4
<1>6. ASSUME with # {} PROVE /\ getImport(imports, w) \in DOMAIN imports
                             /\ imports[getImport(imports, w)].base = w
  <2> DEFINE k == first(with)
  <2>1. k \in with
    BY <1>2, <1>5, <1>6
  <2>2. found(k) # {} /\ found(k) \in SUBSET Nat
    BY <1>5, <2>1
  <2> HIDE DEF k
  <2>3. first(found(k)) \in found(k)
    <3> HIDE DEF first, found
    <3>1. QED
      BY <1>2, <2>2
  <2>4. QED
    BY <1>1, <1>6, <2>3 DEF k
<1>7. ASSUME NEW j \in DOMAIN imports, imports[j].kind = "function", imports[j].base = w
      PROVE  getImport(imports, w) # 0
  <2>1. 1 \in with
    BY <1>4, <1>7
  <2>2. with # {}
    BY <2>1
  <2>3. 0 \notin DOMAIN imports
    BY <1>3
  <2>4. QED
    BY <1>6, <2>2, <2>3
<1>8. QED
  BY <1>1, <1>6, <1>7

\* _add_imports() is six steps.
LEMMA AddImportsIs ==
  ASSUME NEW imports
  PROVE  \E s : /\ s[0] = [imports |-> imports, builder |-> NewBuilder]
                /\ \A k \in 1..6 : s[k] = AddImport(s[k - 1], WASI[k])
                /\ _add_imports(imports) = s[6]
<1> DEFINE s0 == [imports |-> imports, builder |-> NewBuilder]
           s1 == AddImport(s0, WASI[1])
           s2 == AddImport(s1, WASI[2])
           s3 == AddImport(s2, WASI[3])
           s4 == AddImport(s3, WASI[4])
           s5 == AddImport(s4, WASI[5])
           s6 == AddImport(s5, WASI[6])
           s == [k \in 0..6 |-> CASE k = 0 -> s0 [] k = 1 -> s1 [] k = 2 -> s2 [] k = 3 -> s3
                                  [] k = 4 -> s4 [] k = 5 -> s5 [] k = 6 -> s6]
           H == CHOOSE h : h = [k \in 0..Len(WASI) |->
                                  IF k = 0 THEN s0 ELSE AddImport(h[k - 1], WASI[k])]
<1>1. \A k \in 0..6 : k = 0 \/ k = 1 \/ k = 2 \/ k = 3 \/ k = 4 \/ k = 5 \/ k = 6
  OBVIOUS
<1>2. /\ s[0] = s0 /\ s[1] = AddImport(s[0], WASI[1]) /\ s[2] = AddImport(s[1], WASI[2])
      /\ s[3] = AddImport(s[2], WASI[3]) /\ s[4] = AddImport(s[3], WASI[4])
      /\ s[5] = AddImport(s[4], WASI[5]) /\ s[6] = AddImport(s[5], WASI[6])
  <2> HIDE DEF s0, s1, s2, s3, s4, s5, s6
  <2>1. /\ s[0] = s0 /\ s[1] = s1 /\ s[2] = s2 /\ s[3] = s3 /\ s[4] = s4 /\ s[5] = s5
        /\ s[6] = s6
    OBVIOUS
  <2>2. QED
    BY <2>1 DEF s1, s2, s3, s4, s5, s6
<1>3. s = [k \in 0..6 |-> s[k]]
  <2> HIDE DEF s0, s1, s2, s3, s4, s5, s6
  <2>1. QED
    OBVIOUS
<1> HIDE DEF s, s0
<1>4. \A k \in 0..6 : s[k] = IF k = 0 THEN s0 ELSE AddImport(s[k - 1], WASI[k])
  BY <1>1, <1>2
<1>5. s = [k \in 0..Len(WASI) |-> IF k = 0 THEN s0 ELSE AddImport(s[k - 1], WASI[k])]
  BY <1>3, <1>4, WASIIs
<1>6. H = [k \in 0..Len(WASI) |-> IF k = 0 THEN s0 ELSE AddImport(H[k - 1], WASI[k])]
  BY <1>5
<1>7. _add_imports(imports) = H[Len(WASI)]
  BY DEF _add_imports, s0
<1> HIDE DEF H
<1>8. \A k \in 0..6 : H[k] = IF k = 0 THEN s0 ELSE AddImport(H[k - 1], WASI[k])
  BY <1>6, WASIIs, Zenon
<1>9. H[0] = s0
  BY <1>1, <1>8
<1>10. ASSUME NEW k \in 1..6 PROVE H[k] = AddImport(H[k - 1], WASI[k])
  <2>1. k \in 0..6 /\ k # 0
    OBVIOUS
  <2>2. QED
    BY <1>8, <2>1
<1>11. QED
  BY <1>7, <1>9, <1>10, WASIIs DEF s0

\* The names after k steps: those of the first k calls are good ones.
BuilderOK(b, k, Good) ==
  /\ DOMAIN b.texts = 1..3
  /\ \A t \in 1..3 : /\ b.texts[t] = [meant |-> WASI[t], name |-> b.texts[t].name]
                     /\ b.texts[t].name \in Seq(NamePiece)
                     /\ t <= k => <<WASI[t], b.texts[t].name>> \in Good
                     /\ t > k => b.texts[t].name = <<WASI[t]>>
  /\ DOMAIN b.wasi_name_map = ToSet(WASI)
  /\ \A t \in 1..k : <<WASI[t], b.wasi_name_map[WASI[t]]>> \in Good

LEMMA NewBuilderOK ==
  ASSUME NEW Good PROVE BuilderOK(NewBuilder, 0, Good)
<1>1. NewBuilder.texts = wasm_func_map /\ NewBuilder.wasi_name_map = [w \in ToSet(WASI) |-> <<w>>]
  BY DEF NewBuilder
<1>2. /\ DOMAIN wasm_func_map = 1..3
      /\ wasm_func_map[1] = InTexts(WASI[1]) /\ wasm_func_map[2] = InTexts(WASI[2])
      /\ wasm_func_map[3] = InTexts(WASI[3])
  BY WASIIs DEF wasm_func_map
<1>3. ASSUME NEW t \in 1..3 PROVE wasm_func_map[t] = InTexts(WASI[t])
  BY <1>2
<1>4. ASSUME NEW t \in 1..3 PROVE <<WASI[t]>> \in Seq(NamePiece)
  <2>1. WASI[t] \in NamePiece
    BY WASIIs, PrepareConstants
  <2>2. QED
    BY <2>1
<1>5. ASSUME NEW t \in 1..3
      PROVE  /\ NewBuilder.texts[t] = [meant |-> WASI[t], name |-> NewBuilder.texts[t].name]
             /\ NewBuilder.texts[t].name = <<WASI[t]>>
  BY <1>1, <1>3 DEF InTexts
<1>6. DOMAIN NewBuilder.texts = 1..3 /\ DOMAIN NewBuilder.wasi_name_map = ToSet(WASI)
  BY <1>1, <1>2
<1>7. \A t \in 1..3 : ~(t <= 0)
  OBVIOUS
<1>8. 1..0 = {}
  OBVIOUS
<1>9. QED
  BY <1>4, <1>5, <1>6, <1>7, <1>8 DEF BuilderOK

LEMMA BuilderStep ==
  ASSUME NEW k \in 1..6, NEW Good \in SUBSET (ToSet(WASI) \X Seq(NamePiece)), NEW b,
         BuilderOK(b, k - 1, Good),
         \A g \in Good : ToSet(g[2]) \cap ToSet(WASI) \subseteq {g[1]},
         NEW name, <<WASI[k], name>> \in Good
  PROVE  BuilderOK(updateWasiName(b, WASI[k], name), k, Good)
<1> DEFINE w == WASI[k]
           c == updateWasiName(b, w, name)
<1>1. /\ w \in ToSet(WASI) /\ w \in NamePiece /\ name \in Seq(NamePiece)
      /\ \A t \in 1..6 : WASI[t] \in ToSet(WASI) /\ (WASI[t] = w => t = k)
  BY WASIIs, PrepareConstants
<1>2. /\ c.texts = [t \in DOMAIN b.texts |->
                      [b.texts[t] EXCEPT !.name = Replaced(@, w, name)]]
      /\ c.wasi_name_map = [b.wasi_name_map EXCEPT ![w] = name]
  BY DEF updateWasiName
<1> HIDE DEF w, c
<1>3. DOMAIN c.texts = 1..3 /\ DOMAIN c.wasi_name_map = ToSet(WASI)
  BY <1>2 DEF BuilderOK
<1>4. ASSUME NEW t \in 1..3
      PROVE  /\ c.texts[t] = [meant |-> WASI[t], name |-> Replaced(b.texts[t].name, w, name)]
             /\ b.texts[t].name \in Seq(NamePiece)
  BY <1>2 DEF BuilderOK
<1>5. ASSUME NEW t \in 1..3
      PROVE  /\ t < k => Replaced(b.texts[t].name, w, name) = b.texts[t].name
             /\ t = k => Replaced(b.texts[t].name, w, name) = name
             /\ t > k => Replaced(b.texts[t].name, w, name) = b.texts[t].name
  <2> DEFINE text == b.texts[t].name
  <2>1. text \in Seq(NamePiece)
    BY <1>4
  <2>2. CASE t < k
    <3>0. t <= k - 1
      BY <2>2
    <3>1. <<WASI[t], text>> \in Good
      BY <3>0 DEF BuilderOK
    <3>2. ToSet(text) \cap ToSet(WASI) \subseteq {WASI[t]}
      BY <3>1
    <3>3. w \notin ToSet(text)
      BY <1>1, <2>2, <3>2
    <3>4. Replaced(text, w, name) = text
      <4> HIDE DEF text
      <4>1. QED
        BY <1>1, <2>1, <3>3, ReplacedIs
    <3>5. QED
      BY <2>2, <3>4
  <2>3. CASE t = k
    <3>0. t > k - 1
      BY <2>3
    <3>1. text = <<w>>
      BY <2>3, <3>0 DEF BuilderOK, w
    <3>2. Replaced(text, w, name) = name
      <4> HIDE DEF text
      <4>1. QED
        BY <1>1, <2>1, <3>1, ReplacedIs
    <3>3. QED
      BY <2>3, <3>2
  <2>4. CASE t > k
    <3>0. t > k - 1
      BY <2>4
    <3>1. text = <<WASI[t]>>
      BY <3>0 DEF BuilderOK
    <3>2. ToSet(text) = {WASI[t]}
      BY <3>1 DEF ToSet
    <3>3. w \notin ToSet(text)
      BY <1>1, <2>4, <3>2
    <3>4. Replaced(text, w, name) = text
      <4> HIDE DEF text
      <4>1. QED
        BY <1>1, <2>1, <3>3, ReplacedIs
    <3>5. QED
      BY <2>4, <3>4
  <2>5. QED
    BY <2>2, <2>3, <2>4
<1>6. ASSUME NEW t \in 1..3
      PROVE  /\ c.texts[t] = [meant |-> WASI[t], name |-> c.texts[t].name]
             /\ c.texts[t].name \in Seq(NamePiece)
             /\ t <= k => <<WASI[t], c.texts[t].name>> \in Good
             /\ t > k => c.texts[t].name = <<WASI[t]>>
  <2>1. c.texts[t] = [meant |-> WASI[t], name |-> c.texts[t].name]
        /\ c.texts[t].name = Replaced(b.texts[t].name, w, name)
    BY <1>4
  <2>2. CASE t < k
    <3>1. c.texts[t].name = b.texts[t].name
      BY <1>5, <2>1, <2>2
    <3>0. t <= k - 1
      BY <2>2
    <3>2. <<WASI[t], b.texts[t].name>> \in Good
      BY <3>0 DEF BuilderOK
    <3>3. QED
      BY <1>4, <2>1, <2>2, <3>1, <3>2
  <2>3. CASE t = k
    BY <1>1, <1>5, <2>1, <2>3 DEF w
  <2>4. CASE t > k
    <3>1. c.texts[t].name = b.texts[t].name
      BY <1>5, <2>1, <2>4
    <3>0. t > k - 1
      BY <2>4
    <3>2. b.texts[t].name = <<WASI[t]>>
      BY <3>0 DEF BuilderOK
    <3>3. c.texts[t].name \in Seq(NamePiece) /\ ~(t <= k)
      BY <1>4, <2>4, <3>1
    <3>4. c.texts[t].name = <<WASI[t]>>
      BY <3>1, <3>2
    <3>5. QED
      BY <2>1, <3>3, <3>4
  <2>5. QED
    BY <2>2, <2>3, <2>4
<1>7. ASSUME NEW t \in 1..k PROVE <<WASI[t], c.wasi_name_map[WASI[t]]>> \in Good
  <2>1. t \in 1..6 /\ WASI[t] \in DOMAIN b.wasi_name_map
    BY <1>1 DEF BuilderOK
  <2>2. CASE t = k
    BY <1>2, <2>1, <2>2 DEF w
  <2>3. CASE t # k
    <3>1. WASI[t] # w /\ t \in 1..(k - 1)
      BY <1>1, <2>1, <2>3
    <3>2. c.wasi_name_map[WASI[t]] = b.wasi_name_map[WASI[t]]
      BY <1>2, <2>1, <3>1
    <3>3. QED
      BY <3>1, <3>2 DEF BuilderOK
  <2>4. QED
    BY <2>2, <2>3
<1>8. QED
  BY <1>3, <1>6, <1>7 DEF BuilderOK, c, w

-----------------------------------------------------------------------------
(***************************************************************************)
(* The imports that _add_imports() makes                                   *)
(***************************************************************************)
\* A call of WASI and a name it may get
GoodNames(p) ==
  {g \in ToSet(WASI) \X Seq(NamePiece) :
     \/ g[2] = InnerName(g[1])
     \/ \E i \in DOMAIN p.imports : p.imports[i].base = g[1] /\ p.imports[i].name = g[2]}

\* An import is one of the program or has such a name.
ImportsOK(p, imports) ==
  /\ imports \in Seq(Import)
  /\ \A i \in DOMAIN imports :
       IF imports[i].base \in ToSet(WASI) THEN <<imports[i].base, imports[i].name>> \in GoodNames(p)
       ELSE \E j \in DOMAIN p.imports : /\ p.imports[j].base = imports[i].base
                                        /\ p.imports[j].name = imports[i].name

LEMMA ImportType ==
  ASSUME NEW imports \in Seq(Import), NEW i \in DOMAIN imports
  PROVE  /\ imports[i] \in Import
         /\ imports[i].base \in NamePiece /\ imports[i].name \in Seq(NamePiece)
         /\ imports[i].called => imports[i].kind = "function"
<1>1. imports[i] \in Import
  BY ElementOfSeq, LenProperties
<1>2. QED
  BY <1>1 DEF Import

LEMMA InnerNameIs ==
  ASSUME NEW w \in ToSet(WASI)
  PROVE  /\ InnerName(w) \in Seq(NamePiece)
         /\ ToSet(InnerName(w)) \cap ToSet(WASI) = {w}
<1>1. Prefix \in NamePiece /\ w \in NamePiece
  BY PrepareConstants
<1>2. Prefix \notin ToSet(WASI)
  BY WASIIs DEF Prefix
<1>3. ToSet(InnerName(w)) = {Prefix, w}
  <2> HIDE DEF Prefix
  <2>1. QED
    BY DEF InnerName, ToSet
<1>4. QED
  BY <1>1, <1>2, <1>3 DEF InnerName

LEMMA GoodNamesApart ==
  ASSUME NEW p, Untangled(p), NEW g \in GoodNames(p)
  PROVE  ToSet(g[2]) \cap ToSet(WASI) \subseteq {g[1]}
<1>1. g[1] \in ToSet(WASI)
  BY DEF GoodNames
<1>2. CASE g[2] = InnerName(g[1])
  BY <1>1, <1>2, InnerNameIs
<1>3. CASE g[2] # InnerName(g[1])
  <2>1. PICK i \in DOMAIN p.imports : p.imports[i].base = g[1] /\ p.imports[i].name = g[2]
    BY <1>3 DEF GoodNames
  <2>2. QED
    BY <1>1, <2>1 DEF Untangled
<1>4. QED
  BY <1>2, <1>3

\* The import that has a good name of a call has that call as its base.
LEMMA NameMeans ==
  ASSUME NEW p, Untangled(p), NEW imports, ImportsOK(p, imports),
         NEW g \in GoodNames(p), NEW j \in DOMAIN imports, imports[j].name = g[2]
  PROVE  imports[j].base = g[1]
<1> DEFINE x == imports[j]
<1>1. g[1] \in ToSet(WASI)
  BY DEF GoodNames
<1>2. CASE \E i \in DOMAIN p.imports : p.imports[i].base = x.base /\ p.imports[i].name = g[2]
  <2>1. PICK i \in DOMAIN p.imports : p.imports[i].base = x.base /\ p.imports[i].name = g[2]
    BY <1>2
  <2>2. CASE g[2] = InnerName(g[1])
    <3>1. x.base \in ToSet(WASI)
      BY <1>1, <2>1, <2>2 DEF Untangled
    <3>2. ToSet(g[2]) \cap ToSet(WASI) \subseteq {x.base}
      BY <2>1, <3>1 DEF Untangled
    <3>3. g[1] \in ToSet(g[2])
      BY <1>1, <2>2, InnerNameIs
    <3>4. QED
      BY <1>1, <3>2, <3>3
  <2>3. CASE g[2] # InnerName(g[1])
    <3>1. PICK k \in DOMAIN p.imports : p.imports[k].base = g[1] /\ p.imports[k].name = g[2]
      BY <2>3 DEF GoodNames
    <3>2. QED
      BY <1>1, <2>1, <3>1 DEF Untangled
  <2>4. QED
    BY <2>2, <2>3
<1>3. CASE ~\E i \in DOMAIN p.imports : p.imports[i].base = x.base /\ p.imports[i].name = g[2]
  <2>1. x.base \in ToSet(WASI) /\ <<x.base, g[2]>> \in GoodNames(p)
    BY <1>3 DEF ImportsOK
  <2>2. g[2] = InnerName(x.base)
    BY <1>3, <2>1 DEF GoodNames
  <2>3. x.base \in ToSet(g[2])
    BY <2>1, <2>2, InnerNameIs
  <2>4. QED
    BY <2>1, <2>3, GoodNamesApart
<1>4. QED
  BY <1>2, <1>3

\* addImportFunction() does not find a function of another import.
LEMMA WithImportAppends ==
  ASSUME NEW p, Untangled(p), NEW imports, ImportsOK(p, imports), NEW w \in ToSet(WASI),
         getImport(imports, w) = 0
  PROVE  WithImport(imports, w) =
           Append(imports, [kind |-> "function", base |-> w, name |-> InnerName(w),
                            explicit |-> TRUE, type |-> w, called |-> FALSE])
<1>1. <<w, InnerName(w)>> \in GoodNames(p)
  BY InnerNameIs DEF GoodNames
<1>2. ASSUME NEW j \in FunctionsNamed(imports, InnerName(w)) PROVE FALSE
  <2>1. j \in DOMAIN imports /\ imports[j].kind = "function" /\ imports[j].name = InnerName(w)
    BY DEF FunctionsNamed
  <2>2. imports[j].base = w
    BY <1>1, <2>1, NameMeans
  <2>3. QED
    BY <2>1, <2>2, GetImport DEF ImportsOK
<1>3. QED
  BY <1>2 DEF WithImport

\* The name a call gets
NameFor(imports, w) ==
  IF getImport(imports, w) # 0 /\ imports[getImport(imports, w)].explicit
  THEN imports[getImport(imports, w)].name ELSE InnerName(w)

LEMMA AddImportStep ==
  ASSUME NEW p, Untangled(p), NEW s, ImportsOK(p, s.imports), NEW w \in ToSet(WASI)
  PROVE  /\ ImportsOK(p, AddImport(s, w).imports)
         /\ <<w, NameFor(s.imports, w)>> \in GoodNames(p)
         /\ AddImport(s, w).builder = updateWasiName(s.builder, w, NameFor(s.imports, w))
<1> DEFINE imports == s.imports
           i == getImport(imports, w)
           made == AddImport(s, w).imports
           name == NameFor(imports, w)
           new == [kind |-> "function", base |-> w, name |-> InnerName(w), explicit |-> TRUE,
                   type |-> w, called |-> FALSE]
<1>1. AddImport(s, w).builder = updateWasiName(s.builder, w, name)
  BY DEF AddImport, NameFor
<1>2. <<w, InnerName(w)>> \in GoodNames(p) /\ InnerName(w) \in Seq(NamePiece) /\ w \in NamePiece
  BY InnerNameIs, PrepareConstants DEF GoodNames
<1>3. imports \in Seq(Import)
  BY DEF ImportsOK
<1>4. CASE i = 0
  <2>1. name = InnerName(w)
    BY <1>4 DEF NameFor
  <2>2. made = Append(imports, new)
    BY <1>4, WithImportAppends DEF AddImport
  <2>3. new \in Import
    BY <1>2 DEF Import
  <2> HIDE DEF made, imports, name
  <2>4. made \in Seq(Import) /\ DOMAIN made = 1..(Len(imports) + 1) /\ Len(imports) \in Nat
        /\ made[Len(imports) + 1] = new
        /\ \A k \in DOMAIN imports : made[k] = imports[k]
    BY <1>3, <2>2, <2>3, AppendProperties
  <2>5. ASSUME NEW k \in DOMAIN made
        PROVE  IF made[k].base \in ToSet(WASI) THEN <<made[k].base, made[k].name>> \in GoodNames(p)
               ELSE \E j \in DOMAIN p.imports : /\ p.imports[j].base = made[k].base
                                                /\ p.imports[j].name = made[k].name
    <3>1. k \in DOMAIN imports \/ k = Len(imports) + 1
      BY <1>3, <2>4, LenProperties
    <3>2. CASE k \in DOMAIN imports
      BY <2>4, <3>2 DEF ImportsOK, imports
    <3>3. CASE k = Len(imports) + 1
      <4>1. made[k].base = w /\ made[k].name = InnerName(w)
        BY <2>4, <3>3
      <4>2. QED
        BY <1>2, <4>1
    <3>4. QED
      BY <3>1, <3>2, <3>3
  <2>6. ImportsOK(p, made)
    BY <2>4, <2>5 DEF ImportsOK
  <2>7. QED
    BY <1>1, <1>2, <2>1, <2>6 DEF made, imports, name
<1>5. CASE i # 0
  <2>1. i \in DOMAIN imports /\ imports[i].base = w
    BY <1>3, <1>5, GetImport
  <2>2. <<w, imports[i].name>> \in GoodNames(p)
    BY <2>1 DEF ImportsOK
  <2>3. CASE imports[i].explicit
    <3>1. made = imports /\ name = imports[i].name
      BY <1>5, <2>3 DEF AddImport, NameFor
    <3>2. QED
      BY <1>1, <2>2, <3>1
  <2>4. CASE ~imports[i].explicit
    <3>1. made = [imports EXCEPT ![i].name = InnerName(w)] /\ name = InnerName(w)
      BY <1>5, <2>4 DEF AddImport, NameFor
    <3> HIDE DEF made, imports, name, i
    <3>2. imports[i] \in Import
      BY <1>3, <2>1, ImportType
    <3>3. [imports[i] EXCEPT !.name = InnerName(w)] \in Import
      BY <1>2, <3>2 DEF Import
    <3>4. made = [imports EXCEPT ![i] = [imports[i] EXCEPT !.name = InnerName(w)]]
      BY <3>1
    <3>5. made \in Seq(Import) /\ DOMAIN made = DOMAIN imports
      BY <1>3, <2>1, <3>3, <3>4, ExceptSeq
    <3>6. \A k \in DOMAIN imports : k # i => made[k] = imports[k]
      BY <3>1
    <3>7. made[i].base = w /\ made[i].name = InnerName(w)
      BY <2>1, <3>2, <3>4 DEF Import
    <3>8. ASSUME NEW k \in DOMAIN made
          PROVE  IF made[k].base \in ToSet(WASI) THEN <<made[k].base, made[k].name>> \in GoodNames(p)
                 ELSE \E j \in DOMAIN p.imports : /\ p.imports[j].base = made[k].base
                                                  /\ p.imports[j].name = made[k].name
      <4>1. CASE k = i
        BY <1>2, <3>7, <4>1
      <4>2. CASE k # i
        BY <3>5, <3>6, <4>2 DEF ImportsOK, imports
      <4>3. QED
        BY <4>1, <4>2
    <3>9. ImportsOK(p, made)
      BY <3>5, <3>8 DEF ImportsOK
    <3>10. QED
      BY <1>1, <1>2, <3>1, <3>9 DEF made, imports, name
  <2>5. QED
    BY <2>3, <2>4
<1>6. QED
  BY <1>4, <1>5

LEMMA CallsGood ==
  ASSUME NEW Good, NEW b, BuilderOK(b, 6, Good), NEW c \in Calls(b)
  PROVE  <<c.meant, c.name>> \in Good
<1>1. CASE c \in ToSet(b.texts)
  <2>1. PICK t \in DOMAIN b.texts : c = b.texts[t]
    BY <1>1 DEF ToSet
  <2>2. t \in 1..3 /\ t <= 6
    BY <2>1 DEF BuilderOK
  <2>3. /\ b.texts[t] = [meant |-> WASI[t], name |-> b.texts[t].name]
        /\ <<WASI[t], b.texts[t].name>> \in Good
    BY <2>2 DEF BuilderOK
  <2>4. c.meant = WASI[t]
    BY <2>1, <2>3
  <2>5. QED
    BY <2>1, <2>3, <2>4
<1>2. CASE c \notin ToSet(b.texts)
  <2>1. PICK w \in {"fd_write", "fd_close", "proc_exit"} :
          c = [meant |-> w, name |-> b.wasi_name_map[w]]
    BY <1>2 DEF Calls
  <2>2. PICK t \in 1..6 : w = WASI[t]
    <3>1. w = WASI[4] \/ w = WASI[5] \/ w = WASI[6]
      BY <2>1, WASIIs
    <3>2. 4 \in 1..6 /\ 5 \in 1..6 /\ 6 \in 1..6
      OBVIOUS
    <3>3. QED
      BY <3>1, <3>2
  <2>3. <<WASI[t], b.wasi_name_map[WASI[t]]>> \in Good
    BY <2>2 DEF BuilderOK
  <2>4. QED
    BY <2>1, <2>2, <2>3
<1>3. QED
  BY <1>1, <1>2

\* Whatever the imports of an untangled program are, after the six steps every
\* call of WASI in the texts has the name of the import it is meant for.
LEMMA UntangledCalls ==
  ASSUME NEW p, p.imports \in Seq(Import), Untangled(p)
  PROVE  CallsWhatIsMeant(p)
<1> DEFINE Good == GoodNames(p)
<1>1. PICK s : /\ s[0] = [imports |-> p.imports, builder |-> NewBuilder]
               /\ \A k \in 1..6 : s[k] = AddImport(s[k - 1], WASI[k])
               /\ _add_imports(p.imports) = s[6]
  BY AddImportsIs, Zenon
<1> DEFINE Inv(k) == ImportsOK(p, s[k].imports) /\ BuilderOK(s[k].builder, k, Good)
<1>2. Inv(0)
  <2>1. ImportsOK(p, p.imports)
    <3>1. ASSUME NEW i \in DOMAIN p.imports, p.imports[i].base \in ToSet(WASI)
          PROVE  <<p.imports[i].base, p.imports[i].name>> \in Good
      BY <3>1, ImportType DEF GoodNames
    <3>2. QED
      BY <3>1 DEF ImportsOK
  <2>2. s[0].imports = p.imports /\ s[0].builder = NewBuilder
    BY <1>1
  <2>3. QED
    BY <2>1, <2>2, NewBuilderOK
<1>3. \A g \in Good : ToSet(g[2]) \cap ToSet(WASI) \subseteq {g[1]}
  BY GoodNamesApart
<1>4. Good \in SUBSET (ToSet(WASI) \X Seq(NamePiece))
  BY DEF GoodNames
<1>5. ASSUME NEW k \in 1..6, Inv(k - 1) PROVE Inv(k)
  <2> DEFINE w == WASI[k]
             old == s[k - 1]
             name == NameFor(old.imports, w)
  <2>1. w \in ToSet(WASI) /\ ImportsOK(p, old.imports) /\ BuilderOK(old.builder, k - 1, Good)
    BY <1>5, WASIIs
  <2>2. s[k] = AddImport(old, w)
    BY <1>1
  <2> HIDE DEF old, Good, Inv
  <2>3. /\ ImportsOK(p, AddImport(old, w).imports)
        /\ <<w, name>> \in Good
        /\ AddImport(old, w).builder = updateWasiName(old.builder, w, name)
    BY <2>1, AddImportStep DEF Good
  <2> DEFINE b == old.builder
  <2>4. BuilderOK(updateWasiName(b, WASI[k], name), k, Good)
    <3> HIDE DEF b, name
    <3>1. BuilderOK(b, k - 1, Good) /\ <<WASI[k], name>> \in Good
      BY <2>1, <2>3 DEF b
    <3>2. QED
      BY <1>3, <1>4, <3>1, BuilderStep
  <2>5. QED
    BY <2>2, <2>3, <2>4 DEF Inv
<1> HIDE DEF Inv, Good
<1>6. Inv(6)
  <2>1. /\ 1 - 1 = 0 /\ 2 - 1 = 1 /\ 3 - 1 = 2 /\ 4 - 1 = 3 /\ 5 - 1 = 4 /\ 6 - 1 = 5
        /\ 1 \in 1..6 /\ 2 \in 1..6 /\ 3 \in 1..6 /\ 4 \in 1..6 /\ 5 \in 1..6 /\ 6 \in 1..6
    OBVIOUS
  <2>2. Inv(1)
    BY <1>2, <1>5, <2>1
  <2>3. Inv(2)
    BY <1>5, <2>1, <2>2
  <2>4. Inv(3)
    BY <1>5, <2>1, <2>3
  <2>5. Inv(4)
    BY <1>5, <2>1, <2>4
  <2>6. Inv(5)
    BY <1>5, <2>1, <2>5
  <2>7. QED
    BY <1>5, <2>1, <2>6
<1>7. ASSUME NEW c \in Calls(s[6].builder), NEW j \in FunctionsNamed(s[6].imports, c.name)
      PROVE  s[6].imports[j].base = c.meant
  <2>1. ImportsOK(p, s[6].imports) /\ BuilderOK(s[6].builder, 6, Good)
    BY <1>6 DEF Inv
  <2>2. <<c.meant, c.name>> \in Good
    BY <2>1, CallsGood
  <2>3. j \in DOMAIN s[6].imports /\ s[6].imports[j].name = c.name
    BY DEF FunctionsNamed
  <2> DEFINE g == <<c.meant, c.name>>
             imports == s[6].imports
  <2>4. g \in GoodNames(p) /\ ImportsOK(p, imports) /\ j \in DOMAIN imports
        /\ imports[j].name = g[2] /\ g[1] = c.meant
    BY <2>1, <2>2, <2>3 DEF Good
  <2> HIDE DEF g, imports
  <2>5. imports[j].base = g[1]
    BY <2>4, NameMeans
  <2>6. QED
    BY <2>4, <2>5 DEF imports
<1>8. QED
  BY <1>1, <1>7 DEF CallsWhatIsMeant

-----------------------------------------------------------------------------
(***************************************************************************)
(* The usual programs, those that are WellNamed                            *)
(***************************************************************************)
\* The program's imports are as they were, and those of WASI are usual.
Settled(p, imports) ==
  /\ DOMAIN p.imports \subseteq DOMAIN imports
  /\ \A i \in DOMAIN p.imports : imports[i] = p.imports[i]
  /\ \A i \in DOMAIN imports :
       imports[i].base \in ToSet(WASI) =>
         imports[i].kind = "function" /\ imports[i].explicit /\ imports[i].type = imports[i].base

\* The calls and names for which there is a function of the right type
Resolved(p, imports) ==
  {g \in GoodNames(p) : \E j \in FunctionsNamed(imports, g[2]) : imports[j].type = g[1]}

LEMMA SettledStep ==
  ASSUME NEW p, Untangled(p), NEW s, ImportsOK(p, s.imports), Settled(p, s.imports),
         NEW w \in ToSet(WASI)
  PROVE  /\ Settled(p, AddImport(s, w).imports)
         /\ Resolved(p, s.imports) \subseteq Resolved(p, AddImport(s, w).imports)
         /\ <<w, NameFor(s.imports, w)>> \in Resolved(p, AddImport(s, w).imports)
<1> DEFINE imports == s.imports
           i == getImport(imports, w)
           made == AddImport(s, w).imports
           name == NameFor(imports, w)
           new == [kind |-> "function", base |-> w, name |-> InnerName(w), explicit |-> TRUE,
                   type |-> w, called |-> FALSE]
<1>1. imports \in Seq(Import)
  BY DEF ImportsOK
<1>2. <<w, name>> \in GoodNames(p)
  BY AddImportStep
<1>3. CASE i = 0
  <2>1. name = InnerName(w)
    BY <1>3 DEF NameFor
  <2>2. made = Append(imports, new)
    BY <1>3, WithImportAppends DEF AddImport
  <2>3. Settled(p, imports)
    OBVIOUS
  <2> HIDE DEF made, imports, name
  <2>4. DOMAIN made = 1..(Len(imports) + 1) /\ Len(imports) \in Nat
        /\ DOMAIN imports = 1..Len(imports)
        /\ made[Len(imports) + 1] = new
        /\ \A k \in DOMAIN imports : made[k] = imports[k]
    BY <1>1, <2>2
  <2>5. DOMAIN imports \subseteq DOMAIN made /\ Len(imports) + 1 \in DOMAIN made
    BY <2>4
  <2>6. ASSUME NEW k \in DOMAIN made, made[k].base \in ToSet(WASI)
        PROVE  made[k].kind = "function" /\ made[k].explicit /\ made[k].type = made[k].base
    <3>1. k \in DOMAIN imports \/ k = Len(imports) + 1
      BY <2>4
    <3>2. CASE k \in DOMAIN imports
      BY <2>3, <2>4, <2>6, <3>2 DEF Settled
    <3>3. CASE k = Len(imports) + 1
      BY <2>4, <3>3
    <3>4. QED
      BY <3>1, <3>2, <3>3
  <2>7. Settled(p, made)
    BY <2>3, <2>4, <2>5, <2>6 DEF Settled
  <2>8. \A n : FunctionsNamed(imports, n) \subseteq FunctionsNamed(made, n)
    BY <2>4, <2>5 DEF FunctionsNamed
  <2>9. Resolved(p, imports) \subseteq Resolved(p, made)
    <3>1. ASSUME NEW g \in Resolved(p, imports) PROVE g \in Resolved(p, made)
      <4>1. PICK j \in FunctionsNamed(imports, g[2]) : imports[j].type = g[1]
        BY DEF Resolved
      <4>2. j \in FunctionsNamed(made, g[2]) /\ made[j].type = g[1]
        BY <2>4, <2>8, <4>1 DEF FunctionsNamed
      <4>3. QED
        BY <4>2 DEF Resolved
    <3>2. QED
      BY <3>1
  <2>10. Len(imports) + 1 \in FunctionsNamed(made, name) /\ made[Len(imports) + 1].type = w
    BY <2>1, <2>4, <2>5 DEF FunctionsNamed
  <2>11. <<w, name>> \in Resolved(p, made)
    BY <1>2, <2>10 DEF Resolved
  <2>12. QED
    BY <2>7, <2>9, <2>11 DEF made, imports, name
<1>4. CASE i # 0
  <2>1. i \in DOMAIN imports /\ imports[i].base = w
    BY <1>1, <1>4, GetImport
  <2>2. imports[i].kind = "function" /\ imports[i].explicit /\ imports[i].type = w
    BY <2>1 DEF Settled
  <2>3. made = imports /\ name = imports[i].name
    BY <1>4, <2>2 DEF AddImport, NameFor
  <2>4. i \in FunctionsNamed(imports, name)
    BY <2>1, <2>2, <2>3 DEF FunctionsNamed
  <2>5. <<w, name>> \in Resolved(p, imports)
    <3> HIDE DEF imports, name, i
    <3>1. QED
      BY <1>2, <2>2, <2>4 DEF Resolved
  <2>6. Settled(p, imports)
    OBVIOUS
  <2> HIDE DEF made, imports, name
  <2>7. QED
    BY <2>3, <2>5, <2>6 DEF made, imports, name
<1>5. QED
  BY <1>3, <1>4

LEMMA BuilderMonotone ==
  ASSUME NEW b, NEW k, NEW Good, NEW Better, Good \subseteq Better, BuilderOK(b, k, Good)
  PROVE  BuilderOK(b, k, Better)
BY DEF BuilderOK

\* The module of a usual program can be prepared for an inspection, unless its
\* memory has the greatest size there is.
LEMMA WellNamedPrepares ==
  ASSUME NEW p, p.imports \in Seq(Import), WellNamed(p), p.memory # "largest"
  PROVE  Prepares(p)
<1>0. Untangled(p)
  BY DEF WellNamed
<1>1. PICK s : /\ s[0] = [imports |-> p.imports, builder |-> NewBuilder]
               /\ \A k \in 1..6 : s[k] = AddImport(s[k - 1], WASI[k])
               /\ _add_imports(p.imports) = s[6]
  BY AddImportsIs, Zenon
<1> DEFINE Inv(k) == /\ ImportsOK(p, s[k].imports) /\ Settled(p, s[k].imports)
                     /\ BuilderOK(s[k].builder, k, Resolved(p, s[k].imports))
<1>2. Inv(0)
  <2>1. ImportsOK(p, p.imports)
    <3>1. ASSUME NEW i \in DOMAIN p.imports, p.imports[i].base \in ToSet(WASI)
          PROVE  <<p.imports[i].base, p.imports[i].name>> \in GoodNames(p)
      BY <3>1, ImportType DEF GoodNames
    <3>2. QED
      BY <3>1 DEF ImportsOK
  <2>2. s[0].imports = p.imports /\ s[0].builder = NewBuilder
    BY <1>1
  <2>3. Settled(p, p.imports)
    BY DEF Settled, WellNamed
  <2>4. QED
    BY <2>1, <2>2, <2>3, NewBuilderOK
<1>3. ASSUME NEW imports
      PROVE  /\ \A g \in Resolved(p, imports) : ToSet(g[2]) \cap ToSet(WASI) \subseteq {g[1]}
             /\ Resolved(p, imports) \in SUBSET (ToSet(WASI) \X Seq(NamePiece))
  BY <1>0, GoodNamesApart DEF Resolved, GoodNames
<1>5. ASSUME NEW k \in 1..6, Inv(k - 1) PROVE Inv(k)
  <2> DEFINE w == WASI[k]
             old == s[k - 1]
             name == NameFor(old.imports, w)
             Better == Resolved(p, AddImport(old, w).imports)
  <2>1. w \in ToSet(WASI) /\ ImportsOK(p, old.imports) /\ Settled(p, old.imports)
        /\ BuilderOK(old.builder, k - 1, Resolved(p, old.imports))
    BY <1>5, WASIIs
  <2>2. s[k] = AddImport(old, w)
    BY <1>1
  <2> HIDE DEF old, Inv
  <2>3. /\ ImportsOK(p, AddImport(old, w).imports)
        /\ AddImport(old, w).builder = updateWasiName(old.builder, w, name)
    BY <1>0, <2>1, AddImportStep
  <2>4. /\ Settled(p, AddImport(old, w).imports)
        /\ Resolved(p, old.imports) \subseteq Better
        /\ <<w, name>> \in Better
    BY <1>0, <2>1, SettledStep
  <2> DEFINE b == old.builder
  <2>5. BuilderOK(updateWasiName(b, WASI[k], name), k, Better)
    <3>1. /\ \A g \in Better : ToSet(g[2]) \cap ToSet(WASI) \subseteq {g[1]}
          /\ Better \in SUBSET (ToSet(WASI) \X Seq(NamePiece))
      BY <1>3
    <3> HIDE DEF b, name, Better
    <3>2. BuilderOK(b, k - 1, Better) /\ <<WASI[k], name>> \in Better
      BY <2>1, <2>4, BuilderMonotone DEF b
    <3>3. QED
      BY <3>1, <3>2, BuilderStep
  <2>6. QED
    BY <2>2, <2>3, <2>4, <2>5 DEF Inv
<1> HIDE DEF Inv
<1>6. Inv(6)
  <2>1. /\ 1 - 1 = 0 /\ 2 - 1 = 1 /\ 3 - 1 = 2 /\ 4 - 1 = 3 /\ 5 - 1 = 4 /\ 6 - 1 = 5
        /\ 1 \in 1..6 /\ 2 \in 1..6 /\ 3 \in 1..6 /\ 4 \in 1..6 /\ 5 \in 1..6 /\ 6 \in 1..6
    OBVIOUS
  <2>2. Inv(1)
    BY <1>2, <1>5, <2>1
  <2>3. Inv(2)
    BY <1>5, <2>1, <2>2
  <2>4. Inv(3)
    BY <1>5, <2>1, <2>3
  <2>5. Inv(4)
    BY <1>5, <2>1, <2>4
  <2>6. Inv(5)
    BY <1>5, <2>1, <2>5
  <2>7. QED
    BY <1>5, <2>1, <2>6
<1> DEFINE t == s[6]
<1>7. Settled(p, t.imports) /\ BuilderOK(t.builder, 6, Resolved(p, t.imports))
  BY <1>6 DEF Inv
<1> HIDE DEF t
<1>8. ASSUME NEW c \in Calls(t.builder)
      PROVE  \E j \in FunctionsNamed(t.imports, c.name) : t.imports[j].type = c.meant
  <2>1. <<c.meant, c.name>> \in Resolved(p, t.imports)
    BY <1>7, CallsGood
  <2>2. QED
    BY <2>1 DEF Resolved
<1>9. ASSUME NEW i \in DOMAIN p.imports, p.imports[i].called
      PROVE  FunctionsNamed(t.imports, p.imports[i].name) # {}
  <2>1. p.imports[i].kind = "function"
    BY <1>9, ImportType
  <2>2. i \in DOMAIN t.imports /\ t.imports[i] = p.imports[i]
    BY <1>7 DEF Settled
  <2>3. i \in FunctionsNamed(t.imports, p.imports[i].name)
    BY <2>1, <2>2 DEF FunctionsNamed
  <2>4. QED
    BY <2>3
<1>10. Resolves(p.imports, _add_imports(p.imports))
  <2>1. _add_imports(p.imports) = t
    BY <1>1 DEF t
  <2>2. QED
    BY <1>8, <1>9, <2>1 DEF Resolves
<1>11. QED
  BY <1>10 DEF Prepares, _add_memory

-----------------------------------------------------------------------------
(***************************************************************************)
(* Strings and their parts                                                 *)
(***************************************************************************)
LEMMA Greatest ==
  ASSUME NEW n \in Nat, NEW T \in SUBSET (1..n), T # {}
  PROVE  \E x \in T : \A y \in T : y <= x
<1> DEFINE R == {n - x : x \in T}
<1>1. R \in SUBSET Nat /\ R # {}
  <2>1. \A x \in T : n - x \in Nat
    OBVIOUS
  <2>2. PICK x \in T : TRUE
    OBVIOUS
  <2>3. n - x \in R
    OBVIOUS
  <2>4. QED
    BY <2>1, <2>3
<1>2. PICK r \in R : \A y \in R : r <= y
  <2> HIDE DEF R
  <2>1. QED
    BY <1>1, Least
<1>3. PICK x \in T : r = n - x
  OBVIOUS
<1>4. ASSUME NEW y \in T PROVE y <= x
  <2>1. n - y \in R
    OBVIOUS
  <2>2. r <= n - y
    BY <1>2, <2>1
  <2>3. x \in 1..n /\ y \in 1..n
    OBVIOUS
  <2>4. QED
    BY <1>3, <2>2, <2>3
<1>5. QED
  BY <1>4

LEMMA FindIs ==
  ASSUME NEW S, NEW cmd \in Seq(S), NEW x, Has(cmd, x)
  PROVE  /\ Find(cmd, x) \in 1..Len(cmd)
         /\ cmd[Find(cmd, x)] = x
         /\ \A j \in 1..(Find(cmd, x) - 1) : cmd[j] # x
<1> DEFINE T == {k \in 1..Len(cmd) : cmd[k] = x}
<1>1. DOMAIN cmd = 1..Len(cmd) /\ Len(cmd) \in Nat
  BY LenProperties
<1>2. T \in SUBSET Nat /\ T # {}
  BY <1>1 DEF Has
<1>3. PICK k \in T : \A y \in T : k <= y
  <2> HIDE DEF T
  <2>1. QED
    BY <1>2, Least
<1>4. \A j \in 1..(k - 1) : cmd[j] # x
  <2>1. ASSUME NEW j \in 1..(k - 1), cmd[j] = x PROVE FALSE
    <3>1. j \in T
      BY <1>1, <2>1
    <3>2. k <= j
      BY <1>3, <3>1
    <3>3. QED
      BY <1>1, <3>2
  <2>2. QED
    BY <2>1
<1>5. \E i \in DOMAIN cmd : cmd[i] = x /\ \A j \in 1..(i - 1) : cmd[j] # x
  BY <1>1, <1>4
<1>6. QED
  BY <1>1, <1>5 DEF Find

\* A sequence of parts in U, the first of them in T, which may be continued by U
LEMMA FlattenInto ==
  ASSUME NEW S, NEW ss \in Seq(Seq(S)), Len(ss) # 0, NEW T, NEW U, ss[1] \in T,
         \A k \in 1..Len(ss) : ss[k] \in U, \A a \in T, b \in U : a \o b \in T
  PROVE  FlattenSeq(ss) \in T
<1> DEFINE n == Len(ss)
<1>1. PICK F : Flattens(ss, n, F, S) /\ FlattenSeq(ss) = F[n]
  BY FlattenIs
<1> DEFINE Bad == {k \in 1..n : F[k] \notin T}
<1>2. n \in Nat /\ n \in 1..n
  BY LenProperties
<1>3. Bad = {}
  <2>1. SUFFICES ASSUME Bad # {} PROVE FALSE
    OBVIOUS
  <2>2. PICK x \in Bad : \A y \in Bad : x <= y
    <3>1. Bad \in SUBSET Nat
      BY <1>2
    <3>2. QED
      BY <2>1, <3>1, Least
  <2>3. x \in 1..n /\ F[x] \notin T
    BY <2>2
  <2>4. F[x] = IF x = 1 THEN ss[x] ELSE F[x - 1] \o ss[x]
    BY <1>1, <2>3 DEF Flattens
  <2>5. CASE x = 1
    BY <2>3, <2>4, <2>5
  <2>6. CASE x # 1
    <3>1. x - 1 \in 1..n /\ ~(x <= x - 1)
      BY <1>2, <2>3, <2>6
    <3>2. x - 1 \notin Bad
      <4> HIDE DEF Bad
      <4>1. QED
        BY <2>2, <3>1
    <3>3. F[x - 1] \in T /\ ss[x] \in U
      BY <2>3, <3>1, <3>2
    <3>4. QED
      BY <2>3, <2>4, <2>6, <3>3
  <2>7. QED
    BY <2>5, <2>6
<1>4. QED
  BY <1>1, <1>2, <1>3

LEMMA HasConcat ==
  ASSUME NEW S, NEW a \in Seq(S), NEW b \in Seq(S), NEW x
  PROVE  Has(a \o b, x) <=> Has(a, x) \/ Has(b, x)
<1> DEFINE c == a \o b
<1>1. /\ c \in Seq(S) /\ Len(c) = Len(a) + Len(b)
      /\ \A i \in 1..(Len(a) + Len(b)) : c[i] = IF i <= Len(a) THEN a[i] ELSE b[i - Len(a)]
  BY ConcatProperties
<1> HIDE DEF c
<1>2. /\ DOMAIN a = 1..Len(a) /\ DOMAIN b = 1..Len(b) /\ DOMAIN c = 1..(Len(a) + Len(b))
      /\ Len(a) \in Nat /\ Len(b) \in Nat
  BY <1>1, LenProperties
<1>3. ASSUME NEW i \in DOMAIN c, c[i] = x PROVE Has(a, x) \/ Has(b, x)
  <2>1. CASE i <= Len(a)
    BY <1>1, <1>2, <1>3, <2>1 DEF Has
  <2>2. CASE ~(i <= Len(a))
    <3>1. i - Len(a) \in DOMAIN b /\ b[i - Len(a)] = x
      BY <1>1, <1>2, <1>3, <2>2
    <3>2. QED
      BY <3>1 DEF Has
  <2>3. QED
    BY <2>1, <2>2
<1>4. ASSUME NEW i \in DOMAIN a, a[i] = x PROVE Has(c, x)
  BY <1>1, <1>2, <1>4 DEF Has
<1>5. ASSUME NEW i \in DOMAIN b, b[i] = x PROVE Has(c, x)
  <2>1. i + Len(a) \in DOMAIN c /\ ~(i + Len(a) <= Len(a)) /\ (i + Len(a)) - Len(a) = i
    BY <1>2
  <2>2. c[i + Len(a)] = x
    BY <1>1, <1>2, <1>5, <2>1
  <2>3. QED
    BY <2>1, <2>2 DEF Has
<1>6. QED
  BY <1>3, <1>4, <1>5 DEF Has, c

\* A part of a string
LEMMA PartIs ==
  ASSUME NEW S, NEW s \in Seq(S), NEW m \in 1..(Len(s) + 1), NEW n \in 0..Len(s)
  PROVE  /\ SubSeq(s, m, n) \in Seq(S)
         /\ Len(SubSeq(s, m, n)) = IF m <= n THEN n - m + 1 ELSE 0
         /\ \A k \in 1..Len(SubSeq(s, m, n)) : /\ SubSeq(s, m, n)[k] = s[m + k - 1]
                                               /\ m + k - 1 \in m..n
<1>1. Len(s) \in Nat /\ \A i \in 1..Len(s) : s[i] \in S
  BY LenProperties, ElementOfSeq
<1>2. m \in Int /\ n \in Int /\ \A i \in m..n : s[i] \in S
  BY <1>1
<1>3. /\ SubSeq(s, m, n) \in Seq(S)
      /\ Len(SubSeq(s, m, n)) = (IF m <= n THEN n - m + 1 ELSE 0)
      /\ \A i \in 1..(n - m + 1) : SubSeq(s, m, n)[i] = s[m + i - 1]
  BY <1>2, SubSeqProperties
<1>4. QED
  BY <1>1, <1>3

LEMMA PartHas ==
  ASSUME NEW S, NEW s \in Seq(S), NEW m \in 1..(Len(s) + 1), NEW n \in 0..Len(s), NEW x,
         Has(SubSeq(s, m, n), x)
  PROVE  \E k \in m..n : k \in 1..Len(s) /\ s[k] = x
<1> DEFINE p == SubSeq(s, m, n)
<1>1. /\ p \in Seq(S) /\ \A k \in 1..Len(p) : p[k] = s[m + k - 1] /\ m + k - 1 \in m..n
  BY PartIs
<1> HIDE DEF p
<1>2. PICK i \in 1..Len(p) : p[i] = x
  BY <1>1, LenProperties DEF Has, p
<1>3. m + i - 1 \in m..n /\ s[m + i - 1] = x
  BY <1>1, <1>2
<1>4. m + i - 1 \in 1..Len(s)
  BY <1>3, LenProperties
<1>5. QED
  BY <1>3, <1>4

LEMMA PartNone ==
  ASSUME NEW S, NEW s \in Seq(S), NEW m \in 1..(Len(s) + 1), NEW n \in 0..Len(s), NEW x,
         ~Has(s, x)
  PROVE  ~Has(SubSeq(s, m, n), x)
BY PartHas, LenProperties DEF Has

LEMMA JoinedType ==
  ASSUME NEW ws \in Seq(Seq(Piece)), ws # <<>>
  PROVE  /\ Line(ws) \in Seq(Seq(Piece)) /\ Len(Line(ws)) = Len(ws) - 1
         /\ \A k \in 1..(Len(ws) - 1) : Line(ws)[k] = Append(ws[k], Space)
         /\ FlattenSeq(Line(ws)) \in Seq(Piece)
         /\ Last(ws) \in Seq(Piece)
         /\ Joined(ws) \in Seq(Piece)
<1>1. /\ Len(ws) \in Nat \ {0} /\ DOMAIN ws = 1..Len(ws)
      /\ \A k \in 1..Len(ws) : ws[k] \in Seq(Piece)
  BY EmptySeq, LenProperties, ElementOfSeq
<1>2. Space \in Piece
  BY DEF Piece
<1> DEFINE n == Len(ws) - 1
           line == [k \in 1..n |-> Append(ws[k], Space)]
<1>3. \A k \in 1..n : Append(ws[k], Space) \in Seq(Piece)
  <2>1. ASSUME NEW k \in 1..n PROVE Append(ws[k], Space) \in Seq(Piece)
    <3>1. ws[k] \in Seq(Piece)
      BY <1>1
    <3>2. QED
      BY <1>2, <3>1, AppendProperties
  <2>2. QED
    BY <2>1
<1>4. n \in Nat
  BY <1>1
<1>5. line \in Seq(Seq(Piece)) /\ Len(line) = n /\ \A k \in 1..n : line[k] = Append(ws[k], Space)
  <2> HIDE DEF n
  <2>1. line \in [1..n -> Seq(Piece)]
    BY <1>3
  <2>2. QED
    BY <1>4, <2>1
<1>6. Line(ws) = line
  BY DEF Line
<1> HIDE DEF line, n
<1>7. FlattenSeq(line) \in Seq(Piece)
  BY <1>5, FlattenType
<1>8. Last(ws) \in Seq(Piece)
  BY <1>1 DEF Last
<1>9. Joined(ws) \in Seq(Piece)
  <2>1. Joined(ws) = FlattenSeq(line) \o Last(ws)
    BY <1>6 DEF Joined
  <2>2. QED
    BY <1>7, <1>8, <2>1, ConcatProperties
<1>10. QED
  BY <1>5, <1>6, <1>7, <1>8, <1>9 DEF n

-----------------------------------------------------------------------------
(***************************************************************************)
(* What the two halves of modify_runtime_command() keep                    *)
(***************************************************************************)
\* Every ".wasm" has a space somewhere before it.
WasmAfterSpace(s) ==
  \A k \in DOMAIN s : s[k] = WasmSuffix => \E j \in 1..(k - 1) : s[j] = Space

\* Every "--dir=." is the end of a word.
DirEndsWord(s) ==
  \A k \in DOMAIN s : s[k] = DirOption => k = Len(s) \/ s[k + 1] = Space

LEMMA WasmConcat ==
  ASSUME NEW a \in Seq(Piece), NEW b \in Seq(Piece), WasmAfterSpace(a),
         Has(a, Space) \/ ~Has(b, WasmSuffix)
  PROVE  WasmAfterSpace(a \o b)
<1> DEFINE c == a \o b
<1>1. /\ c \in Seq(Piece) /\ Len(c) = Len(a) + Len(b)
      /\ \A i \in 1..(Len(a) + Len(b)) : c[i] = IF i <= Len(a) THEN a[i] ELSE b[i - Len(a)]
  BY ConcatProperties
<1> HIDE DEF c
<1>2. /\ DOMAIN a = 1..Len(a) /\ DOMAIN b = 1..Len(b) /\ DOMAIN c = 1..(Len(a) + Len(b))
      /\ Len(a) \in Nat /\ Len(b) \in Nat
  BY <1>1, LenProperties
<1>3. ASSUME NEW k \in DOMAIN c, c[k] = WasmSuffix
      PROVE  \E j \in 1..(k - 1) : c[j] = Space
  <2>1. CASE k <= Len(a)
    <3>1. k \in DOMAIN a /\ a[k] = WasmSuffix
      BY <1>1, <1>2, <1>3, <2>1
    <3>2. PICK j \in 1..(k - 1) : a[j] = Space
      BY <3>1 DEF WasmAfterSpace
    <3>3. c[j] = Space
      BY <1>1, <1>2, <2>1, <3>2
    <3>4. QED
      BY <3>3
  <2>2. CASE ~(k <= Len(a))
    <3>1. k - Len(a) \in DOMAIN b /\ b[k - Len(a)] = WasmSuffix
      BY <1>1, <1>2, <1>3, <2>2
    <3>2. PICK j \in DOMAIN a : a[j] = Space
      BY <3>1 DEF Has
    <3>3. c[j] = Space /\ j \in 1..(k - 1)
      BY <1>1, <1>2, <2>2, <3>2
    <3>4. QED
      BY <3>3
  <2>3. QED
    BY <2>1, <2>2
<1>4. QED
  BY <1>3 DEF WasmAfterSpace, c

LEMMA DirConcat ==
  ASSUME NEW a \in Seq(Piece), NEW b \in Seq(Piece), DirEndsWord(a), DirEndsWord(b),
         \/ Len(a) = 0 \/ Len(b) = 0 \/ a[Len(a)] # DirOption \/ b[1] = Space
  PROVE  DirEndsWord(a \o b)
<1> DEFINE c == a \o b
<1>1. /\ c \in Seq(Piece) /\ Len(c) = Len(a) + Len(b)
      /\ \A i \in 1..(Len(a) + Len(b)) : c[i] = IF i <= Len(a) THEN a[i] ELSE b[i - Len(a)]
  BY ConcatProperties
<1> HIDE DEF c
<1>2. /\ DOMAIN a = 1..Len(a) /\ DOMAIN b = 1..Len(b) /\ DOMAIN c = 1..(Len(a) + Len(b))
      /\ Len(a) \in Nat /\ Len(b) \in Nat
  BY <1>1, LenProperties
<1>3. ASSUME NEW k \in DOMAIN c, c[k] = DirOption
      PROVE  k = Len(c) \/ c[k + 1] = Space
  <2>1. CASE k < Len(a)
    <3>1. k \in DOMAIN a /\ a[k] = DirOption /\ k # Len(a)
      BY <1>1, <1>2, <1>3, <2>1
    <3>2. a[k + 1] = Space
      BY <3>1 DEF DirEndsWord
    <3>3. c[k + 1] = a[k + 1]
      BY <1>1, <1>2, <2>1
    <3>4. QED
      BY <3>2, <3>3
  <2>2. CASE k = Len(a)
    <3>1. a[Len(a)] = DirOption /\ Len(a) # 0
      BY <1>1, <1>2, <1>3, <2>2
    <3>2. CASE Len(b) = 0
      BY <1>1, <1>2, <2>2, <3>2
    <3>3. CASE Len(b) # 0
      <4>1. b[1] = Space
        BY <3>1, <3>3
      <4>2. c[k + 1] = b[1]
        <5>1. k + 1 \in 1..(Len(a) + Len(b)) /\ ~(k + 1 <= Len(a)) /\ (k + 1) - Len(a) = 1
          BY <1>2, <2>2, <3>3
        <5>2. QED
          BY <1>1, <5>1
      <4>3. QED
        BY <4>1, <4>2
    <3>4. QED
      BY <3>2, <3>3
  <2>3. CASE k > Len(a)
    <3> DEFINE i == k - Len(a)
    <3>1. i \in DOMAIN b /\ b[i] = DirOption
      BY <1>1, <1>2, <1>3, <2>3
    <3>2. i = Len(b) \/ b[i + 1] = Space
      <4> HIDE DEF i
      <4>1. QED
        BY <3>1 DEF DirEndsWord
    <3>3. CASE i = Len(b)
      BY <1>1, <1>2, <3>3
    <3>4. CASE i # Len(b)
      <4>1. k + 1 \in 1..(Len(a) + Len(b)) /\ ~(k + 1 <= Len(a)) /\ (k + 1) - Len(a) = i + 1
        BY <1>2, <2>3, <3>1, <3>4
      <4>2. c[k + 1] = b[i + 1]
        BY <1>1, <4>1
      <4>3. QED
        BY <3>2, <3>4, <4>2
    <3>5. QED
      BY <3>3, <3>4
  <2>4. QED
    BY <1>2, <2>1, <2>2, <2>3
<1>4. QED
  BY <1>3 DEF DirEndsWord, c

LEMMA NoneIsEnough ==
  ASSUME NEW s
  PROVE  /\ ~Has(s, WasmSuffix) => WasmAfterSpace(s)
         /\ ~Has(s, DirOption) => DirEndsWord(s)
BY DEF Has, WasmAfterSpace, DirEndsWord

LEMMA SpaceDir ==
  /\ <<Space, DirOption>> \in Seq(Piece) /\ Len(<<Space, DirOption>>) = 2
  /\ <<Space, DirOption>>[1] = Space /\ <<Space, DirOption>>[2] = DirOption
  /\ ~Has(<<Space, DirOption>>, WasmSuffix)
  /\ DirEndsWord(<<Space, DirOption>>)
<1>1. Space \in Piece /\ DirOption \in Piece /\ Space # WasmSuffix /\ DirOption # WasmSuffix
      /\ Space # DirOption
  BY RuntimeCommandConstants DEF Piece
<1>2. QED
  BY <1>1 DEF Has, DirEndsWord

\* The three cases of the first half
LEMMA WithDirCases ==
  ASSUME NEW cmd \in Seq(Piece)
  PROVE  \/ Has(cmd, DirOption) /\ WithDir(cmd) = cmd
         \/ /\ ~Has(cmd, DirOption)
            /\ \E a \in Seq(Piece), b \in Seq(Piece) :
                 /\ WithDir(cmd) = (a \o <<Space, DirOption>>) \o b
                 /\ cmd = a \o b
                 /\ ~Has(a, DirOption) /\ ~Has(b, DirOption) /\ ~Has(a, Space)
                 /\ Len(b) = 0 \/ b[1] = Space
<1>1. CASE Has(cmd, DirOption)
  BY <1>1 DEF WithDir
<1>2. CASE ~Has(cmd, DirOption) /\ Has(cmd, Space)
  <2> DEFINE k == Find(cmd, Space)
             n == Len(cmd)
             a == SubSeq(cmd, 1, k - 1)
             b == SubSeq(cmd, k, n)
  <2>1. k \in 1..n /\ cmd[k] = Space /\ \A j \in 1..(k - 1) : cmd[j] # Space
    BY <1>2, FindIs
  <2>2. n \in Nat
    BY LenProperties
  <2>3. WithDir(cmd) = (a \o <<Space, DirOption>>) \o b
    BY <1>2 DEF WithDir
  <2> HIDE DEF k
  <2>4. 1 \in 1..(n + 1) /\ k - 1 \in 0..n /\ k \in 1..(n + 1) /\ n \in 0..n
    BY <2>1, <2>2
  <2>5. /\ a \in Seq(Piece) /\ b \in Seq(Piece) /\ Len(b) = n - k + 1
        /\ Len(b) # 0 => b[1] = cmd[k + 1 - 1]
    BY <2>1, <2>2, <2>4, PartIs
  <2>6. ~Has(a, DirOption) /\ ~Has(b, DirOption)
    BY <1>2, <2>4, PartNone
  <2>7. ~Has(a, Space)
    <3>1. SUFFICES ASSUME Has(a, Space) PROVE FALSE
      OBVIOUS
    <3>2. PICK i \in 1..(k - 1) : cmd[i] = Space
      <4> DEFINE m == k - 1
      <4>1. m \in 0..Len(cmd) /\ 1 \in 1..(Len(cmd) + 1) /\ Has(SubSeq(cmd, 1, m), Space)
        BY <2>4, <3>1
      <4> HIDE DEF m, a, b, n
      <4>2. \E i \in 1..m : i \in 1..Len(cmd) /\ cmd[i] = Space
        BY <4>1, PartHas
      <4>3. QED
        BY <4>2 DEF m
    <3>3. QED
      BY <2>1, <3>2
  <2>8. cmd = a \o b
    <3> DEFINE m == k - 1
    <3>1. /\ 1 \in 1..(Len(cmd) + 1) /\ m \in (1 - 1)..Len(cmd) /\ n \in m..Len(cmd)
          /\ m + 1 = k
      BY <2>1, <2>2
    <3> HIDE DEF m
    <3>2. SubSeq(cmd, 1, m) \o SubSeq(cmd, m + 1, n) = SubSeq(cmd, 1, n)
      BY <3>1, ConcatAdjacentSubSeq
    <3>3. SubSeq(cmd, 1, n) = cmd
      BY SubSeqFull
    <3>4. QED
      BY <3>1, <3>2, <3>3 DEF m
  <2>9. b[1] = Space
    <3>1. Len(b) # 0 /\ k + 1 - 1 = k
      BY <2>1, <2>2, <2>5
    <3>2. QED
      BY <2>1, <2>5, <3>1
  <2> HIDE DEF a, b
  <2>10. QED
    BY <1>2, <2>3, <2>5, <2>6, <2>7, <2>8, <2>9
<1>3. CASE ~Has(cmd, DirOption) /\ ~Has(cmd, Space)
  <2>1. WithDir(cmd) = cmd \o <<Space, DirOption>>
    BY <1>3 DEF WithDir
  <2>2. <<>> \in Seq(Piece) /\ Len(<<>>) = 0 /\ ~Has(<<>>, DirOption)
    BY EmptySeq DEF Has
  <2>3. cmd = cmd \o <<>>
    BY ConcatEmptySeq
  <2>4. (cmd \o <<Space, DirOption>>) \o <<>> = cmd \o <<Space, DirOption>>
    <3> DEFINE c == cmd \o <<Space, DirOption>>
    <3>1. c \in Seq(Piece)
      BY SpaceDir, ConcatProperties
    <3> HIDE DEF c
    <3>2. c \o <<>> = c
      BY <3>1, ConcatEmptySeq
    <3>3. QED
      BY <3>2 DEF c
  <2>5. QED
    BY <1>3, <2>1, <2>2, <2>3, <2>4
<1>4. QED
  BY <1>1, <1>2, <1>3

LEMMA WithDirKeeps ==
  ASSUME NEW cmd \in Seq(Piece)
  PROVE  /\ WithDir(cmd) \in Seq(Piece)
         /\ WasmAfterSpace(cmd) => WasmAfterSpace(WithDir(cmd))
         /\ Has(WithDir(cmd), DirOption)
         /\ DirEndsWord(cmd) => DirEndsWord(WithDir(cmd))
<1>1. CASE Has(cmd, DirOption) /\ WithDir(cmd) = cmd
  BY <1>1
<1>2. CASE ~(Has(cmd, DirOption) /\ WithDir(cmd) = cmd)
  <2> DEFINE d == <<Space, DirOption>>
  <2>1. PICK a \in Seq(Piece), b \in Seq(Piece) :
          /\ WithDir(cmd) = (a \o d) \o b
          /\ cmd = a \o b
          /\ ~Has(a, DirOption) /\ ~Has(b, DirOption) /\ ~Has(a, Space)
          /\ Len(b) = 0 \/ b[1] = Space
    BY <1>2, WithDirCases
  <2>2. d \in Seq(Piece) /\ ~Has(d, WasmSuffix) /\ DirEndsWord(d) /\ Len(d) = 2 /\ d[1] = Space
        /\ Has(d, Space) /\ Has(d, DirOption)
    BY SpaceDir, LenProperties DEF Has
  <2> HIDE DEF d
  <2>3. a \o d \in Seq(Piece) /\ (a \o d) \o b \in Seq(Piece)
    BY <2>2, ConcatProperties
  <2>4. Has(a \o d, Space) /\ Has(a \o d, DirOption) /\ Has((a \o d) \o b, DirOption)
    BY <2>2, <2>3, HasConcat
  <2>5. ASSUME WasmAfterSpace(cmd) PROVE WasmAfterSpace((a \o d) \o b)
    <3>1. WasmAfterSpace(a)
      <4>1. /\ Len(cmd) = Len(a) + Len(b)
            /\ \A i \in 1..(Len(a) + Len(b)) : cmd[i] = IF i <= Len(a) THEN a[i] ELSE b[i - Len(a)]
        BY <2>1, ConcatProperties
      <4>2. /\ DOMAIN a = 1..Len(a) /\ DOMAIN cmd = 1..Len(cmd)
            /\ Len(a) \in Nat /\ Len(b) \in Nat
        BY LenProperties
      <4>3. \A k \in DOMAIN a : k \in DOMAIN cmd /\ cmd[k] = a[k]
        BY <4>1, <4>2
      <4>4. ASSUME NEW k \in DOMAIN a, a[k] = WasmSuffix
            PROVE  \E j \in 1..(k - 1) : a[j] = Space
        <5>1. PICK j \in 1..(k - 1) : cmd[j] = Space
          BY <2>5, <4>3, <4>4 DEF WasmAfterSpace
        <5>2. j \in DOMAIN a
          BY <4>2
        <5>3. QED
          BY <4>3, <5>1, <5>2
      <4>5. QED
        BY <4>4 DEF WasmAfterSpace
    <3>2. WasmAfterSpace(a \o d)
      BY <2>2, <3>1, WasmConcat
    <3>3. QED
      BY <2>3, <2>4, <3>2, WasmConcat
  <2>6. DirEndsWord((a \o d) \o b)
    <3>1. DirEndsWord(a) /\ DirEndsWord(b)
      BY <2>1, NoneIsEnough
    <3>2. DirEndsWord(a \o d)
      BY <2>2, <3>1, DirConcat
    <3>3. QED
      BY <2>1, <2>3, <3>1, <3>2, DirConcat
  <2>7. QED
    BY <2>1, <2>3, <2>4, <2>5, <2>6
<1>3. QED
  BY <1>1, <1>2

\* The two cases of the second half
LEMMA WithFileCases ==
  ASSUME NEW c \in Seq(Piece), NEW wasm_file \in Seq(Piece),
         Has(c, WasmSuffix) => SpacesBefore(c, Find(c, WasmSuffix)) # {}
  PROVE  \/ ~Has(c, WasmSuffix) /\ WithFile(c, wasm_file) = (c \o <<Space>>) \o wasm_file
         \/ /\ Has(c, WasmSuffix)
            /\ \E k \in 1..Len(c), pos \in 1..Len(c) :
                 /\ pos = Find(c, WasmSuffix) /\ k <= pos /\ c[k] = Space
                 /\ \A j \in 1..pos : c[j] = Space => j <= k
                 /\ WithFile(c, wasm_file) =
                      (SubSeq(c, 1, k) \o wasm_file) \o SubSeq(c, pos + 1, Len(c))
<1>1. CASE ~Has(c, WasmSuffix)
  BY <1>1 DEF WithFile
<1>2. CASE Has(c, WasmSuffix)
  <2> DEFINE pos == Find(c, WasmSuffix)
             before == SpacesBefore(c, pos)
             start_pos == CHOOSE k \in before : \A i \in before : i <= k
  <2>1. pos \in 1..Len(c) /\ Len(c) \in Nat
    BY <1>2, FindIs, LenProperties
  <2>2. /\ before \in SUBSET (1..pos) /\ before # {}
        /\ \A j \in before : c[j] = Space
        /\ \A j \in 1..pos : c[j] = Space => j \in before
    BY <1>2 DEF SpacesBefore
  <2>3. WithFile(c, wasm_file) =
          (SubSeq(c, 1, start_pos) \o wasm_file) \o SubSeq(c, pos + 1, Len(c))
    BY <1>2 DEF WithFile
  <2> HIDE DEF before, pos
  <2>4. pos \in Nat
    BY <2>1
  <2>5. \E k \in before : \A j \in before : j <= k
    BY <2>2, <2>4, Greatest
  <2>6. start_pos \in before /\ \A j \in before : j <= start_pos
    BY <2>5
  <2> HIDE DEF start_pos
  <2>7. /\ start_pos \in 1..Len(c) /\ start_pos <= pos /\ c[start_pos] = Space
        /\ \A j \in 1..pos : c[j] = Space => j <= start_pos
    BY <2>1, <2>2, <2>6
  <2>8. QED
    BY <1>2, <2>1, <2>3, <2>7 DEF pos
<1>3. QED
  BY <1>1, <1>2

LEMMA SpaceAlone ==
  /\ <<Space>> \in Seq(Piece) /\ Len(<<Space>>) = 1 /\ <<Space>>[1] = Space
  /\ Has(<<Space>>, Space) /\ ~Has(<<Space>>, WasmSuffix) /\ ~Has(<<Space>>, DirOption)
<1>1. Space \in Piece /\ Space # WasmSuffix /\ Space # DirOption
  BY RuntimeCommandConstants DEF Piece
<1>2. QED
  BY <1>1 DEF Has

LEMMA WithFileKeeps ==
  ASSUME NEW c \in Seq(Piece), NEW wasm_file \in Seq(Piece),
         Has(c, WasmSuffix) => SpacesBefore(c, Find(c, WasmSuffix)) # {}
  PROVE  /\ WithFile(c, wasm_file) \in Seq(Piece)
         /\ WasmAfterSpace(c) => WasmAfterSpace(WithFile(c, wasm_file))
         /\ DirEndsWord(c) /\ ~Has(wasm_file, DirOption) =>
              /\ DirEndsWord(WithFile(c, wasm_file))
              /\ Has(c, DirOption) => Has(WithFile(c, wasm_file), DirOption)
<1>1. CASE ~Has(c, WasmSuffix) /\ WithFile(c, wasm_file) = (c \o <<Space>>) \o wasm_file
  <2> DEFINE sp == <<Space>>
  <2>1. sp \in Seq(Piece) /\ Len(sp) = 1 /\ sp[1] = Space /\ Has(sp, Space)
        /\ ~Has(sp, WasmSuffix) /\ ~Has(sp, DirOption)
    BY SpaceAlone
  <2> HIDE DEF sp
  <2>2. c \o sp \in Seq(Piece) /\ (c \o sp) \o wasm_file \in Seq(Piece)
    BY <2>1, ConcatProperties
  <2>3. Has(c \o sp, Space) /\ (Has(c, DirOption) => Has((c \o sp) \o wasm_file, DirOption))
    BY <2>1, <2>2, HasConcat
  <2>4. WasmAfterSpace(c) => WasmAfterSpace((c \o sp) \o wasm_file)
    BY <2>1, <2>2, <2>3, WasmConcat
  <2>5. ASSUME DirEndsWord(c), ~Has(wasm_file, DirOption)
        PROVE  DirEndsWord((c \o sp) \o wasm_file)
    <3>1. DirEndsWord(sp) /\ DirEndsWord(wasm_file)
      BY <2>1, <2>5, NoneIsEnough
    <3>2. DirEndsWord(c \o sp)
      BY <2>1, <2>5, <3>1, DirConcat
    <3>3. (c \o sp)[Len(c \o sp)] # DirOption
      <4>0. Len(c) \in Nat
        BY LenProperties
      <4>1. /\ Len(c \o sp) = Len(c) + Len(sp)
            /\ \A i \in 1..(Len(c) + Len(sp)) :
                 (c \o sp)[i] = IF i <= Len(c) THEN c[i] ELSE sp[i - Len(c)]
        BY <2>1, ConcatProperties
      <4>2. (c \o sp)[Len(c) + 1] = sp[1]
        <5>1. /\ Len(c) + 1 \in 1..(Len(c) + Len(sp)) /\ ~(Len(c) + 1 <= Len(c))
              /\ (Len(c) + 1) - Len(c) = 1
          BY <2>1, <4>0
        <5>2. QED
          BY <4>1, <5>1
      <4>3. Len(c \o sp) = Len(c) + 1
        BY <2>1, <4>1
      <4>4. QED
        BY <2>1, <4>2, <4>3, RuntimeCommandConstants
    <3>4. QED
      BY <2>2, <3>1, <3>2, <3>3, DirConcat
  <2>6. QED
    BY <1>1, <2>2, <2>3, <2>4, <2>5 DEF sp
<1>2. CASE ~(~Has(c, WasmSuffix) /\ WithFile(c, wasm_file) = (c \o <<Space>>) \o wasm_file)
  <2>1. PICK k \in 1..Len(c), pos \in 1..Len(c) :
                 /\ pos = Find(c, WasmSuffix) /\ k <= pos /\ c[k] = Space
                 /\ \A j \in 1..pos : c[j] = Space => j <= k
                 /\ WithFile(c, wasm_file) =
                      (SubSeq(c, 1, k) \o wasm_file) \o SubSeq(c, pos + 1, Len(c))
    BY <1>2, WithFileCases
  <2>2. Has(c, WasmSuffix) /\ c[pos] = WasmSuffix
    BY <1>2, <2>1, WithFileCases, FindIs
  <2> DEFINE n == Len(c)
             a == SubSeq(c, 1, k)
             b == SubSeq(c, pos + 1, n)
  <2>3. n \in Nat /\ DOMAIN c = 1..n /\ 1 \in 1..(n + 1) /\ k \in 0..n /\ pos + 1 \in 1..(n + 1)
        /\ n \in 0..n
    BY LenProperties
  <2>4. a \in Seq(Piece) /\ Len(a) = k /\ \A i \in 1..k : a[i] = c[i]
    <3>1. a \in Seq(Piece) /\ Len(a) = k - 1 + 1 /\ \A i \in 1..Len(a) : a[i] = c[1 + i - 1]
      BY <2>3, PartIs
    <3>2. \A i \in 1..k : 1 + i - 1 = i
      OBVIOUS
    <3>3. k - 1 + 1 = k
      OBVIOUS
    <3>4. QED
      BY <3>1, <3>2, <3>3
  <2>5. b \in Seq(Piece) /\ Len(b) = n - pos /\ \A i \in 1..(n - pos) : b[i] = c[pos + i]
    <3> DEFINE m == pos + 1
    <3>1. m \in 1..(Len(c) + 1) /\ n \in 0..Len(c)
      BY <2>3
    <3>2. b \in Seq(Piece) /\ Len(b) = (IF m <= n THEN n - m + 1 ELSE 0)
          /\ \A i \in 1..Len(b) : b[i] = c[m + i - 1]
      <4> HIDE DEF m
      <4>1. SubSeq(c, m, n) \in Seq(Piece)
            /\ Len(SubSeq(c, m, n)) = (IF m <= n THEN n - m + 1 ELSE 0)
            /\ \A i \in 1..Len(SubSeq(c, m, n)) : SubSeq(c, m, n)[i] = c[m + i - 1]
        BY <3>1, PartIs
      <4>2. QED
        BY <4>1 DEF m
    <3>3. Len(b) = n - pos
      <4>1. pos \in Nat /\ pos <= n
        BY <2>3
      <4>2. Len(b) = IF pos + 1 <= n THEN n - (pos + 1) + 1 ELSE 0
        BY <3>2
      <4> HIDE DEF b, m, n
      <4>3. n \in Nat
        BY <2>3
      <4>4. QED
        BY ONLY <4>1, <4>2, <4>3
    <3>4. \A i \in 1..(n - pos) : m + i - 1 = pos + i
      BY <2>3
    <3>5. QED
      BY <3>2, <3>3, <3>4
  <2> HIDE DEF a, b, n
  <2>6. DOMAIN a = 1..k /\ DOMAIN b = 1..(n - pos)
    BY <2>4, <2>5, LenProperties
  <2>7. a \o wasm_file \in Seq(Piece) /\ (a \o wasm_file) \o b \in Seq(Piece)
    BY <2>4, <2>5, ConcatProperties
  <2>8. Has(a, Space) /\ Has(a \o wasm_file, Space)
    <3>1. Has(a, Space)
      <4>1. k \in DOMAIN a /\ a[k] = Space
        BY <2>1, <2>3, <2>4, <2>6
      <4>2. QED
        BY <4>1 DEF Has
    <3>2. QED
      BY <2>4, <3>1, HasConcat
  <2>9. ASSUME WasmAfterSpace(c) PROVE WasmAfterSpace((a \o wasm_file) \o b)
    <3>1. WasmAfterSpace(a)
      <4>1. ASSUME NEW i \in DOMAIN a, a[i] = WasmSuffix
            PROVE  \E j \in 1..(i - 1) : a[j] = Space
        <5>1. i \in DOMAIN c /\ c[i] = WasmSuffix
          BY <2>3, <2>4, <2>6, <4>1
        <5>2. PICK j \in 1..(i - 1) : c[j] = Space
          BY <2>9, <5>1 DEF WasmAfterSpace
        <5>3. a[j] = Space
          BY <2>4, <2>6, <5>2
        <5>4. QED
          BY <5>3
      <4>2. QED
        BY <4>1 DEF WasmAfterSpace
    <3>2. WasmAfterSpace(a \o wasm_file)
      BY <2>4, <2>8, <3>1, WasmConcat
    <3>3. QED
      BY <2>5, <2>7, <2>8, <3>2, WasmConcat
  <2>10. ASSUME DirEndsWord(c), ~Has(wasm_file, DirOption)
         PROVE  /\ DirEndsWord((a \o wasm_file) \o b)
                /\ Has(c, DirOption) => Has((a \o wasm_file) \o b, DirOption)
    <3>0. Space # DirOption /\ Space # WasmSuffix /\ WasmSuffix # DirOption
      BY RuntimeCommandConstants
    <3>1. DirEndsWord(a)
      <4>1. ASSUME NEW i \in DOMAIN a, a[i] = DirOption PROVE i = Len(a) \/ a[i + 1] = Space
        <5>1. i \in DOMAIN c /\ c[i] = DirOption /\ i # k
          BY <2>1, <2>3, <2>4, <2>6, <3>0, <4>1
        <5>2. i + 1 \in 1..k /\ i # Len(c)
          BY <2>3, <2>6, <5>1 DEF n
        <5>3. c[i + 1] = Space
          BY <2>10, <5>1, <5>2 DEF DirEndsWord
        <5>4. QED
          BY <2>4, <5>2, <5>3
      <4>2. QED
        BY <4>1 DEF DirEndsWord
    <3>2. DirEndsWord(b)
      <4>1. ASSUME NEW i \in DOMAIN b, b[i] = DirOption, i # Len(b) PROVE b[i + 1] = Space
        <5>1. pos + i \in DOMAIN c /\ c[pos + i] = DirOption /\ pos + i # Len(c)
              /\ i + 1 \in 1..(n - pos)
          BY <2>3, <2>5, <2>6, <4>1 DEF n
        <5>2. c[(pos + i) + 1] = Space
          BY <2>10, <5>1 DEF DirEndsWord
        <5>3. b[i + 1] = c[pos + (i + 1)]
          BY <2>5, <5>1
        <5>5. pos + (i + 1) = (pos + i) + 1
          BY <2>6
        <5>4. QED
          BY <5>2, <5>3, <5>5
      <4>2. QED
        BY <4>1 DEF DirEndsWord
    <3>3. DirEndsWord(wasm_file)
      BY <2>10, NoneIsEnough
    <3>4. a[Len(a)] # DirOption
      BY <2>1, <2>4, <3>0
    <3>5. DirEndsWord(a \o wasm_file)
      BY <2>4, <3>1, <3>3, <3>4, DirConcat
    <3>6. (a \o wasm_file)[Len(a \o wasm_file)] # DirOption
      <4>1. /\ Len(a \o wasm_file) = Len(a) + Len(wasm_file) /\ Len(wasm_file) \in Nat /\ Len(a) = k
            /\ DOMAIN wasm_file = 1..Len(wasm_file)
            /\ \A i \in 1..(Len(a) + Len(wasm_file)) :
                 (a \o wasm_file)[i] = IF i <= Len(a) THEN a[i] ELSE wasm_file[i - Len(a)]
        BY <2>4, ConcatProperties, LenProperties
      <4>2. CASE Len(wasm_file) = 0
        BY <3>4, <4>1, <4>2
      <4>3. CASE Len(wasm_file) # 0
        <5>1. wasm_file[Len(wasm_file)] # DirOption
          BY <2>10, <4>1, <4>3 DEF Has
        <5>2. /\ k + Len(wasm_file) \in 1..(Len(a) + Len(wasm_file))
              /\ ~(k + Len(wasm_file) <= Len(a))
              /\ (k + Len(wasm_file)) - Len(a) = Len(wasm_file)
          BY <4>1, <4>3
        <5>3. QED
          BY <4>1, <5>1, <5>2
      <4>4. QED
        BY <4>2, <4>3
    <3>7. DirEndsWord((a \o wasm_file) \o b)
      BY <2>5, <2>7, <3>2, <3>5, <3>6, DirConcat
    <3>8. ASSUME Has(c, DirOption) PROVE Has(a, DirOption) \/ Has(b, DirOption)
      <4>1. PICK i \in DOMAIN c : c[i] = DirOption
        BY <3>8 DEF Has
      <4>2. CASE i <= k
        BY <2>3, <2>4, <2>6, <4>1, <4>2 DEF Has
      <4>3. CASE i > pos
        <5>1. i - pos \in 1..(n - pos) /\ pos + (i - pos) = i
          BY <2>3, <4>1, <4>3
        <5>2. b[i - pos] = DirOption
          BY <2>5, <4>1, <5>1
        <5>3. QED
          BY <2>6, <5>1, <5>2 DEF Has
      <4>4. CASE k < i /\ i <= pos
        <5>1. i # pos /\ i # Len(c)
          BY <2>2, <2>3, <3>0, <4>1, <4>4 DEF n
        <5>2. c[i + 1] = Space
          BY <2>10, <4>1, <5>1 DEF DirEndsWord
        <5>3. i + 1 \in 1..pos /\ ~(i + 1 <= k)
          BY <2>3, <4>1, <4>4, <5>1
        <5>4. QED
          BY <2>1, <5>2, <5>3
      <4>5. QED
        BY <2>3, <4>1, <4>2, <4>3, <4>4
    <3>9. Has(c, DirOption) => Has((a \o wasm_file) \o b, DirOption)
      BY <2>4, <2>5, <2>7, <3>8, HasConcat
    <3>10. QED
      BY <3>7, <3>9
  <2>11. QED
    BY <2>1, <2>7, <2>9, <2>10 DEF a, b, n
<1>3. QED
  BY <1>1, <1>2

LEMMA EmptyJoined ==
  ASSUME NEW ws \in Seq(Seq(Piece)), Len(ws) = 1
  PROVE  Joined(ws) = ws[1]
<1>1. ws # <<>> /\ ws[1] \in Seq(Piece)
  BY EmptySeq, ElementOfSeq
<1>2. Line(ws) \in Seq(Seq(Piece)) /\ Len(Line(ws)) = 0
  <2>1. Line(ws) \in Seq(Seq(Piece)) /\ Len(Line(ws)) = Len(ws) - 1
    BY <1>1, JoinedType
  <2>2. QED
    BY <2>1
<1>3. Line(ws) = <<>> /\ FlattenSeq(Line(ws)) = Line(ws)
  BY <1>2, EmptySeq DEF FlattenSeq
<1>4. <<>> \o ws[1] = ws[1]
  BY <1>1, ConcatEmptySeq
<1>5. QED
  BY <1>3, <1>4 DEF Joined, Last

LEMMA JoinedWasm ==
  ASSUME NEW ws \in Seq(Seq(Piece)), ws # <<>>, ~Has(ws[1], WasmSuffix)
  PROVE  WasmAfterSpace(Joined(ws))
<1>1. Len(ws) \in Nat \ {0}
  BY EmptySeq
<1>2. CASE Len(ws) = 1
  BY <1>2, EmptyJoined, NoneIsEnough
<1>3. CASE Len(ws) # 1
  <2> DEFINE line == Line(ws)
             T == {s \in Seq(Piece) : WasmAfterSpace(s) /\ Has(s, Space)}
  <2>0. line \in Seq(Seq(Piece)) /\ Len(line) = Len(ws) - 1 /\ Last(ws) \in Seq(Piece)
        /\ \A k \in 1..(Len(ws) - 1) : line[k] = Append(ws[k], Space)
    BY JoinedType
  <2>1. line \in Seq(Seq(Piece)) /\ Len(line) = Len(ws) - 1 /\ line[1] = Append(ws[1], Space)
        /\ Last(ws) \in Seq(Piece) /\ 1 \in 1..Len(ws)
    <3>1. 1 \in 1..(Len(ws) - 1) /\ 1 \in 1..Len(ws)
      <4> DEFINE n == Len(ws)
      <4>1. n \in Nat /\ n # 0 /\ n # 1
        BY <1>1, <1>3
      <4> HIDE DEF n
      <4>2. 1 \in 1..(n - 1) /\ 1 \in 1..n
        BY ONLY <4>1
      <4>3. QED
        BY <4>2 DEF n
    <3>2. QED
      BY <2>0, <3>1
  <2>2. line[1] \in T
    <3> DEFINE sp == <<Space>>
               first == ws[1]
    <3>1. first \in Seq(Piece) /\ Space \in Piece /\ sp \in Seq(Piece) /\ Has(sp, Space)
          /\ ~Has(sp, WasmSuffix)
      BY <2>1, SpaceAlone, ElementOfSeq DEF Piece
    <3>2. line[1] = first \o sp
      BY <2>1, <3>1, AppendIsConcat
    <3>3. WasmAfterSpace(first)
      BY NoneIsEnough
    <3> HIDE DEF sp, first
    <3>4. WasmAfterSpace(first \o sp) /\ Has(first \o sp, Space) /\ first \o sp \in Seq(Piece)
      BY <3>1, <3>3, WasmConcat, HasConcat, ConcatProperties
    <3>5. QED
      BY <3>2, <3>4
  <2>3. \A a \in T, b \in Seq(Piece) : a \o b \in T
    <3>1. ASSUME NEW a \in T, NEW b \in Seq(Piece) PROVE a \o b \in T
      <4>1. a \in Seq(Piece) /\ WasmAfterSpace(a) /\ Has(a, Space)
        OBVIOUS
      <4>2. WasmAfterSpace(a \o b) /\ Has(a \o b, Space) /\ a \o b \in Seq(Piece)
        BY <4>1, WasmConcat, HasConcat, ConcatProperties
      <4>3. QED
        BY <4>2
    <3>2. QED
      BY <3>1
  <2>4. Len(line) # 0 /\ \A k \in 1..Len(line) : line[k] \in Seq(Piece)
    BY <1>1, <1>3, <2>1, ElementOfSeq
  <2>5. FlattenSeq(line) \in T
    <3> HIDE DEF line, T
    <3> DEFINE U == Seq(Piece)
    <3>1. /\ \A k \in 1..Len(line) : line[k] \in U
          /\ \A a \in T, b \in U : a \o b \in T
      BY <2>3, <2>4
    <3> HIDE DEF U
    <3>2. QED
      BY <2>1, <2>2, <2>4, <3>1, FlattenInto
  <2>6. FlattenSeq(line) \o Last(ws) \in T
    BY <2>1, <2>3, <2>5
  <2>7. QED
    BY <2>6 DEF Joined
<1>4. QED
  BY <1>2, <1>3

LEMMA LastConcat ==
  ASSUME NEW S, NEW a \in Seq(S), NEW b \in Seq(S)
  PROVE  (a \o b)[Len(a \o b)] = IF Len(b) = 0 THEN a[Len(a)] ELSE b[Len(b)]
<1>1. CASE Len(b) = 0
  BY <1>1, EmptySeq, ConcatEmptySeq
<1>2. CASE Len(b) # 0
  <2>1. Len(a) \in Nat /\ Len(b) \in Nat
    BY LenProperties
  <2>2. /\ Len(a \o b) = Len(a) + Len(b)
        /\ \A i \in 1..(Len(a) + Len(b)) : (a \o b)[i] = IF i <= Len(a) THEN a[i] ELSE b[i - Len(a)]
    BY ConcatProperties
  <2> DEFINE n == Len(a) + Len(b)
  <2>3. n \in 1..n /\ ~(n <= Len(a)) /\ n - Len(a) = Len(b)
    BY <1>2, <2>1
  <2>4. QED
    BY <1>2, <2>2, <2>3
<1>3. QED
  BY <1>1, <1>2

LEMMA JoinedDir ==
  ASSUME NEW ws \in Seq(Seq(Piece)), ws # <<>>,
         \A k \in DOMAIN ws : Has(ws[k], DirOption) => ws[k] = <<DirOption>>
  PROVE  DirEndsWord(Joined(ws))
<1>1. Len(ws) \in Nat \ {0} /\ DOMAIN ws = 1..Len(ws)
  BY EmptySeq, LenProperties
<1>2. ASSUME NEW k \in DOMAIN ws PROVE ws[k] \in Seq(Piece) /\ DirEndsWord(ws[k])
  <2>1. ws[k] \in Seq(Piece)
    BY <1>1, ElementOfSeq
  <2>2. CASE Has(ws[k], DirOption)
    <3>1. ws[k] = <<DirOption>>
      BY <2>2
    <3>2. DirEndsWord(<<DirOption>>)
      BY DEF DirEndsWord
    <3>3. QED
      BY <2>1, <3>1, <3>2
  <2>3. QED
    BY <2>1, <2>2, NoneIsEnough
<1>3. CASE Len(ws) = 1
  BY <1>1, <1>2, <1>3, EmptyJoined
<1>4. CASE Len(ws) # 1
  <2> DEFINE line == Line(ws)
             T == {s \in Seq(Piece) : DirEndsWord(s) /\ (Len(s) = 0 \/ s[Len(s)] # DirOption)}
  <2>1. line \in Seq(Seq(Piece)) /\ Len(line) = Len(ws) - 1 /\ Last(ws) \in Seq(Piece)
        /\ \A k \in 1..(Len(ws) - 1) : line[k] = Append(ws[k], Space)
    BY <1>1, <1>4, JoinedType
  <2>2. ASSUME NEW k \in 1..Len(line) PROVE line[k] \in T
    <3> DEFINE sp == <<Space>>
               w == ws[k]
    <3>1. w \in Seq(Piece) /\ DirEndsWord(w)
      <4>1. k \in DOMAIN ws
        BY <1>1, <2>1
      <4>2. QED
        BY <1>2, <4>1
    <3>2. Space \in Piece /\ sp \in Seq(Piece) /\ Len(sp) = 1 /\ sp[1] = Space
          /\ ~Has(sp, DirOption) /\ Space # DirOption
      BY SpaceAlone, RuntimeCommandConstants DEF Piece
    <3>3. line[k] = w \o sp
      BY <1>1, <2>1, <3>1, <3>2, AppendIsConcat
    <3> HIDE DEF sp, w
    <3>4. DirEndsWord(sp)
      BY <3>2, NoneIsEnough
    <3>5. w \o sp \in Seq(Piece) /\ DirEndsWord(w \o sp)
      BY <3>1, <3>2, <3>4, DirConcat, ConcatProperties
    <3>6. (w \o sp)[Len(w \o sp)] # DirOption
      <4>0. (w \o sp)[Len(w \o sp)] = IF Len(sp) = 0 THEN w[Len(w)] ELSE sp[Len(sp)]
        BY <3>1, <3>2, LastConcat
      <4>1. (w \o sp)[Len(w \o sp)] = sp[Len(sp)]
        BY <3>2, <4>0
      <4>2. QED
        BY <3>2, <4>1
    <3>7. QED
      BY <3>3, <3>5, <3>6
  <2>3. \A a \in T, b \in T : a \o b \in T
    <3>1. ASSUME NEW a \in T, NEW b \in T PROVE a \o b \in T
      <4>1. /\ a \in Seq(Piece) /\ DirEndsWord(a) /\ (Len(a) = 0 \/ a[Len(a)] # DirOption)
            /\ b \in Seq(Piece) /\ DirEndsWord(b) /\ (Len(b) = 0 \/ b[Len(b)] # DirOption)
        OBVIOUS
      <4>2. DirEndsWord(a \o b) /\ a \o b \in Seq(Piece)
        BY <4>1, DirConcat, ConcatProperties
      <4>3. Len(a \o b) = 0 \/ (a \o b)[Len(a \o b)] # DirOption
        <5>1. CASE Len(a) = 0 /\ Len(b) = 0
          BY <4>1, <5>1, ConcatProperties
        <5>2. CASE ~(Len(a) = 0 /\ Len(b) = 0)
          BY <4>1, <5>2, LastConcat
        <5>3. QED
          BY <5>1, <5>2
      <4>4. QED
        BY <4>2, <4>3
    <3>2. QED
      BY <3>1
  <2>4. Len(line) # 0 /\ 1 \in 1..Len(line)
    BY <1>1, <1>4, <2>1
  <2>5. FlattenSeq(line) \in T
    <3>1. line[1] \in T /\ \A k \in 1..Len(line) : line[k] \in T
      BY <2>2, <2>4
    <3> HIDE DEF line, T
    <3>2. QED
      BY <2>1, <2>3, <2>4, <3>1, FlattenInto
  <2>6. DirEndsWord(Last(ws))
    BY <1>1, <1>2 DEF Last
  <2>7. DirEndsWord(FlattenSeq(line) \o Last(ws))
    <3> DEFINE a == FlattenSeq(line)
    <3>1. a \in Seq(Piece) /\ DirEndsWord(a) /\ (Len(a) = 0 \/ a[Len(a)] # DirOption)
      BY <2>5
    <3> HIDE DEF a
    <3>2. QED
      BY <2>1, <2>6, <3>1, DirConcat DEF a
  <2>8. QED
    BY <2>7 DEF Joined
<1>5. QED
  BY <1>3, <1>4

-----------------------------------------------------------------------------
(***************************************************************************)
(* The session                                                             *)
(***************************************************************************)
LEMMA CommandModified ==
  ASSUME NEW cmd \in Seq(Piece), NEW wasm_file \in Seq(Piece), WordStartFound(cmd)
  PROVE  /\ modify_runtime_command(cmd, wasm_file) \in Seq(Piece)
         /\ WasmAfterSpace(cmd) => WasmAfterSpace(modify_runtime_command(cmd, wasm_file))
         /\ DirEndsWord(cmd) /\ ~Has(wasm_file, DirOption) =>
              /\ DirEndsWord(modify_runtime_command(cmd, wasm_file))
              /\ OpensWorkingDirectory(modify_runtime_command(cmd, wasm_file))
<1> DEFINE c == WithDir(cmd)
           d == WithFile(c, wasm_file)
<1>1. /\ c \in Seq(Piece)
      /\ WasmAfterSpace(cmd) => WasmAfterSpace(c)
      /\ Has(c, DirOption)
      /\ DirEndsWord(cmd) => DirEndsWord(c)
  BY WithDirKeeps
<1>2. Has(c, WasmSuffix) => SpacesBefore(c, Find(c, WasmSuffix)) # {}
  BY DEF WordStartFound
<1> HIDE DEF c
<1>3. /\ d \in Seq(Piece)
      /\ WasmAfterSpace(c) => WasmAfterSpace(d)
      /\ DirEndsWord(c) /\ ~Has(wasm_file, DirOption) =>
           /\ DirEndsWord(d)
           /\ Has(c, DirOption) => Has(d, DirOption)
  BY <1>1, <1>2, WithFileKeeps
<1>4. modify_runtime_command(cmd, wasm_file) = d
  BY DEF modify_runtime_command, c
<1> HIDE DEF d
<1>5. ASSUME DirEndsWord(d), Has(d, DirOption) PROVE OpensWorkingDirectory(d)
  <2>1. Find(d, DirOption) \in 1..Len(d) /\ d[Find(d, DirOption)] = DirOption
    BY <1>3, <1>5, FindIs
  <2>2. Find(d, DirOption) \in DOMAIN d
    BY <1>3, <2>1, LenProperties
  <2>3. QED
    BY <1>5, <2>1, <2>2 DEF OpensWorkingDirectory, DirEndsWord
<1>6. QED
  BY <1>1, <1>3, <1>4, <1>5

LEMMA WordsType ==
  ASSUME NEW ws \in Seq(Word)
  PROVE  /\ ws \in Seq(Seq(Piece))
         /\ \A k \in 1..Len(ws) : ws[k] \in Word /\ ws[k] \in Seq(Piece) /\ ~Has(ws[k], Space)
<1>1. ASSUME NEW w \in Word PROVE w \in Seq(Piece) /\ ~Has(w, Space)
  <2>1. w \in Seq(Piece \ {Space})
    BY DEF Word
  <2>2. w \in Seq(Piece)
    BY <2>1, SeqMonotonic
  <2>3. \A k \in DOMAIN w : w[k] # Space
    BY <2>1, LenProperties, ElementOfSeq
  <2>4. QED
    BY <2>2, <2>3 DEF Has
<1>2. Word \subseteq Seq(Piece)
  BY <1>1
<1>3. ws \in Seq(Seq(Piece))
  BY <1>2, SeqMonotonic
<1>4. \A k \in 1..Len(ws) : ws[k] \in Word
  BY ElementOfSeq
<1>5. QED
  BY <1>1, <1>3, <1>4

LEMMA InitType ==
  ASSUME Init PROVE TypeOK
<1>1. words # <<>> => Joined(words) \in Seq(Piece)
  BY InspectConstants, WordsType, JoinedType DEF Init
<1>2. command \in Seq(Piece)
  BY <1>1, EmptySeq DEF Init
<1>3. 1 \in 1..MaxInspections
  BY InspectConstants
<1>4. QED
  BY <1>2, <1>3 DEF Init, TypeOK, InspectState, Name, CommandName, Content

\* The run leaves values of their types.
LEMMA RunType ==
  ASSUME TypeOK, NEW image \in Content, Run(image)
  PROVE  /\ cache' \in Content
         /\ ran' \in [image : Content, reached : BOOLEAN, code : {0, 1, 10, 12}]
<1>1. cache \in Content /\ Nothing \in Content
  BY DEF TypeOK, Content
<1>2. CASE /\ cache' = IF OpensWorkingDirectory(command') THEN image ELSE cache
           /\ ran' = [image |-> image, reached |-> TRUE, code |-> 10]
  <2>1. cache' = image \/ cache' = cache
    BY <1>2, Zenon
  <2>2. QED
    BY <1>1, <1>2, <2>1
<1>5. CASE /\ cache' \in {cache}
                        \cup (IF OpensWorkingDirectory(command') THEN {Nothing, image} ELSE {})
           /\ ran' = [image |-> image, reached |-> TRUE, code |-> 12]
  <2>1. cache' \in {cache, Nothing, image}
    BY <1>5
  <2>2. QED
    BY <1>1, <1>5, <2>1
<1>3. CASE /\ \E code \in IF image = Nothing THEN {1} ELSE {0, 10} :
                ran' = [image |-> image, reached |-> FALSE, code |-> code]
           /\ UNCHANGED cache
  <2>1. PICK code \in {0, 1, 10, 12} : ran' = [image |-> image, reached |-> FALSE, code |-> code]
    BY <1>3
  <2>2. QED
    BY <1>1, <1>3, <2>1
<1>4. QED
  BY <1>2, <1>3, <1>5, Zenon DEF Run

LEMMA NextType ==
  ASSUME TypeOK, [Next]_vars PROVE TypeOK'
<1> USE DEF TypeOK, input, files
<1>0. CASE Start
  BY <1>0 DEF Start, InspectState
<1>1. CASE Idle
  BY <1>1 DEF Idle, InspectState
<1>2. CASE Listing
  BY <1>2 DEF Listing, InspectState
<1>3. CASE Positioning
  BY <1>3 DEF Positioning, ReadPosition, InspectState, Name
<1>4. CASE Commanding
  BY <1>4 DEF Commanding, InspectState, CommandName
<1>5. CASE PreparationFails
  BY <1>5 DEF PreparationFails
<1>6. CASE InsertionFails
  BY <1>6 DEF InsertionFails
<1>7. CASE Instrumenting
  BY <1>7 DEF Instrumenting, InspectState, Content
<1>8. CASE NoCommand
  BY <1>8 DEF NoCommand, InspectState, Content
<1>9. CASE CommandFails
  BY <1>9 DEF CommandFails
<1>10. CASE Executing
  <2>1. cache' \in Content /\ ran' \in [image : Content, reached : BOOLEAN, code : {0, 1, 10, 12}]
    BY <1>10, RunType DEF Executing
  <2>2. command' \in Seq(Piece)
    <3>1. outfile \in Seq(Piece)
      BY InspectConstants
    <3>2. QED
      BY <1>10, <3>1, CommandModified DEF Executing
  <2>3. printed' \in Content
    BY <1>10, <2>1 DEF Executing, Content
  <2>4. QED
    BY <1>10, <2>1, <2>2, <2>3 DEF Executing, InspectState
<1>11. CASE End
  <2>1. MaxInspections \in Nat
    BY InspectConstants
  <2>2. CASE Continue
    BY <1>11, <2>1, <2>2 DEF End, Continue, InspectState, Content
  <2>3. CASE ~Continue
    BY <1>11, <2>3 DEF End, InspectState
  <2>4. QED
    BY <2>2, <2>3
<1>12. CASE Ended
  BY <1>12 DEF Ended, vars
<1>13. CASE UNCHANGED vars
  BY <1>13 DEF vars
<1>14. QED
  BY <1>0, <1>1, <1>2, <1>3, <1>4, <1>5, <1>6, <1>7, <1>8, <1>9, <1>10, <1>11, <1>12, <1>13
     DEF Next

(***************************************************************************)
(* Every value keeps to its type, whatever the commands of the user are:   *)
(* also the command that every inspection edits once more.                 *)
(***************************************************************************)
THEOREM TypeCorrect == Spec => []TypeOK
<1>1. Init => TypeOK
  BY InitType
<1>2. TypeOK /\ [Next]_vars => TypeOK'
  BY NextType
<1>3. QED
  BY <1>1, <1>2, PTL DEF Spec

(***************************************************************************)
(* In every instrumented program the calls of WASI go to the imports they  *)
(* are meant for, for all programs whose names are not tangled.            *)
(***************************************************************************)
THEOREM AlwaysCallsWASI == Spec => []HelpersCallWASI
<1>1. TypeOK => HelpersCallWASI
  <2>1. ASSUME TypeOK, Untangled(program) PROVE CallsWhatIsMeant(program)
    <3>1. program.imports \in Seq(Import)
      BY <2>1, InspectConstants DEF TypeOK, Input
    <3>2. QED
      BY <2>1, <3>1, UntangledCalls
  <2>2. QED
    BY <2>1 DEF HelpersCallWASI
<1>2. QED
  BY <1>1, TypeCorrect, PTL

-----------------------------------------------------------------------------
(***************************************************************************)
(* Why the tool ends by an assertion                                       *)
(***************************************************************************)
AtInput == {"idle", "listing", "positioning", "commanding", "instrumenting"}

\* As long as the output does not replace it the input file is what it was at the
\* start, and a position has been looked at before it is used.  Where a session is
\* can be told from the module: it is what has been read until the code of this
\* inspection is in it.  A command whose first word has no ".wasm" always has a
\* space before each.
AbortInv ==
  /\ words = <<>> => command = <<>>
  /\ words # <<>> /\ ~Has(words[1], WasmSuffix) => WasmAfterSpace(command)
  /\ state \in {"commanding", "instrumenting"} =>
       validate_inspect_pos(inspect_func_name, inspect_line_num)
  /\ infile_content \in {Original, Before, Nothing} \/ outfile = infile
  /\ infile_content <= inspection
  /\ state \in InspectState => infile_content # Nothing
  /\ state = "start" => module = Nothing
  /\ state \in {"start"} \cup AtInput => infile_content < inspection
  /\ state \in {"executing", "end"} => module = inspection
  /\ AbortIsExplained

LEMMA AbortInit ==
  ASSUME Init PROVE AbortInv
<1>1. ASSUME words # <<>>, ~Has(words[1], WasmSuffix) PROVE WasmAfterSpace(command)
  <2>1. command = Joined(words) /\ words \in Seq(Seq(Piece))
    BY <1>1, InspectConstants, WordsType DEF Init
  <2>2. QED
    BY <1>1, <2>1, JoinedWasm
<1>2. infile_content <= inspection
  <2>1. infile_content \in {Original, Before, Nothing} /\ inspection = 1
    BY DEF Init
  <2>2. QED
    BY <2>1 DEF Original, Before, Nothing
<1>3. infile_content < inspection
  <2>1. infile_content \in {Original, Before, Nothing} /\ inspection = 1
    BY DEF Init
  <2>2. QED
    BY <2>1 DEF Original, Before, Nothing
<1>4. QED
  BY <1>1, <1>2, <1>3 DEF Init, AbortInv, AbortIsExplained, AtInput, InspectState

\* A command whose words are found is run, if the first word has no ".wasm".
LEMMA WordStarts ==
  ASSUME NEW cmd \in Seq(Piece), WasmAfterSpace(cmd)
  PROVE  WordStartFound(cmd)
<1> DEFINE c == WithDir(cmd)
<1>1. c \in Seq(Piece) /\ WasmAfterSpace(c)
  BY WithDirKeeps
<1>2. ASSUME Has(c, WasmSuffix) PROVE SpacesBefore(c, Find(c, WasmSuffix)) # {}
  <2> DEFINE k == Find(c, WasmSuffix)
  <2>1. k \in 1..Len(c) /\ c[k] = WasmSuffix
    BY <1>1, <1>2, FindIs
  <2>2. k \in DOMAIN c /\ k \in Nat
    BY <1>1, <2>1, LenProperties
  <2> HIDE DEF k, c
  <2>3. PICK j \in 1..(k - 1) : c[j] = Space
    BY <1>1, <2>1, <2>2 DEF WasmAfterSpace
  <2>4. j \in 1..k
    BY <2>2
  <2>5. j \in SpacesBefore(c, k)
    BY <2>3, <2>4 DEF SpacesBefore
  <2>6. QED
    BY <2>5 DEF k
<1>3. QED
  BY <1>2 DEF WordStartFound

\* What a step that does not touch the files and the command leaves of the invariant
Standing ==
  /\ words = <<>> => command = <<>>
  /\ words # <<>> /\ ~Has(words[1], WasmSuffix) => WasmAfterSpace(command)
  /\ infile_content \in {Original, Before, Nothing} \/ outfile = infile
  /\ infile_content <= inspection

\* An assertion fails in this step.
LEMMA AbortStep ==
  ASSUME AbortInv, UNCHANGED <<words, command, outfile, inspection, files>>, state' = "aborted",
         AbortIsExplained'
  PROVE  AbortInv'
<1>1. Standing /\ UNCHANGED <<words, command, outfile, inspection, infile_content>>
  BY DEF AbortInv, Standing, files
<1>2. Standing'
  BY <1>1 DEF Standing
<1>3. QED
  BY <1>2 DEF AbortInv, Standing, AtInput, InspectState

LEMMA AbortNext ==
  ASSUME TypeOK, AbortInv, [Next]_vars
  PROVE  AbortInv'
<1> USE DEF input, files, AtInput, InspectState
<1>a. /\ inspection \in Nat /\ inspection > 0 /\ infile_content \in Int
      /\ Nothing < 0 /\ Before < 0 /\ Original = 0
      /\ Nothing # Before
  BY InspectConstants DEF TypeOK, Content, Original, Nothing, Before
<1>0. CASE Start
  <2>1. Standing /\ UNCHANGED <<words, command, outfile, inspection, infile_content>>
    BY <1>0 DEF Start, AbortInv, Standing
  <2>2. Standing'
    BY <2>1 DEF Standing
  <2>3. CASE infile_content # Nothing /\ module' = infile_content /\ state' = "idle"
    <3>1. infile_content < inspection /\ (infile_content \in {Original, Before} \/ outfile = infile)
      <4>1. state = "start"
        BY <1>0 DEF Start
      <4>2. infile_content < inspection
        BY <4>1 DEF AbortInv
      <4>3. infile_content \in {Original, Before} \/ outfile = infile
        BY <2>1, <2>3 DEF Standing
      <4>4. QED
        BY <4>2, <4>3
    <3>2. AbortIsExplained'
      BY <2>1, <2>3, <3>1 DEF AbortIsExplained
    <3>3. QED
      BY <2>1, <2>2, <2>3, <3>1, <3>2 DEF AbortInv, Standing
  <2>4. CASE infile_content = Nothing /\ state' \in {"aborted", "exited"} /\ UNCHANGED module
    <3>1. module' = Nothing /\ infile_content' = Nothing
      BY <1>0, <2>1, <2>4 DEF Start, AbortInv
    <3>2. AbortIsExplained'
      BY <2>4, <3>1 DEF AbortIsExplained
    <3>3. QED
      BY <2>2, <2>4, <3>2 DEF AbortInv, Standing
  <2>5. QED
    BY <1>0, <2>3, <2>4 DEF Start
<1>1. CASE Idle
  BY <1>1 DEF Idle, AbortInv, AbortIsExplained
<1>2. CASE Listing
  BY <1>2 DEF Listing, AbortInv, AbortIsExplained
<1>3. CASE Positioning
  BY <1>3 DEF Positioning, AbortInv, AbortIsExplained
<1>4. CASE Commanding
  BY <1>4 DEF Commanding, AbortInv, AbortIsExplained
<1>5. CASE PreparationFails
  <2>1. module = infile_content /\ module \notin {Nothing, inspection} /\ inspection' = inspection
        /\ (module \in {Original, Before} \/ outfile = infile)
    BY <1>5, <1>a DEF PreparationFails, AbortInv, AbortIsExplained
  <2>2. PreparingExplained
    <3>1. CASE module # Original
      BY <2>1, <3>1 DEF PreparingExplained
    <3>2. CASE module = Original
      <4>1. program \in Programs /\ ~Prepares(program)
        BY <1>5, <3>2 DEF PreparationFails, Preparable, TypeOK
      <4>2. program.imports \in Seq(Import)
        BY <4>1, InspectConstants DEF Input
      <4>3. QED
        BY <4>1, <4>2, WellNamedPrepares DEF PreparingExplained
    <3>3. QED
      BY <3>1, <3>2
  <2>3. UNCHANGED PreparingExplained /\ module' = module
    BY <1>5 DEF PreparationFails, PreparingExplained
  <2>4. AbortIsExplained'
    BY <1>5, <2>1, <2>2, <2>3 DEF PreparationFails, AbortIsExplained
  <2>5. QED
    BY <1>5, <2>4, AbortStep DEF PreparationFails
<1>6. CASE InsertionFails
  <2>1. module = Original /\ module \notin {Nothing, inspection} /\ inspection' = inspection
    BY <1>6, <1>a DEF InsertionFails
  <2>2. InsertingExplained
    <3>1. inspect_func_name \in Function /\ inspect_line_num <= Size[inspect_func_name]
      BY <1>6 DEF InsertionFails, AbortInv, validate_inspect_pos
    <3>2. CASE ~(inspect_line_num <= SizeAgain[inspect_func_name])
      <4>1. inspect_line_num \in Nat
        BY InspectConstants DEF TypeOK
      <4>2. /\ Listed[inspect_func_name] \in Nat /\ Size[inspect_func_name] \in Nat
            /\ SizeAgain[inspect_func_name] \in Nat
            /\ Listed[inspect_func_name] <= SizeAgain[inspect_func_name]
        BY <3>1, InspectConstants
      <4>3. inspect_line_num \in (Listed[inspect_func_name] + 1)..Size[inspect_func_name]
        BY <3>1, <3>2, <4>1, <4>2
      <4>4. QED
        BY <4>3 DEF InsertingExplained
    <3>3. CASE inspect_line_num <= SizeAgain[inspect_func_name]
      BY <1>6, <3>3 DEF InsertionFails, Inserts, TakesLocals, InsertingExplained
    <3>4. QED
      BY <3>2, <3>3
  <2>3. UNCHANGED InsertingExplained /\ module' = module
    BY <1>6 DEF InsertionFails, InsertingExplained
  <2>4. AbortIsExplained'
    BY <1>6, <2>1, <2>2, <2>3 DEF InsertionFails, AbortIsExplained
  <2>5. QED
    BY <1>6, <2>4, AbortStep DEF InsertionFails
<1>7. CASE Instrumenting
  <2>1. /\ infile_content' = infile_content \/ (infile_content' = inspection /\ outfile = infile)
        /\ UNCHANGED <<words, command, outfile, inspection>> /\ module' = inspection
        /\ state' \in {"executing", "exited"}
    BY <1>7 DEF Instrumenting
  <2>2. /\ infile_content' \in {Original, Before, Nothing} \/ outfile' = infile
        /\ infile_content' <= inspection' /\ infile_content' # Nothing
    BY <1>7, <1>a, <2>1 DEF Instrumenting, AbortInv
  <2>3. AbortIsExplained'
    BY <2>1 DEF AbortIsExplained
  <2>4. QED
    BY <2>1, <2>2, <2>3 DEF AbortInv
<1>8. CASE NoCommand
  BY <1>8 DEF NoCommand, AbortInv, AbortIsExplained
<1>9. CASE CommandFails
  <2>1. words # <<>> /\ command \in Seq(Piece) /\ ~WordStartFound(command)
    BY <1>9 DEF CommandFails, AbortInv, TypeOK
  <2>2. Has(words[1], WasmSuffix)
    BY <2>1, WordStarts DEF AbortInv
  <2>3. module = inspection /\ UNCHANGED <<module, inspection, words>>
    BY <1>9 DEF CommandFails, AbortInv
  <2>4. AbortIsExplained'
    BY <1>9, <2>1, <2>2, <2>3 DEF CommandFails, AbortIsExplained, ExecutingExplained
  <2>5. QED
    BY <1>9, <2>4, AbortStep DEF CommandFails
<1>10. CASE Executing
  <2>1. outfile \in Seq(Piece) /\ command \in Seq(Piece)
    BY InspectConstants DEF TypeOK
  <2>2. words # <<>>
    BY <1>10 DEF Executing, AbortInv
  <2>3. ~Has(words[1], WasmSuffix) => WasmAfterSpace(command')
    BY <1>10, <2>1, <2>2, CommandModified DEF Executing, AbortInv
  <2>4. /\ UNCHANGED <<program, inspect_command, words, outfile, inspection, module, infile_content>>
        /\ module = inspection /\ state = "executing"
        /\ state' = "end" \/ (ReplayMayFail(printed') /\ state' = "aborted")
    BY <1>10 DEF Executing, AbortInv
  <2>5. AbortIsExplained'
    <3>1. ASSUME ReplayMayFail(printed') PROVE ExecutingExplained'
      BY <2>4, <3>1 DEF ReplayMayFail, ExecutingExplained
    <3>2. QED
      BY <2>4, <3>1 DEF AbortIsExplained
  <2>6. infile_content # Nothing
    BY <2>4 DEF AbortInv
  <2>7. QED
    BY <2>2, <2>3, <2>4, <2>5, <2>6 DEF AbortInv
<1>11. CASE End
  <2>1. CASE Continue
    <3>1. /\ UNCHANGED <<words, command, outfile, infile_content>>
          /\ state' = "positioning" /\ module' = infile_content /\ inspection' = inspection + 1
      BY <1>11, <2>1 DEF End, Continue
    <3>2. infile_content # Nothing /\ infile_content <= inspection
      BY <1>11 DEF End, AbortInv
    <3>3. infile_content' < inspection' /\ infile_content' <= inspection'
      BY <1>a, <3>1, <3>2
    <3>4. infile_content \in {Original, Before} \/ outfile = infile
      BY <3>2 DEF AbortInv
    <3>5. AbortIsExplained'
      BY <3>1, <3>4 DEF AbortIsExplained
    <3>6. QED
      BY <3>1, <3>2, <3>3, <3>4, <3>5 DEF AbortInv
  <2>2. CASE ~Continue
    <3>1. /\ UNCHANGED <<words, command, outfile, infile_content, inspection, module>>
          /\ state = "end" /\ state' \in {"end", "quit"}
      BY <1>11, <2>2 DEF End
    <3>2. QED
      BY <3>1 DEF AbortInv, AbortIsExplained
  <2>3. QED
    BY <2>1, <2>2
<1>12. CASE UNCHANGED vars
  <2>1. UNCHANGED AbortIsExplained
    BY <1>12 DEF vars, AbortIsExplained, PreparingExplained, InsertingExplained, ExecutingExplained
  <2>2. QED
    BY <1>12, <2>1 DEF vars, AbortInv
<1>13. CASE Ended
  BY <1>12, <1>13 DEF Ended
<1>14. QED
  BY <1>0, <1>1, <1>2, <1>3, <1>4, <1>5, <1>6, <1>7, <1>8, <1>9, <1>10, <1>11, <1>12, <1>13
     DEF Next

(***************************************************************************)
(* Every inspection starts from what the input file held at the start      *)
(* unless the output has replaced it, and an assertion that ends the tool  *)
(* has one of the reasons that are named for the place where it is: for    *)
(* all programs, commands, entries and files that earlier sessions left.   *)
(***************************************************************************)
THEOREM AbortAlwaysExplained == Spec => []AbortIsExplained
<1>1. Init => TypeOK /\ AbortInv
  BY InitType, AbortInit
<1>2. TypeOK /\ AbortInv /\ [Next]_vars => TypeOK' /\ AbortInv'
  BY NextType, AbortNext
<1>3. AbortInv => AbortIsExplained
  BY DEF AbortInv
<1>4. QED
  BY <1>1, <1>2, <1>3, PTL DEF Spec

-----------------------------------------------------------------------------
(***************************************************************************)
(* What is printed                                                         *)
(***************************************************************************)
StaleInv ==
  /\ words = <<>> => command = <<>>
  /\ words # <<>> /\ ~OpensAnother => DirEndsWord(command)
  /\ StaleIsExplained

LEMMA StaleInit ==
  ASSUME Init PROVE StaleInv
<1>1. ASSUME words # <<>>, ~OpensAnother PROVE DirEndsWord(command)
  <2>1. command = Joined(words) /\ words \in Seq(Seq(Piece))
    BY <1>1, InspectConstants, WordsType DEF Init
  <2>2. \A k \in DOMAIN words : Has(words[k], DirOption) => words[k] = <<DirOption>>
    BY <1>1 DEF OpensAnother
  <2>3. QED
    BY <1>1, <2>1, <2>2, JoinedDir
<1>2. StaleIsExplained
  BY DEF Init, StaleIsExplained
<1>3. QED
  BY <1>1, <1>2 DEF Init, StaleInv

\* The file name has no "--dir=." in it.
LEMMA StaleNext ==
  ASSUME \A o \in Outfiles : ~Has(o, DirOption), TypeOK, StaleInv, [Next]_vars
  PROVE  StaleInv'
<1> USE DEF input, files
<1>0. CASE /\ UNCHANGED <<words, command>>
           /\ state' # "end"
  BY <1>0 DEF StaleInv, StaleIsExplained, OpensAnother
<1>1. CASE Executing
  <2>1. outfile \in Seq(Piece) /\ command \in Seq(Piece) /\ ~Has(outfile, DirOption)
    BY InspectConstants DEF TypeOK
  <2>2. words # <<>> /\ UNCHANGED <<words, outfile_content, inspection>>
    BY <1>1 DEF Executing, StaleInv
  <2>3. ~OpensAnother => DirEndsWord(command') /\ OpensWorkingDirectory(command')
    BY <1>1, <2>1, <2>2, CommandModified DEF Executing, StaleInv
  <2>4. UNCHANGED OpensAnother
    BY <2>2 DEF OpensAnother
  <2>5. ASSUME printed' \notin {Nothing, inspection}, ~OpensAnother
        PROVE  outfile_content # inspection \/ (~ran'.reached /\ ran'.code = 10)
    <3>1. ran'.code = 10 /\ printed' = cache'
      BY <1>1, <2>5 DEF Executing, run_runtime_command
    <3>2. CASE /\ cache' = IF OpensWorkingDirectory(command') THEN outfile_content ELSE cache
               /\ ran' = [image |-> outfile_content, reached |-> TRUE, code |-> 10]
      BY <2>3, <2>5, <3>1, <3>2
    <3>3. CASE ran' = [image |-> outfile_content, reached |-> TRUE, code |-> 12]
      BY <3>1, <3>3
    <3>4. CASE \E code \in IF outfile_content = Nothing THEN {1} ELSE {0, 10} :
                 ran' = [image |-> outfile_content, reached |-> FALSE, code |-> code]
      BY <3>1, <3>4
    <3>5. Run(outfile_content)
      BY <1>1 DEF Executing
    <3>6. QED
      BY <3>2, <3>3, <3>4, <3>5, Zenon DEF Run
  <2>6. StaleIsExplained'
    BY <2>2, <2>4, <2>5 DEF StaleIsExplained
  <2>7. QED
    BY <2>2, <2>3, <2>4, <2>6 DEF StaleInv
<1>2. CASE NoCommand
  BY <1>2 DEF NoCommand, StaleInv, StaleIsExplained, OpensAnother
<1>3. CASE End
  <2>1. CASE state' # "end"
    BY <1>0, <1>3, <2>1 DEF End
  <2>2. CASE state' = "end"
    <3>1. ~Continue
      BY <2>2 DEF Continue
    <3>2. UNCHANGED <<words, command, state, printed, inspection, outfile_content, ran>>
      BY <1>3, <2>2, <3>1 DEF End
    <3>3. QED
      BY <3>2 DEF StaleInv, StaleIsExplained, OpensAnother
  <2>3. QED
    BY <2>1, <2>2
<1>4. CASE UNCHANGED vars
  BY <1>4 DEF vars, StaleInv, StaleIsExplained, OpensAnother
<1>5. CASE Ended
  BY <1>4, <1>5 DEF Ended
<1>6. CASE Idle \/ Listing \/ Positioning \/ Commanding
  BY <1>0, <1>6 DEF Idle, Listing, Positioning, Commanding
<1>7. CASE Start \/ PreparationFails \/ InsertionFails \/ Instrumenting \/ CommandFails
  BY <1>0, <1>7 DEF Start, PreparationFails, InsertionFails, Instrumenting, CommandFails
<1>8. QED
  BY <1>1, <1>2, <1>3, <1>4, <1>5, <1>6, <1>7 DEF Next

(***************************************************************************)
(* What is printed was written by this inspection, or there is one of the  *)
(* three reasons: for all commands, and all output files whose name has no *)
(* "--dir=." in it.  The command opens the working directory in every run, *)
(* however often it has been edited.                                       *)
(***************************************************************************)
THEOREM StaleAlwaysExplained ==
  ASSUME \A o \in Outfiles : ~Has(o, DirOption)
  PROVE  Spec => []StaleIsExplained
<1>1. Init => TypeOK /\ StaleInv
  BY InitType, StaleInit
<1>2. TypeOK /\ StaleInv /\ [Next]_vars => TypeOK' /\ StaleInv'
  BY NextType, StaleNext
<1>3. StaleInv => StaleIsExplained
  BY DEF StaleInv
<1>4. QED
  BY <1>1, <1>2, <1>3, PTL DEF Spec

-----------------------------------------------------------------------------
(***************************************************************************)
(* Commands word by word                                                   *)
(***************************************************************************)
LEMMA Associative ==
  ASSUME NEW S
  PROVE  \A s, t, u \in Seq(S) : (s \o t) \o u = s \o (t \o u)
BY ConcatAssociative

LEMMA FlattenConcat ==
  ASSUME NEW S, NEW ss \in Seq(Seq(S)), NEW tt \in Seq(Seq(S))
  PROVE  FlattenSeq(ss \o tt) = FlattenSeq(ss) \o FlattenSeq(tt)
<1> DEFINE n == Len(tt)
           pre(m) == SubSeq(tt, 1, m)
           Bad == {m \in 0..n : FlattenSeq(ss \o pre(m)) # FlattenSeq(ss) \o FlattenSeq(pre(m))}
<1>1. n \in Nat /\ \A k \in 1..n : tt[k] \in Seq(S)
  BY LenProperties, ElementOfSeq
<1>2. Bad = {}
  <2>1. SUFFICES ASSUME Bad # {} PROVE FALSE
    OBVIOUS
  <2>2. PICK m \in Bad : \A y \in Bad : m <= y
    <3>1. Bad \in SUBSET Nat
      BY <1>1
    <3> HIDE DEF Bad
    <3>2. QED
      BY <2>1, <3>1, Least
  <2>3. m \in 0..n /\ FlattenSeq(ss \o pre(m)) # FlattenSeq(ss) \o FlattenSeq(pre(m))
    BY <2>2
  <2>4. CASE m = 0
    <3>1. pre(m) = <<>>
      BY <2>4, SubSeqEmpty
    <3>2. FlattenSeq(<<>>) = <<>> /\ ss \o <<>> = ss
      BY ConcatEmptySeq DEF FlattenSeq
    <3>3. FlattenSeq(ss) \in Seq(S)
      BY FlattenType
    <3>4. FlattenSeq(ss) \o <<>> = FlattenSeq(ss)
      BY <3>3, ConcatEmptySeq
    <3>5. QED
      BY <2>3, <3>1, <3>2, <3>4
  <2>5. CASE m # 0
    <3> DEFINE x == pre(m - 1)
               e == tt[m]
    <3>1. m \in 1..n /\ m - 1 \in 0..n /\ ~(m <= m - 1)
      BY <1>1, <2>3, <2>5
    <3>2. m - 1 \notin Bad
      <4> HIDE DEF Bad
      <4>1. QED
        BY <2>2, <3>1
    <3>3. FlattenSeq(ss \o x) = FlattenSeq(ss) \o FlattenSeq(x)
      BY <3>1, <3>2
    <3>4. pre(m) = x \o <<e>>
      <4>1. 1 \in 1..Len(tt) /\ m \in 1..Len(tt)
        BY <1>1, <3>1
      <4>2. QED
        BY <4>1, SubSeqRecursiveSecond
    <3>5. x \in Seq(Seq(S)) /\ e \in Seq(S)
      <4>1. \A i \in 1..(m - 1) : tt[i] \in Seq(S)
        BY <1>1, <3>1
      <4>2. 1 \in Int /\ m - 1 \in Int
        BY <3>1
      <4> DEFINE l == m - 1
      <4> HIDE DEF l
      <4>3. l \in Int /\ \A i \in 1..l : tt[i] \in Seq(S)
        BY <4>1, <4>2 DEF l
      <4>4. SubSeq(tt, 1, l) \in Seq(Seq(S))
        BY <4>3, SubSeqProperties
      <4>5. QED
        BY <1>1, <3>1, <4>4 DEF l
    <3> HIDE DEF x, e, pre
    <3>6. pre(m) = Append(x, e) /\ <<e>> \in Seq(Seq(S))
      BY <3>4, <3>5, AppendIsConcat
    <3>7. ss \o pre(m) = Append(ss \o x, e)
      <4>1. ss \o x \in Seq(Seq(S))
        BY <3>5, ConcatProperties
      <4>2. Append(ss \o x, e) = (ss \o x) \o <<e>>
        BY <3>5, <4>1, AppendIsConcat
      <4>3. (ss \o x) \o <<e>> = ss \o (x \o <<e>>)
        <5> DEFINE one == <<e>>
        <5>1. ss \in Seq(Seq(S)) /\ x \in Seq(Seq(S)) /\ one \in Seq(Seq(S))
          BY <3>5, <3>6
        <5> HIDE DEF one
        <5>2. (ss \o x) \o one = ss \o (x \o one)
          <6> DEFINE T == Seq(S)
          <6>1. ss \in Seq(T) /\ x \in Seq(T) /\ one \in Seq(T)
            BY <5>1
          <6> HIDE DEF T
          <6>2. QED
            BY ONLY <6>1, ConcatAssociative
        <5>3. QED
          BY <5>2 DEF one
      <4>4. QED
        BY <3>4, <4>2, <4>3
    <3>8. FlattenSeq(ss \o pre(m)) = (FlattenSeq(ss) \o FlattenSeq(x)) \o e
      <4> DEFINE y == ss \o x
      <4>1. y \in Seq(Seq(S))
        BY <3>5, ConcatProperties
      <4> HIDE DEF y
      <4>2. FlattenSeq(Append(y, e)) = FlattenSeq(y) \o e
        BY <3>5, <4>1, FlattenAppend
      <4>3. QED
        BY <3>3, <3>7, <4>2 DEF y
    <3>9. FlattenSeq(pre(m)) = FlattenSeq(x) \o e
      BY <3>5, <3>6, FlattenAppend
    <3>10. (FlattenSeq(ss) \o FlattenSeq(x)) \o e = FlattenSeq(ss) \o (FlattenSeq(x) \o e)
      <4>1. FlattenSeq(ss) \in Seq(S) /\ FlattenSeq(x) \in Seq(S)
        BY <3>5, FlattenType
      <4> DEFINE f == FlattenSeq(ss)
                 g == FlattenSeq(x)
      <4>2. f \in Seq(S) /\ g \in Seq(S) /\ e \in Seq(S)
        BY <3>5, <4>1
      <4> HIDE DEF f, g
      <4>3. (f \o g) \o e = f \o (g \o e)
        BY ONLY <4>2, ConcatAssociative
      <4>4. QED
        BY <4>3 DEF f, g
    <3>11. QED
      BY <2>3, <3>8, <3>9, <3>10
  <2>6. QED
    BY <2>4, <2>5
<1>3. n \in 0..n /\ pre(n) = tt
  BY <1>1, SubSeqFull
<1>4. QED
  BY <1>2, <1>3

LEMMA JoinedConcat ==
  ASSUME NEW ws \in Seq(Seq(Piece)), NEW vs \in Seq(Seq(Piece)), ws # <<>>, vs # <<>>
  PROVE  Joined(ws \o vs) = (Joined(ws) \o <<Space>>) \o Joined(vs)
<1> DEFINE m == Len(ws)
           n == Len(vs)
           us == ws \o vs
           e == Append(Last(ws), Space)
           a == Line(ws)
           b == Line(vs)
           sp == <<Space>>
<1>1. m \in Nat \ {0} /\ n \in Nat \ {0}
  BY EmptySeq
<1>2. /\ us \in Seq(Seq(Piece)) /\ Len(us) = m + n
      /\ \A i \in 1..(m + n) : us[i] = IF i <= m THEN ws[i] ELSE vs[i - m]
  BY ConcatProperties
<1>3. us # <<>> /\ Len(us) \in Nat
  BY <1>1, <1>2, EmptySeq
<1>4. /\ a \in Seq(Seq(Piece)) /\ Len(a) = m - 1
      /\ \A k \in 1..(m - 1) : a[k] = Append(ws[k], Space)
      /\ Last(ws) \in Seq(Piece) /\ FlattenSeq(a) \in Seq(Piece)
  BY JoinedType
<1>5. /\ b \in Seq(Seq(Piece)) /\ Len(b) = n - 1
      /\ \A k \in 1..(n - 1) : b[k] = Append(vs[k], Space)
      /\ Last(vs) \in Seq(Piece) /\ FlattenSeq(b) \in Seq(Piece)
  BY JoinedType
<1>6. sp \in Seq(Piece) /\ Space \in Piece
  BY SpaceAlone DEF Piece
<1>7. e = Last(ws) \o sp /\ e \in Seq(Piece)
  BY <1>4, <1>6, AppendIsConcat, AppendProperties
<1> DEFINE ae == Append(a, e)
           line == ae \o b
<1>8. /\ ae \in Seq(Seq(Piece)) /\ Len(ae) = m /\ ae[m] = e
      /\ \A k \in 1..(m - 1) : ae[k] = a[k]
  <2> HIDE DEF a, e
  <2>1. /\ ae \in Seq(Seq(Piece)) /\ Len(ae) = Len(a) + 1 /\ ae[Len(a) + 1] = e
        /\ \A k \in 1..Len(a) : ae[k] = a[k]
    BY <1>4, <1>7, AppendProperties
  <2>2. Len(a) + 1 = m
    BY <1>1, <1>4
  <2>3. QED
    BY <1>4, <2>1, <2>2
<1>9. /\ line \in Seq(Seq(Piece)) /\ Len(line) = m + (n - 1)
      /\ \A i \in 1..(m + (n - 1)) : line[i] = IF i <= m THEN ae[i] ELSE b[i - m]
  <2> HIDE DEF ae, b
  <2>1. /\ line \in Seq(Seq(Piece)) /\ Len(line) = Len(ae) + Len(b)
        /\ \A i \in 1..(Len(ae) + Len(b)) : line[i] = IF i <= Len(ae) THEN ae[i] ELSE b[i - Len(ae)]
    BY <1>5, <1>8, ConcatProperties
  <2>2. QED
    BY <1>5, <1>8, <2>1
<1>10. /\ Line(us) \in Seq(Seq(Piece)) /\ Len(Line(us)) = Len(us) - 1
       /\ \A k \in 1..(Len(us) - 1) : Line(us)[k] = Append(us[k], Space)
  <2> HIDE DEF us
  <2>1. QED
    BY <1>2, <1>3, JoinedType
<1>11. Line(us) = line
  <2>1. Len(Line(us)) = Len(line) /\ Len(us) - 1 = m + (n - 1)
    BY <1>1, <1>2, <1>9, <1>10
  <2>2. ASSUME NEW i \in 1..(m + (n - 1)) PROVE Line(us)[i] = line[i]
    <3>1. Line(us)[i] = Append(us[i], Space)
      BY <1>10, <2>1
    <3>2. i \in 1..(m + n)
      BY <1>1
    <3>3. CASE i < m
      <4>1. us[i] = ws[i] /\ line[i] = ae[i] /\ ae[i] = a[i] /\ a[i] = Append(ws[i], Space)
        <5>1. i \in 1..(m - 1) /\ i <= m
          BY <1>1, <3>3
        <5> HIDE DEF us, line, ae, a, m, n
        <5>2. QED
          BY <1>2, <1>4, <1>8, <1>9, <3>2, <5>1
      <4>2. QED
        BY <3>1, <4>1
    <3>4. CASE i = m
      <4>1. us[i] = ws[m] /\ line[i] = ae[m]
        <5>1. i <= m
          BY <1>1, <3>4
        <5> HIDE DEF us, line, ae, a
        <5>2. QED
          BY <1>2, <1>9, <3>2, <3>4, <5>1
      <4>2. Last(ws) = ws[m]
        BY DEF Last
      <4>3. QED
        BY <1>8, <3>1, <4>1, <4>2
    <3>5. CASE i > m
      <4>1. i - m \in 1..(n - 1) /\ ~(i <= m)
        BY <1>1, <3>5
      <4>2. us[i] = vs[i - m] /\ line[i] = b[i - m] /\ b[i - m] = Append(vs[i - m], Space)
        <5> HIDE DEF us, line, ae, a, b, m, n
        <5>1. QED
          BY <1>2, <1>5, <1>9, <3>2, <4>1
      <4>3. QED
        BY <3>1, <4>2
    <3>6. i < m \/ i = m \/ i > m
      BY <1>1
    <3> HIDE DEF us, line, m, n
    <3>7. QED
      BY <3>3, <3>4, <3>5, <3>6
  <2> HIDE DEF us, line
  <2>3. QED
    BY <1>9, <1>10, <2>1, <2>2, SeqEqual
<1>12. Last(us) = Last(vs)
  <2>1. us[Len(us)] = vs[Len(vs)]
    BY <1>1, LastConcat
  <2>2. QED
    BY <2>1 DEF Last
<1> HIDE DEF ae, us, a, b, e, sp, m, n
<1>13. FlattenSeq(line) = FlattenSeq(ae) \o FlattenSeq(b)
  BY <1>5, <1>8, FlattenConcat
<1>14. FlattenSeq(ae) = FlattenSeq(a) \o e
  BY <1>4, <1>7, FlattenAppend DEF ae
<1> DEFINE fa == FlattenSeq(a)
           fb == FlattenSeq(b)
           la == Last(ws)
           lb == Last(vs)
<1>15. fa \in Seq(Piece) /\ fb \in Seq(Piece) /\ la \in Seq(Piece) /\ lb \in Seq(Piece)
  BY <1>4, <1>5
<1>16. Joined(us) = ((fa \o (la \o sp)) \o fb) \o lb
  BY <1>7, <1>11, <1>12, <1>13, <1>14 DEF Joined
<1>17. Joined(ws) = fa \o la /\ Joined(vs) = fb \o lb
  BY DEF Joined, a, b
<1> HIDE DEF fa, fb, la, lb
<1>18. fa \o (la \o sp) = (fa \o la) \o sp
  <2>1. fa \in Seq(Piece) /\ la \in Seq(Piece) /\ sp \in Seq(Piece)
    BY <1>6, <1>15
  <2>2. (fa \o la) \o sp = fa \o (la \o sp)
    <3>1. \A s, t, u \in Seq(Piece) : (s \o t) \o u = s \o (t \o u)
      BY ONLY Associative
    <3>2. QED
      BY <2>1, <3>1, Zenon
  <2>3. QED
    BY <2>2
<1>19. (fa \o la) \o sp \in Seq(Piece)
  BY <1>6, <1>15, ConcatProperties
<1> DEFINE x == (fa \o la) \o sp
<1>20. (x \o fb) \o lb = x \o (fb \o lb)
  <2>1. x \in Seq(Piece)
    BY <1>19
  <2> HIDE DEF x
  <2>2. x \in Seq(Piece) /\ fb \in Seq(Piece) /\ lb \in Seq(Piece)
    BY <1>15, <2>1
  <2>3. QED
    BY ONLY <2>2, ConcatAssociative
<1>21. QED
  BY <1>16, <1>17, <1>18, <1>20 DEF us, sp

\* A piece that is no space is in the line if it is in one of its words.
LEMMA JoinedHas ==
  ASSUME NEW ws \in Seq(Seq(Piece)), ws # <<>>, NEW x, x # Space
  PROVE  Has(Joined(ws), x) <=> \E k \in 1..Len(ws) : Has(ws[k], x)
<1> DEFINE n == Len(ws)
           pre(m) == SubSeq(ws, 1, m)
           Bad == {m \in 1..n : ~(Has(Joined(pre(m)), x) <=> \E k \in 1..m : Has(ws[k], x))}
<1>1. n \in Nat \ {0} /\ \A k \in 1..n : ws[k] \in Seq(Piece)
  BY EmptySeq, ElementOfSeq
<1>2. Bad = {}
  <2>1. SUFFICES ASSUME Bad # {} PROVE FALSE
    OBVIOUS
  <2>2. PICK m \in Bad : \A y \in Bad : m <= y
    <3>1. Bad \in SUBSET Nat
      BY <1>1
    <3> HIDE DEF Bad
    <3>2. QED
      BY <2>1, <3>1, Least
  <2>3. m \in 1..n /\ ~(Has(Joined(pre(m)), x) <=> \E k \in 1..m : Has(ws[k], x))
    BY <2>2
  <2>4. pre(m) = pre(m - 1) \o <<ws[m]>>
    <3>1. 1 \in 1..Len(ws) /\ m \in 1..Len(ws)
      BY <1>1, <2>3
    <3>2. QED
      BY <3>1, SubSeqRecursiveSecond
  <2> DEFINE one == <<ws[m]>>
  <2>5. one \in Seq(Seq(Piece)) /\ Len(one) = 1 /\ one[1] = ws[m] /\ one # <<>>
    BY <1>1, <2>3
  <2>6. Joined(one) = ws[m]
    <3> HIDE DEF one
    <3>1. QED
      BY <2>5, EmptyJoined
  <2>7. CASE m = 1
    <3>1. pre(m - 1) = <<>>
      BY <2>7, SubSeqEmpty
    <3>2. pre(m) = one
      BY <2>4, <2>5, <3>1, ConcatEmptySeq
    <3>3. Has(Joined(pre(m)), x) <=> Has(ws[m], x)
      BY <2>6, <3>2
    <3>4. QED
      BY <2>3, <2>7, <3>3
  <2>8. CASE m # 1
    <3>1. m - 1 \in 1..n /\ ~(m <= m - 1)
      BY <1>1, <2>3, <2>8
    <3>2. m - 1 \notin Bad
      <4> HIDE DEF Bad
      <4>1. QED
        BY <2>2, <3>1
    <3>3. Has(Joined(pre(m - 1)), x) <=> \E k \in 1..(m - 1) : Has(ws[k], x)
      BY <3>1, <3>2
    <3> DEFINE y == pre(m - 1)
    <3>4. y \in Seq(Seq(Piece)) /\ Len(y) = m - 1
      <4> DEFINE l == m - 1
      <4>1. l \in 0..Len(ws) /\ 1 \in 1..(Len(ws) + 1) /\ 1 <= l /\ l - 1 + 1 = m - 1
        BY <1>1, <3>1
      <4> HIDE DEF l
      <4>2. SubSeq(ws, 1, l) \in Seq(Seq(Piece)) /\ Len(SubSeq(ws, 1, l)) = l - 1 + 1
        BY <4>1, PartIs
      <4>3. QED
        BY <4>1, <4>2 DEF l
    <3>5. y # <<>>
      <4> HIDE DEF y
      <4>1. Len(y) # 0
        BY <3>1, <3>4
      <4>2. QED
        BY <4>1, EmptySeq
    <3> HIDE DEF y, one
    <3>6. Joined(y \o one) = (Joined(y) \o <<Space>>) \o Joined(one)
      BY <2>5, <3>4, <3>5, JoinedConcat
    <3>7. Joined(y) \in Seq(Piece) /\ <<Space>> \in Seq(Piece) /\ Joined(one) \in Seq(Piece)
      BY <2>5, <3>4, <3>5, JoinedType, SpaceAlone
    <3>8. ~Has(<<Space>>, x)
      BY DEF Has
    <3>9. Joined(y) \o <<Space>> \in Seq(Piece)
      BY <3>7, ConcatProperties
    <3>10. Has(Joined(y \o one), x) <=> Has(Joined(y), x) \/ Has(Joined(one), x)
      <4> DEFINE jy == Joined(y)
                 sp == <<Space>>
                 jo == Joined(one)
                 js == jy \o sp
      <4>1. /\ jy \in Seq(Piece) /\ sp \in Seq(Piece) /\ jo \in Seq(Piece) /\ js \in Seq(Piece)
            /\ ~Has(sp, x) /\ Joined(y \o one) = js \o jo
        BY <3>6, <3>7, <3>8, <3>9
      <4>2. Has(jy \o sp, x) <=> Has(jy, x) \/ Has(sp, x)
        <5> HIDE DEF jy, sp, jo, js
        <5>1. QED
          BY <4>1, HasConcat
      <4>3. Has(js \o jo, x) <=> Has(js, x) \/ Has(jo, x)
        <5> HIDE DEF jy, sp, jo, js
        <5>1. QED
          BY <4>1, HasConcat
      <4> HIDE DEF jy, sp, jo
      <4>4. QED
        BY <4>1, <4>2, <4>3 DEF jy, jo
    <3>11. Has(Joined(pre(m)), x) <=> Has(Joined(pre(m - 1)), x) \/ Has(ws[m], x)
      BY <2>4, <2>6, <3>10 DEF y, one
    <3>12. (\E k \in 1..m : Has(ws[k], x)) <=> (\E k \in 1..(m - 1) : Has(ws[k], x)) \/ Has(ws[m], x)
      <4>1. \A k : k \in 1..m <=> k \in 1..(m - 1) \/ k = m
        BY <3>1
      <4>2. QED
        BY <4>1, Zenon
    <3>13. QED
      BY <2>3, <3>3, <3>11, <3>12
  <2>9. QED
    BY <2>7, <2>8
<1>3. n \in 1..n /\ pre(n) = ws
  BY <1>1, SubSeqFull
<1>4. QED
  BY <1>2, <1>3

LEMMA ConcatPlaces ==
  ASSUME NEW S, NEW a \in Seq(S), NEW b \in Seq(S), NEW x, x = a \o b
  PROVE  /\ x \in Seq(S) /\ Len(x) = Len(a) + Len(b)
         /\ Len(a) \in Nat /\ Len(b) \in Nat
         /\ \A i \in 1..Len(a) : x[i] = a[i]
         /\ \A i \in 1..Len(b) : x[Len(a) + i] = b[i]
<1>1. Len(a) \in Nat /\ Len(b) \in Nat
  BY LenProperties
<1>2. /\ a \o b \in Seq(S) /\ Len(a \o b) = Len(a) + Len(b)
      /\ \A i \in 1..(Len(a) + Len(b)) : (a \o b)[i] = IF i <= Len(a) THEN a[i] ELSE b[i - Len(a)]
  BY ConcatProperties
<1>3. ASSUME NEW i \in 1..Len(a) PROVE (a \o b)[i] = a[i]
  <2>1. i \in 1..(Len(a) + Len(b)) /\ i <= Len(a)
    BY <1>1
  <2>2. QED
    BY <1>2, <2>1
<1>4. ASSUME NEW i \in 1..Len(b) PROVE (a \o b)[Len(a) + i] = b[i]
  <2>1. /\ Len(a) + i \in 1..(Len(a) + Len(b)) /\ ~(Len(a) + i <= Len(a))
        /\ (Len(a) + i) - Len(a) = i
    BY <1>1
  <2>2. QED
    BY <1>2, <2>1
<1>5. QED
  BY <1>1, <1>2, <1>3, <1>4

\* The part before the first space
LEMMA FirstSpace ==
  ASSUME NEW a \in Seq(Piece), NEW b \in Seq(Piece), NEW c \in Seq(Piece), NEW d \in Seq(Piece),
         NEW x, x = a \o b, x = c \o d, ~Has(c, Space), Len(b) = 0 \/ b[1] = Space
  PROVE  ~(Len(a) < Len(c))
<1>1. SUFFICES ASSUME Len(a) < Len(c) PROVE FALSE
  OBVIOUS
<1> DEFINE i == Len(a) + 1
<1>2. /\ Len(x) = Len(a) + Len(b) /\ Len(a) \in Nat /\ Len(b) \in Nat
      /\ \A k \in 1..Len(b) : x[Len(a) + k] = b[k]
  <2>1. x = a \o b
    OBVIOUS
  <2>2. QED
    BY ONLY <2>1, ConcatPlaces
<1>3. /\ Len(x) = Len(c) + Len(d) /\ Len(c) \in Nat /\ Len(d) \in Nat
      /\ \A k \in 1..Len(c) : x[k] = c[k]
  <2>1. x = c \o d
    OBVIOUS
  <2>2. QED
    BY ONLY <2>1, ConcatPlaces
<1>4. Len(b) # 0 /\ i \in 1..Len(c) /\ 1 \in 1..Len(b)
  BY <1>1, <1>2, <1>3
<1>5. c[i] = Space
  BY <1>2, <1>3, <1>4
<1>6. i \in DOMAIN c
  BY <1>4, LenProperties
<1>7. QED
  BY <1>5, <1>6 DEF Has

LEMMA FirstWord ==
  ASSUME NEW a \in Seq(Piece), NEW b \in Seq(Piece), NEW c \in Seq(Piece), NEW d \in Seq(Piece),
         NEW x, x = a \o b, x = c \o d, ~Has(a, Space), ~Has(c, Space),
         Len(b) = 0 \/ b[1] = Space, Len(d) = 0 \/ d[1] = Space
  PROVE  a = c /\ b = d
<1>1. ~(Len(a) < Len(c))
  BY FirstSpace
<1>2. ~(Len(c) < Len(a))
  BY FirstSpace
<1>3. /\ Len(x) = Len(a) + Len(b) /\ Len(a) \in Nat /\ Len(b) \in Nat
      /\ \A k \in 1..Len(a) : x[k] = a[k]
      /\ \A k \in 1..Len(b) : x[Len(a) + k] = b[k]
  <2>1. x = a \o b
    OBVIOUS
  <2>2. QED
    BY ONLY <2>1, ConcatPlaces
<1>4. /\ Len(x) = Len(c) + Len(d) /\ Len(c) \in Nat /\ Len(d) \in Nat
      /\ \A k \in 1..Len(c) : x[k] = c[k]
      /\ \A k \in 1..Len(d) : x[Len(c) + k] = d[k]
  <2>1. x = c \o d
    OBVIOUS
  <2>2. QED
    BY ONLY <2>1, ConcatPlaces
<1>6. Len(a) = Len(c) /\ Len(b) = Len(d)
  BY ONLY <1>1, <1>2, <1>3, <1>4
<1>7. \A k \in 1..Len(a) : a[k] = c[k]
  BY ONLY <1>3, <1>4, <1>6
<1>8. \A k \in 1..Len(b) : b[k] = d[k]
  BY ONLY <1>3, <1>4, <1>6
<1>9. QED
  BY <1>6, <1>7, <1>8, SeqEqual

LEMMA PairIs ==
  ASSUME NEW x, NEW y
  PROVE  <<x>> \o <<y>> = <<x, y>>
<1> DEFINE S == {x, y}
           one == <<x>>
           two == <<y>>
           pair == <<x, y>>
           c == one \o two
<1>1. /\ one \in Seq(S) /\ two \in Seq(S) /\ pair \in Seq(S)
      /\ Len(one) = 1 /\ Len(two) = 1 /\ Len(pair) = 2
      /\ one[1] = x /\ two[1] = y /\ pair[1] = x /\ pair[2] = y
  OBVIOUS
<1> HIDE DEF S, one, two, pair
<1>2. /\ c \in Seq(S) /\ Len(c) = Len(one) + Len(two)
      /\ \A i \in 1..Len(one) : c[i] = one[i]
      /\ \A i \in 1..Len(two) : c[Len(one) + i] = two[i]
  <2>1. c = one \o two /\ one \in Seq(S) /\ two \in Seq(S)
    BY <1>1
  <2> HIDE DEF c
  <2>2. QED
    BY ONLY <2>1, ConcatPlaces
<1> HIDE DEF c
<1>3. c[1] = x /\ c[2] = y /\ Len(c) = 2
  <2>1. 1 \in 1..1 /\ 1 + 1 = 2
    OBVIOUS
  <2>2. QED
    BY <1>1, <1>2, <2>1
<1>4. \A i \in 1..Len(c) : c[i] = pair[i]
  <2>1. \A i \in 1..2 : i = 1 \/ i = 2
    OBVIOUS
  <2>2. QED
    BY <1>1, <1>3, <2>1
<1>5. c = pair
  BY <1>1, <1>2, <1>3, <1>4, SeqEqual
<1>6. QED
  BY <1>5 DEF c, one, two, pair

\* The option in second place
WithOption(ws) == <<ws[1], <<DirOption>>>> \o Tail(ws)

\* The first half of modify_runtime_command(), word by word
LEMMA WithDirJoined ==
  ASSUME NEW ws \in Seq(Word), ws # <<>>
  PROVE  WithDir(Joined(ws)) =
           IF \E k \in 1..Len(ws) : Has(ws[k], DirOption) THEN Joined(ws) ELSE Joined(WithOption(ws))
<1> DEFINE cmd == Joined(ws)
           w == ws[1]
           sp == <<Space>>
           opt == <<DirOption>>
           so == <<Space, DirOption>>
           rest == Tail(ws)
<1>1. /\ ws \in Seq(Seq(Piece)) /\ Len(ws) \in Nat \ {0}
      /\ w \in Seq(Piece) /\ ~Has(w, Space) /\ cmd \in Seq(Piece)
  <2>1. ws \in Seq(Seq(Piece)) /\ Len(ws) \in Nat \ {0}
    BY WordsType, EmptySeq
  <2>2. 1 \in 1..Len(ws)
    BY <2>1
  <2>3. QED
    BY <2>1, <2>2, WordsType, JoinedType
<1>2. Has(cmd, DirOption) <=> \E k \in 1..Len(ws) : Has(ws[k], DirOption)
  BY <1>1, JoinedHas, RuntimeCommandConstants
<1>3. CASE \E k \in 1..Len(ws) : Has(ws[k], DirOption)
  BY <1>1, <1>2, <1>3, WithDirCases
<1>4. CASE ~\E k \in 1..Len(ws) : Has(ws[k], DirOption)
  <2>1. PICK a \in Seq(Piece), b \in Seq(Piece) :
                 /\ WithDir(cmd) = (a \o so) \o b
                 /\ cmd = a \o b
                 /\ ~Has(a, Space)
                 /\ Len(b) = 0 \/ b[1] = Space
    BY <1>1, <1>2, <1>4, WithDirCases
  <2>2. /\ sp \in Seq(Piece) /\ opt \in Seq(Piece) /\ so \in Seq(Piece) /\ sp \o opt = so
        /\ Len(sp) = 1 /\ sp[1] = Space
    <3>1. Space \in Piece /\ DirOption \in Piece
      BY DEF Piece
    <3>2. sp \in Seq(Piece) /\ opt \in Seq(Piece) /\ so \in Seq(Piece)
      BY <3>1
    <3>3. sp \o opt = so
      BY PairIs
    <3>4. QED
      BY <3>2, <3>3, SpaceAlone
  <2> DEFINE one == <<w>>
             dir == <<opt>>
             pair == <<w, opt>>
  <2>3. /\ one \in Seq(Seq(Piece)) /\ dir \in Seq(Seq(Piece)) /\ pair \in Seq(Seq(Piece))
        /\ pair = one \o dir /\ one # <<>> /\ dir # <<>> /\ pair # <<>>
        /\ Len(one) = 1 /\ Len(dir) = 1 /\ one[1] = w /\ dir[1] = opt
    <3> HIDE DEF w, opt
    <3>1. w \in Seq(Piece) /\ opt \in Seq(Piece)
      BY <1>1, <2>2
    <3>2. one \in Seq(Seq(Piece)) /\ dir \in Seq(Seq(Piece)) /\ pair \in Seq(Seq(Piece))
      BY <3>1
    <3>3. pair = one \o dir
      BY PairIs
    <3>4. Len(one) = 1 /\ Len(dir) = 1 /\ Len(pair) = 2 /\ one[1] = w /\ dir[1] = opt
      OBVIOUS
    <3>5. one # <<>> /\ dir # <<>> /\ pair # <<>>
      <4>1. Len(one) # 0 /\ Len(dir) # 0 /\ Len(pair) # 0
        BY <3>4
      <4> HIDE DEF one, dir, pair
      <4>2. QED
        BY <3>2, <4>1, EmptySeq
    <3>6. QED
      BY <3>2, <3>3, <3>4, <3>5
  <2>4. ws = one \o rest /\ rest \in Seq(Seq(Piece))
    <3>1. 1 \in 1..Len(ws) /\ Len(ws) \in 1..Len(ws)
      BY <1>1
    <3>2. SubSeq(ws, 1, Len(ws)) = <<ws[1]>> \o SubSeq(ws, 1 + 1, Len(ws))
      BY <1>1, <3>1, SubSeqRecursiveFirst
    <3>3. SubSeq(ws, 1, Len(ws)) = ws /\ Tail(ws) = SubSeq(ws, 2, Len(ws))
          /\ Tail(ws) \in Seq(Seq(Piece))
      BY <1>1, SubSeqFull, TailIsSubSeq, HeadTailProperties
    <3>4. QED
      BY <3>2, <3>3
  <2>5. WithOption(ws) = pair \o rest
    BY DEF WithOption
  <2>6. ~Has(w, Space)
    BY <1>1
  <2> HIDE DEF cmd, rest, one, dir, pair, w, sp, so, opt
  <2>7. Joined(one) = w /\ Joined(dir) = opt
    BY <2>3, EmptyJoined
  <2>8. Joined(pair) = w \o so
    <3>1. Joined(pair) = (w \o sp) \o opt
      BY <2>3, <2>7, JoinedConcat DEF sp
    <3>2. \A s, t, u \in Seq(Piece) : (s \o t) \o u = s \o (t \o u)
      BY ONLY Associative
    <3>3. (w \o sp) \o opt = w \o (sp \o opt)
      <4>1. w \in Seq(Piece) /\ sp \in Seq(Piece) /\ opt \in Seq(Piece)
        BY <1>1, <2>2
      <4>2. QED
        BY <3>2, <4>1, Zenon
    <3>4. QED
      BY <2>2, <3>1, <3>3
  <2>9. CASE rest = <<>>
    <3>1. cmd = w
      BY <2>3, <2>4, <2>7, <2>9, ConcatEmptySeq DEF cmd
    <3>2. <<>> \in Seq(Piece) /\ Len(<<>>) = 0
      BY EmptySeq
    <3>3. cmd = a \o b /\ cmd = w \o <<>>
      BY <1>1, <2>1, <3>1, ConcatEmptySeq
    <3>4. a = w /\ b = <<>>
      BY <1>1, <2>1, <2>6, <3>2, <3>3, FirstWord
    <3>5. w \o so \in Seq(Piece)
      BY <1>1, <2>2, ConcatProperties
    <3>6. (w \o so) \o <<>> = w \o so
      <4> DEFINE x == w \o so
      <4>1. x \in Seq(Piece)
        BY <3>5
      <4> HIDE DEF x
      <4>2. x \o <<>> = x
        BY <4>1, ConcatEmptySeq
      <4>3. QED
        BY <4>2 DEF x
    <3>7. pair \o rest = pair
      BY <2>3, <2>9, ConcatEmptySeq
    <3>8. QED
      BY <1>4, <2>1, <2>5, <2>8, <3>4, <3>6, <3>7 DEF cmd
  <2>10. CASE rest # <<>>
    <3> DEFINE j == Joined(rest)
               tail == sp \o j
    <3>1. j \in Seq(Piece)
      BY <2>4, <2>10, JoinedType
    <3>2. cmd = (w \o sp) \o j
      BY <2>3, <2>4, <2>7, <2>10, JoinedConcat DEF cmd, sp
    <3>3. Joined(pair \o rest) = ((w \o so) \o sp) \o j
      BY <2>3, <2>4, <2>8, <2>10, JoinedConcat DEF sp
    <3> HIDE DEF j
    <3>4. tail \in Seq(Piece) /\ tail[1] = Space
      <4>1. tail = sp \o j /\ sp \in Seq(Piece) /\ j \in Seq(Piece)
        BY <2>2, <3>1
      <4> HIDE DEF tail
      <4>2. tail \in Seq(Piece) /\ \A i \in 1..Len(sp) : tail[i] = sp[i]
        BY ONLY <4>1, ConcatPlaces
      <4>3. QED
        BY <2>2, <4>2
    <3>5. \A s, t, u \in Seq(Piece) : (s \o t) \o u = s \o (t \o u)
      BY ONLY Associative
    <3>6. w \o so \in Seq(Piece)
      BY <1>1, <2>2, ConcatProperties
    <3>7. (w \o sp) \o j = w \o tail /\ ((w \o so) \o sp) \o j = (w \o so) \o tail
      <4>1. /\ w \in Seq(Piece) /\ sp \in Seq(Piece) /\ j \in Seq(Piece)
            /\ w \o so \in Seq(Piece)
        BY <1>1, <2>2, <3>1, <3>6
      <4>2. (w \o sp) \o j = w \o (sp \o j)
        <5>1. w \in Seq(Piece) /\ sp \in Seq(Piece) /\ j \in Seq(Piece)
          BY <4>1
        <5>2. QED
          BY <3>5, <5>1, Zenon
      <4> DEFINE x == w \o so
      <4>3. x \in Seq(Piece)
        BY <4>1
      <4> HIDE DEF x
      <4>4. (x \o sp) \o j = x \o (sp \o j)
        <5>1. x \in Seq(Piece) /\ sp \in Seq(Piece) /\ j \in Seq(Piece)
          BY <4>1, <4>3
        <5>2. QED
          BY <3>5, <5>1, Zenon
      <4>5. QED
        BY <4>2, <4>4 DEF x, tail
    <3> HIDE DEF tail
    <3>8. cmd = a \o b /\ cmd = w \o tail
      BY <2>1, <3>2, <3>7
    <3>9. a = w /\ b = tail
      BY <1>1, <2>1, <2>6, <3>4, <3>8, FirstWord
    <3>10. QED
      BY <1>4, <2>1, <2>5, <3>3, <3>7, <3>9 DEF cmd
  <2>11. QED
    BY <2>9, <2>10
<1>5. QED
  BY <1>3, <1>4

\* ".wasm" is only at the end of w.
OnlyLast(w) == \A j \in DOMAIN w : w[j] = WasmSuffix => j = Len(w)

\* The word with the first ".wasm" is v.
LEMMA WithFilePlace ==
  ASSUME NEW q \in Seq(Piece), NEW v \in Seq(Piece), NEW r \in Seq(Piece), NEW w \in Seq(Piece),
         ~Has(q, WasmSuffix), Len(q) # 0, q[Len(q)] = Space,
         Len(v) # 0, v[Len(v)] = WasmSuffix, OnlyLast(v), ~Has(v, Space)
  PROVE  WithFile((q \o v) \o r, w) = (q \o w) \o r
<1> DEFINE l == Len(q)
           n == Len(v)
           m == Len(r)
<1>1. /\ l \in Nat \ {0} /\ n \in Nat \ {0} /\ m \in Nat
      /\ DOMAIN q = 1..l /\ DOMAIN v = 1..n
  BY LenProperties
<1> HIDE DEF l, n, m
<1>0. PICK qv : qv = q \o v
  OBVIOUS
<1>2. /\ qv \in Seq(Piece) /\ Len(qv) = l + n
      /\ \A i \in 1..l : qv[i] = q[i]
      /\ \A i \in 1..n : qv[l + i] = v[i]
  BY ONLY <1>0, ConcatPlaces DEF l, n
<1>20. PICK c : c = qv \o r
  OBVIOUS
<1>3. /\ c \in Seq(Piece) /\ Len(c) = (l + n) + m
      /\ \A i \in 1..(l + n) : c[i] = qv[i]
      /\ \A i \in 1..m : c[(l + n) + i] = r[i]
  <2>1. /\ c \in Seq(Piece) /\ Len(c) = Len(qv) + m
        /\ \A i \in 1..Len(qv) : c[i] = qv[i]
        /\ \A i \in 1..m : c[Len(qv) + i] = r[i]
    <3>1. qv \in Seq(Piece)
      BY <1>2
    <3>2. QED
      BY ONLY <1>20, <3>1, ConcatPlaces DEF m
  <2>2. QED
    BY <1>2, <2>1
<1>4. /\ \A i \in 1..l : c[i] = q[i]
      /\ \A i \in 1..n : c[l + i] = v[i]
  <2>1. ASSUME NEW i \in 1..l PROVE c[i] = q[i]
    <3>1. i \in 1..(l + n)
      BY <1>1
    <3>2. QED
      BY <1>2, <1>3, <3>1
  <2>2. ASSUME NEW i \in 1..n PROVE c[l + i] = v[i]
    <3>1. l + i \in 1..(l + n)
      BY <1>1
    <3>2. QED
      BY <1>2, <1>3, <3>1
  <2>3. QED
    BY <2>1, <2>2
<1>5. c[l + n] = WasmSuffix /\ l + n \in 1..Len(c) /\ c[l] = Space /\ l \in 1..Len(c)
  <2>1. n \in 1..n /\ l \in 1..l
    BY <1>1
  <2>2. QED
    BY <1>1, <1>3, <1>4, <2>1 DEF l, n
<1>6. Has(c, WasmSuffix)
  BY <1>3, <1>5, LenProperties DEF Has
<1>7. Find(c, WasmSuffix) = l + n
  <2> DEFINE pos == Find(c, WasmSuffix)
  <2>1. pos \in 1..Len(c) /\ c[pos] = WasmSuffix /\ \A j \in 1..(pos - 1) : c[j] # WasmSuffix
    BY <1>3, <1>6, FindIs
  <2> HIDE DEF pos
  <2>2. pos <= l + n
    <3>1. SUFFICES ASSUME ~(pos <= l + n) PROVE FALSE
      OBVIOUS
    <3>2. l + n \in 1..(pos - 1)
      BY <1>1, <2>1, <3>1
    <3>3. QED
      BY <1>5, <2>1, <3>2
  <2>3. ~(pos <= l)
    <3>1. SUFFICES ASSUME pos <= l PROVE FALSE
      OBVIOUS
    <3>2. pos \in 1..l
      BY <2>1, <3>1
    <3>3. QED
      BY <1>1, <1>4, <2>1, <3>2 DEF Has
  <2>4. pos - l \in 1..n /\ l + (pos - l) = pos
    BY <1>1, <2>1, <2>2, <2>3
  <2>5. v[pos - l] = WasmSuffix
    BY <1>4, <2>1, <2>4
  <2>6. pos - l = n
    BY <1>1, <2>4, <2>5 DEF n, OnlyLast
  <2>7. QED
    BY <1>1, <2>4, <2>6 DEF pos
<1>8. SpacesBefore(c, Find(c, WasmSuffix)) # {}
  <2>1. l \in 1..(l + n)
    BY <1>1
  <2>2. l \in SpacesBefore(c, l + n)
    BY <1>5, <2>1 DEF SpacesBefore
  <2>3. QED
    BY <1>7, <2>2
<1>9. PICK k \in 1..Len(c), pos \in 1..Len(c) :
                 /\ pos = Find(c, WasmSuffix) /\ k <= pos /\ c[k] = Space
                 /\ \A j \in 1..pos : c[j] = Space => j <= k
                 /\ WithFile(c, w) = (SubSeq(c, 1, k) \o w) \o SubSeq(c, pos + 1, Len(c))
  BY <1>3, <1>6, <1>8, WithFileCases
<1>10. pos = l + n
  BY <1>7, <1>9
<1>11. k = l
  <2>1. l <= k
    <3>1. l \in 1..pos
      BY <1>1, <1>10
    <3>2. QED
      BY <1>5, <1>9, <3>1
  <2>2. ~(l < k)
    <3>1. SUFFICES ASSUME l < k PROVE FALSE
      OBVIOUS
    <3>2. k - l \in 1..n /\ l + (k - l) = k
      BY <1>1, <1>9, <1>10, <3>1
    <3>3. v[k - l] = Space
      BY <1>4, <1>9, <3>2
    <3>4. QED
      BY <1>1, <3>2, <3>3 DEF Has
  <2>3. QED
    BY <1>1, <1>9, <2>1, <2>2
<1>12. SubSeq(c, 1, l) = q
  <2> DEFINE p == SubSeq(c, 1, l)
  <2>1. 1 \in 1..(Len(c) + 1) /\ l \in 0..Len(c)
    BY <1>1, <1>3
  <2>2. p \in Seq(Piece) /\ Len(p) = (IF 1 <= l THEN l - 1 + 1 ELSE 0)
        /\ \A i \in 1..Len(p) : p[i] = c[1 + i - 1]
    BY <1>3, <2>1, PartIs
  <2>3. Len(p) = l /\ l = Len(q)
    BY <1>1, <2>2 DEF l
  <2>4. \A i \in 1..l : p[i] = q[i]
    <3>1. \A i \in 1..l : 1 + i - 1 = i
      OBVIOUS
    <3> HIDE DEF p
    <3>2. QED
      BY <1>4, <2>2, <2>3, <3>1
  <2> HIDE DEF p
  <2>5. p = q
    BY <2>2, <2>3, <2>4, SeqEqual
  <2>6. QED
    BY <2>5 DEF p
<1>13. SubSeq(c, pos + 1, Len(c)) = r
  <2> DEFINE a == pos + 1
             z == Len(c)
             p == SubSeq(c, a, z)
  <2>1. a \in 1..(Len(c) + 1) /\ z \in 0..Len(c)
    <3>1. Len(c) \in Nat /\ pos \in 1..Len(c)
      BY <1>3, <1>9, LenProperties
    <3>2. QED
      BY <3>1
  <2>2. a = (l + n) + 1 /\ z = (l + n) + m
    BY <1>3, <1>10
  <2> HIDE DEF a, z
  <2>3. p \in Seq(Piece) /\ Len(p) = (IF a <= z THEN z - a + 1 ELSE 0)
        /\ \A i \in 1..Len(p) : p[i] = c[a + i - 1]
    BY <1>3, <2>1, PartIs
  <2> HIDE DEF p
  <2>4. Len(p) = m
    BY <1>1, <2>2, <2>3
  <2>5. \A i \in 1..m : a + i - 1 = (l + n) + i
    BY <1>1, <2>2
  <2>6. \A i \in 1..m : p[i] = r[i]
    BY <1>3, <2>3, <2>4, <2>5
  <2>7. p = r
    <3>1. Len(p) = Len(r) /\ \A i \in 1..Len(p) : p[i] = r[i]
      BY <2>4, <2>6 DEF m
    <3>2. QED
      BY <2>3, <3>1, SeqEqual
  <2>8. QED
    BY <2>7 DEF p, a, z
<1>14. WithFile(c, w) = (q \o w) \o r
  BY <1>9, <1>11, <1>12, <1>13
<1>15. QED
  BY <1>0, <1>14, <1>20

LEMMA OneIs ==
  ASSUME NEW S, NEW u \in S, NEW x, x = <<u>>
  PROVE  x \in Seq(S) /\ Len(x) = 1 /\ x[1] = u
OBVIOUS

\* A sequence is what is in front of place m, that place, and the rest.
Splits(S, ws, m, pre, post) ==
  /\ Len(pre) = m - 1
  /\ \A k \in 1..(m - 1) : pre[k] = ws[k]
  /\ \A u \in S : [ws EXCEPT ![m] = u] = (pre \o <<u>>) \o post

LEMMA SplitAt ==
  ASSUME NEW S, NEW ws \in Seq(S), NEW m \in 1..Len(ws)
  PROVE  \E pre \in Seq(S), post \in Seq(S) : Splits(S, ws, m, pre, post)
<1> DEFINE n == Len(ws)
           l == m - 1
           a == m + 1
           pre == SubSeq(ws, 1, l)
           post == SubSeq(ws, a, n)
<1>1. /\ n \in Nat /\ m \in 1..n /\ l \in 0..n /\ 1 \in 1..(n + 1) /\ a \in 1..(n + 1) /\ n \in 0..n
      /\ DOMAIN ws = 1..n
  BY LenProperties
<1>2. /\ pre \in Seq(S) /\ Len(pre) = (IF 1 <= l THEN l - 1 + 1 ELSE 0)
      /\ \A k \in 1..Len(pre) : pre[k] = ws[1 + k - 1]
  BY <1>1, PartIs
<1>3. /\ post \in Seq(S) /\ Len(post) = (IF a <= n THEN n - a + 1 ELSE 0)
      /\ \A k \in 1..Len(post) : post[k] = ws[a + k - 1]
  BY <1>1, PartIs
<1> HIDE DEF pre, post
<1>4. Len(pre) = l /\ \A k \in 1..l : pre[k] = ws[k]
  <2>1. Len(pre) = l
    BY <1>1, <1>2
  <2>2. \A k \in 1..l : 1 + k - 1 = k
    BY <1>1
  <2>3. QED
    BY <1>2, <2>1, <2>2
<1>5. Len(post) = n - m /\ \A k \in 1..(n - m) : post[k] = ws[m + k]
  <2>1. Len(post) = n - m
    <3>1. CASE a <= n
      BY <1>1, <1>3, <3>1
    <3>2. CASE ~(a <= n)
      <4>1. n = m /\ n - m = 0
        <5>1. n \in Nat /\ m \in 1..n /\ ~(m + 1 <= n)
          BY <1>1, <3>2
        <5> HIDE DEF n
        <5>2. QED
          BY ONLY <5>1
      <4>2. Len(post) = 0
        BY <1>3, <3>2
      <4>3. QED
        BY <4>1, <4>2
    <3>3. QED
      BY <3>1, <3>2
  <2>2. \A k \in 1..(n - m) : a + k - 1 = m + k
    BY <1>1
  <2>3. QED
    BY <1>3, <2>1, <2>2
<1>6. ASSUME NEW u \in S PROVE [ws EXCEPT ![m] = u] = (pre \o <<u>>) \o post
  <2> DEFINE one == <<u>>
             x == pre \o one
             y == x \o post
             z == [ws EXCEPT ![m] = u]
  <2>1. one \in Seq(S) /\ Len(one) = 1 /\ one[1] = u
    BY OneIs
  <2>2. z \in Seq(S) /\ Len(z) = n /\ \A k \in 1..n : z[k] = IF k = m THEN u ELSE ws[k]
    BY <1>1, ExceptSeq
  <2> HIDE DEF one, z
  <2>3. /\ x \in Seq(S) /\ Len(x) = Len(pre) + Len(one)
        /\ \A k \in 1..Len(pre) : x[k] = pre[k]
        /\ \A k \in 1..Len(one) : x[Len(pre) + k] = one[k]
    <3>1. x = pre \o one /\ one \in Seq(S) /\ pre \in Seq(S)
      BY <1>2, <2>1
    <3> HIDE DEF x
    <3>2. QED
      BY ONLY <3>1, ConcatPlaces
  <2> HIDE DEF x
  <2>4. /\ y \in Seq(S) /\ Len(y) = Len(x) + Len(post)
        /\ \A k \in 1..Len(x) : y[k] = x[k]
        /\ \A k \in 1..Len(post) : y[Len(x) + k] = post[k]
    <3>1. y = x \o post /\ x \in Seq(S) /\ post \in Seq(S)
      BY <1>3, <2>3
    <3> HIDE DEF y
    <3>2. QED
      BY ONLY <3>1, ConcatPlaces
  <2> HIDE DEF y
  <2>5. Len(x) = m /\ Len(y) = n
    BY <1>1, <1>4, <1>5, <2>1, <2>3, <2>4
  <2>6. ASSUME NEW k \in 1..n PROVE z[k] = y[k]
    <3>1. CASE k < m
      <4>1. k \in 1..l /\ k \in 1..Len(x) /\ k # m
        BY <1>1, <2>5, <3>1
      <4>2. QED
        BY <1>4, <2>2, <2>3, <2>4, <4>1
    <3>2. CASE k = m
      <4>1. 1 \in 1..Len(one) /\ Len(pre) + 1 = m /\ m \in 1..Len(x)
        BY <1>1, <1>4, <2>1, <2>5
      <4>2. x[m] = u
        BY <2>1, <2>3, <4>1
      <4>3. QED
        BY <2>2, <2>4, <3>2, <4>1, <4>2
    <3>3. CASE k > m
      <4>1. k - m \in 1..(n - m) /\ m + (k - m) = k /\ k # m
        BY <1>1, <3>3
      <4>2. y[k] = post[k - m]
        BY <1>5, <2>4, <2>5, <4>1
      <4>3. QED
        BY <1>5, <2>2, <4>1, <4>2
    <3>4. QED
      BY <1>1, <3>1, <3>2, <3>3
  <2>7. z = y
    BY <2>2, <2>4, <2>5, <2>6, SeqEqual
  <2>8. QED
    BY <2>7 DEF z, y, x, one
<1>7. Splits(S, ws, m, pre, post)
  BY <1>4, <1>6 DEF Splits
<1>8. QED
  BY <1>2, <1>3, <1>7

\* What stands behind the last of some words when others follow
Rest(ws) == IF ws = <<>> THEN <<>> ELSE <<Space>> \o Joined(ws)

LEMMA JoinedRest ==
  ASSUME NEW ws \in Seq(Seq(Piece)), NEW vs \in Seq(Seq(Piece)), ws # <<>>
  PROVE  Rest(vs) \in Seq(Piece) /\ Joined(ws \o vs) = Joined(ws) \o Rest(vs)
<1>0. Joined(ws) \in Seq(Piece)
  BY JoinedType
<1>1. CASE vs = <<>>
  <2>1. Rest(vs) = <<>> /\ ws \o vs = ws
    BY <1>1, ConcatEmptySeq DEF Rest
  <2>2. Joined(ws) \o <<>> = Joined(ws)
    <3> DEFINE j == Joined(ws)
    <3>1. j \in Seq(Piece)
      BY <1>0
    <3> HIDE DEF j
    <3>2. j \o <<>> = j
      BY <3>1, ConcatEmptySeq
    <3>3. QED
      BY <3>2 DEF j
  <2>3. <<>> \in Seq(Piece)
    BY EmptySeq
  <2>4. QED
    BY <2>1, <2>2, <2>3
<1>2. CASE vs # <<>>
  <2> DEFINE sp == <<Space>>
             i == Joined(ws)
             j == Joined(vs)
  <2>1. i \in Seq(Piece) /\ sp \in Seq(Piece) /\ j \in Seq(Piece)
    BY <1>0, <1>2, JoinedType, SpaceAlone
  <2>2. Joined(ws \o vs) = (i \o sp) \o j /\ Rest(vs) = sp \o j
    BY <1>2, JoinedConcat DEF Rest
  <2>3. \A s, t, u \in Seq(Piece) : (s \o t) \o u = s \o (t \o u)
    BY ONLY Associative
  <2> HIDE DEF sp, i, j
  <2>4. (i \o sp) \o j = i \o (sp \o j)
    BY <2>1, <2>3, Zenon
  <2>5. sp \o j \in Seq(Piece)
    BY <2>1, ConcatProperties
  <2>6. QED
    BY <2>2, <2>4, <2>5 DEF i
<1>3. QED
  BY <1>1, <1>2

-----------------------------------------------------------------------------
(***************************************************************************)
(* The commands for which the code does what it should                     *)
(***************************************************************************)
\* ".wasm" is not in the first word, and only at the end of the others.
Tidy(ws) ==
  /\ ws \in Seq(Word) /\ ws # <<>>
  /\ ~Has(ws[1], WasmSuffix)
  /\ \A k \in 1..Len(ws) : OnlyLast(ws[k])

\* A name of a WebAssembly file
FileName(w) ==
  w \in Word /\ ~Has(w, DirOption) /\ NamesWasm(w) /\ OnlyLast(w)

LEMMA TidyIs ==
  ASSUME NEW ws, Tidy(ws)
  PROVE  /\ ws \in Seq(Word) /\ ws \in Seq(Seq(Piece)) /\ ws # <<>>
         /\ Len(ws) \in Nat \ {0} /\ 1 \in 1..Len(ws) /\ DOMAIN ws = 1..Len(ws)
         /\ ~NamesWasm(ws[1])
         /\ \A k \in 1..Len(ws) : /\ ws[k] \in Word /\ ws[k] \in Seq(Piece) /\ ~Has(ws[k], Space)
                                  /\ NamesWasm(ws[k]) <=> Has(ws[k], WasmSuffix)
<1>1. /\ ws \in Seq(Word) /\ ws \in Seq(Seq(Piece)) /\ ws # <<>>
      /\ \A k \in 1..Len(ws) : ws[k] \in Word /\ ws[k] \in Seq(Piece) /\ ~Has(ws[k], Space)
  BY WordsType DEF Tidy
<1>2. Len(ws) \in Nat \ {0} /\ 1 \in 1..Len(ws) /\ DOMAIN ws = 1..Len(ws)
  <2>1. Len(ws) \in Nat \ {0}
    BY <1>1, EmptySeq
  <2>2. QED
    BY <1>1, <2>1, LenProperties
<1>3. ASSUME NEW k \in 1..Len(ws) PROVE NamesWasm(ws[k]) <=> Has(ws[k], WasmSuffix)
  <2> DEFINE w == ws[k]
  <2>1. w \in Seq(Piece) /\ \A j \in DOMAIN w : w[j] = WasmSuffix => j = Len(w)
    BY <1>1 DEF Tidy, OnlyLast
  <2> HIDE DEF w
  <2>2. DOMAIN w = 1..Len(w) /\ Len(w) \in Nat /\ (w = <<>> <=> Len(w) = 0)
    BY <2>1, LenProperties, EmptySeq
  <2>3. NamesWasm(w) => Has(w, WasmSuffix)
    <3>1. ASSUME NamesWasm(w) PROVE Len(w) \in DOMAIN w /\ w[Len(w)] = WasmSuffix
      BY <2>2, <3>1 DEF NamesWasm, Last
    <3>2. QED
      BY <3>1 DEF Has
  <2>4. Has(w, WasmSuffix) => NamesWasm(w)
    <3>1. ASSUME NEW j \in DOMAIN w, w[j] = WasmSuffix PROVE w # <<>> /\ w[Len(w)] = WasmSuffix
      BY <2>1, <2>2, <3>1
    <3>2. QED
      BY <3>1 DEF Has, NamesWasm, Last
  <2>5. QED
    BY <2>3, <2>4 DEF w
<1>4. ~NamesWasm(ws[1])
  BY <1>2, <1>3 DEF Tidy
<1>5. QED
  BY <1>1, <1>2, <1>3, <1>4

LEMMA NamedNone ==
  ASSUME NEW ws \in Seq(Word), NEW w, \A k \in 1..Len(ws) : ~NamesWasm(ws[k])
  PROVE  Named(ws, w) = Append(ws, w)
<1>1. {k \in DOMAIN ws : NamesWasm(ws[k])} = {}
  BY LenProperties
<1>2. QED
  BY <1>1 DEF Named

LEMMA NamedAt ==
  ASSUME NEW ws \in Seq(Word), NEW w, NEW m \in 1..Len(ws), NamesWasm(ws[m]),
         \A k \in 1..(m - 1) : ~NamesWasm(ws[k])
  PROVE  Named(ws, w) = [ws EXCEPT ![m] = w]
<1> DEFINE T == {k \in DOMAIN ws : NamesWasm(ws[k])}
           c == CHOOSE k \in T : \A j \in T : k <= j
<1>1. T \subseteq 1..Len(ws) /\ m \in T /\ Len(ws) \in Nat
  BY LenProperties
<1>2. \A k \in T : NamesWasm(ws[k])
  OBVIOUS
<1> HIDE DEF T
<1>3. ASSUME NEW j \in T PROVE m <= j
  <2>1. SUFFICES ASSUME ~(m <= j) PROVE FALSE
    OBVIOUS
  <2>2. j \in 1..(m - 1)
    BY <1>1, <2>1
  <2>3. QED
    BY <1>2, <2>2
<1>4. \E k \in T : \A j \in T : k <= j
  BY <1>1, <1>3
<1>5. c \in T /\ \A j \in T : c <= j
  BY <1>4
<1> HIDE DEF c
<1>6. c = m
  <2>1. c <= m /\ m <= c
    BY <1>1, <1>3, <1>5
  <2>2. c \in Nat /\ m \in Nat
    BY <1>1, <1>5
  <2>3. QED
    BY <2>1, <2>2
<1>7. T # {}
  BY <1>1
<1>8. Named(ws, w) = [ws EXCEPT ![c] = w]
  BY <1>7 DEF Named, T, c
<1>9. QED
  BY <1>6, <1>8

\* One of the two applies.
LEMMA NamedSomewhere ==
  ASSUME NEW ws \in Seq(Word)
  PROVE  \/ \A k \in 1..Len(ws) : ~NamesWasm(ws[k])
         \/ \E m \in 1..Len(ws) : NamesWasm(ws[m]) /\ \A k \in 1..(m - 1) : ~NamesWasm(ws[k])
<1> DEFINE T == {k \in 1..Len(ws) : NamesWasm(ws[k])}
<1>1. SUFFICES ASSUME T # {}
               PROVE  \E m \in 1..Len(ws) : /\ NamesWasm(ws[m])
                                            /\ \A k \in 1..(m - 1) : ~NamesWasm(ws[k])
  BY DEF T
<1>2. T \in SUBSET Nat /\ Len(ws) \in Nat
  BY LenProperties
<1>3. PICK m \in T : \A k \in T : m <= k
  <2> HIDE DEF T
  <2>1. QED
    BY <1>1, <1>2, Least
<1>4. ASSUME NEW k \in 1..(m - 1) PROVE ~NamesWasm(ws[k])
  <2>1. k \in 1..Len(ws) /\ ~(m <= k)
    BY <1>2
  <2>2. k \notin T
    <3> HIDE DEF T
    <3>1. QED
      BY <1>3, <2>1
  <2>3. QED
    BY <2>1, <2>2
<1>5. QED
  BY <1>4

-----------------------------------------------------------------------------
(***************************************************************************)
(* The second half of modify_runtime_command(), word by word               *)
(***************************************************************************)
LEMMA WithFileJoined ==
  ASSUME NEW ws, Tidy(ws), NEW w \in Word
  PROVE  WithFile(Joined(ws), w) = Joined(Named(ws, w))
<1> DEFINE sp == <<Space>>
           S == Seq(Piece)
           n == Len(ws)
<1>0. WasmSuffix # Space
  BY RuntimeCommandConstants
<1>1. /\ ws \in Seq(Word) /\ ws \in Seq(S) /\ ws # <<>>
      /\ n \in Nat \ {0} /\ DOMAIN ws = 1..n /\ ~NamesWasm(ws[1])
      /\ \A k \in 1..n : /\ ws[k] \in S /\ ~Has(ws[k], Space)
                         /\ NamesWasm(ws[k]) <=> Has(ws[k], WasmSuffix)
  BY TidyIs
<1>2. w \in S
  <2>1. Word \subseteq Seq(Piece)
    BY SeqMonotonic DEF Word
  <2>2. QED
    BY <2>1
<1>3. sp \in S /\ Len(sp) = 1 /\ sp[1] = Space /\ ~Has(sp, WasmSuffix)
  BY SpaceAlone
<1>4. CASE \A k \in 1..n : ~NamesWasm(ws[k])
  <2> DEFINE one == <<w>>
  <2>1. ~Has(Joined(ws), WasmSuffix)
    BY <1>0, <1>1, <1>4, JoinedHas
  <2>2. WithFile(Joined(ws), w) = (Joined(ws) \o sp) \o w
    BY <2>1 DEF WithFile
  <2>3. Named(ws, w) = ws \o one
    <3>1. Named(ws, w) = Append(ws, w)
      BY <1>1, <1>4, NamedNone
    <3>2. QED
      BY <1>1, <1>2, <3>1, AppendIsConcat
  <2>4. one \in Seq(S) /\ Len(one) = 1 /\ one[1] = w
    BY <1>2, OneIs
  <2> HIDE DEF one
  <2>5. one # <<>> /\ Joined(one) = w
    <3>1. Len(one) # 0
      BY <2>4
    <3>2. QED
      BY <2>4, <3>1, EmptySeq, EmptyJoined
  <2>6. Joined(ws \o one) = (Joined(ws) \o sp) \o w
    BY <1>1, <2>4, <2>5, JoinedConcat
  <2>7. QED
    BY <2>2, <2>3, <2>6
<1>5. CASE \E m \in 1..n : NamesWasm(ws[m]) /\ \A k \in 1..(m - 1) : ~NamesWasm(ws[k])
  <2>1. PICK m \in 1..n : NamesWasm(ws[m]) /\ \A k \in 1..(m - 1) : ~NamesWasm(ws[k])
    BY <1>5
  <2>2. m # 1 /\ m - 1 \in Nat \ {0}
    BY <1>1, <2>1
  <2>30. PICK pre \in Seq(S), post \in Seq(S) : Splits(S, ws, m, pre, post)
    <3> HIDE DEF S
    <3>1. ws \in Seq(S) /\ m \in 1..Len(ws)
      BY <1>1
    <3>2. QED
      BY <3>1, SplitAt, Zenon
  <2>3. /\ Len(pre) = m - 1
        /\ \A k \in 1..(m - 1) : pre[k] = ws[k]
        /\ \A u \in S : [ws EXCEPT ![m] = u] = (pre \o <<u>>) \o post
    BY <2>30 DEF Splits
  <2> DEFINE v == ws[m]
             q == Joined(pre) \o sp
             r == Rest(post)
  <2>4. v \in S /\ [ws EXCEPT ![m] = v] = ws
    BY <1>1, <2>1
  <2>5. pre # <<>> /\ Joined(pre) \in S
    <3>1. Len(pre) # 0
      BY <2>2, <2>3
    <3>2. pre # <<>>
      BY <3>1, EmptySeq
    <3>3. QED
      BY <3>2, JoinedType
  <2>6. ASSUME NEW u \in S
        PROVE  Joined((pre \o <<u>>) \o post) = (q \o u) \o r /\ r \in S
    <3> DEFINE one == <<u>>
               x == pre \o one
    <3>1. one \in Seq(S) /\ Len(one) = 1 /\ one[1] = u
      BY OneIs
    <3> HIDE DEF one
    <3>2. one # <<>> /\ Joined(one) = u
      <4>1. Len(one) # 0
        BY <3>1
      <4>2. QED
        BY <3>1, <4>1, EmptySeq, EmptyJoined
    <3>3. x \in Seq(S) /\ Len(x) = Len(pre) + Len(one)
      BY <3>1, ConcatProperties
    <3>4. Joined(x) = q \o u
      BY <2>5, <3>1, <3>2, JoinedConcat
    <3>5. x # <<>>
      <4> HIDE DEF x
      <4>1. Len(x) # 0
        BY <2>2, <2>3, <3>1, <3>3
      <4>2. QED
        BY <3>3, <4>1, EmptySeq
    <3> HIDE DEF x, q
    <3>6. r \in S /\ Joined(x \o post) = Joined(x) \o r
      BY <3>3, <3>5, JoinedRest
    <3>7. QED
      BY <3>4, <3>6 DEF x, one
  <2>7. q \in S /\ ~Has(q, WasmSuffix) /\ Len(q) # 0 /\ q[Len(q)] = Space
    <3> DEFINE j == Joined(pre)
    <3>1. j \in S
      BY <2>5
    <3>2. ~Has(j, WasmSuffix)
      <4>1. \A k \in 1..Len(pre) : ~Has(pre[k], WasmSuffix)
        <5>1. \A k \in 1..(m - 1) : k \in 1..n
          BY <1>1, <2>2
        <5>2. QED
          BY <1>1, <2>1, <2>3, <5>1
      <4>2. QED
        BY <1>0, <2>5, <4>1, JoinedHas
    <3> HIDE DEF j, sp
    <3>3. j \o sp \in S /\ Len(j \o sp) = Len(j) + Len(sp)
      BY <1>3, <3>1, ConcatProperties
    <3>4. Len(j \o sp) # 0
      BY <1>3, <3>1, <3>3, LenProperties
    <3>5. Has(j \o sp, WasmSuffix) <=> Has(j, WasmSuffix) \/ Has(sp, WasmSuffix)
      BY <1>3, <3>1, HasConcat
    <3>6. (j \o sp)[Len(j \o sp)] = IF Len(sp) = 0 THEN j[Len(j)] ELSE sp[Len(sp)]
      BY <1>3, <3>1, LastConcat
    <3>7. (j \o sp)[Len(j \o sp)] = Space
      BY <1>3, <3>6
    <3>8. QED
      BY <1>3, <3>2, <3>3, <3>4, <3>5, <3>7 DEF j
  <2>8. Len(v) # 0 /\ v[Len(v)] = WasmSuffix /\ ~Has(v, Space) /\ OnlyLast(v)
    <3>1. v # <<>> /\ v[Len(v)] = WasmSuffix
      BY <2>1 DEF NamesWasm, Last
    <3>2. ~Has(v, Space) /\ OnlyLast(v)
      BY <1>1, <2>1 DEF Tidy
    <3> HIDE DEF v
    <3>3. Len(v) # 0
      BY <2>4, <3>1, EmptySeq
    <3>4. QED
      BY <3>1, <3>2, <3>3
  <2> HIDE DEF q, r, v
  <2>9. Joined(ws) = (q \o v) \o r /\ r \in S
    BY <2>3, <2>4, <2>6
  <2>10. Named(ws, w) = [ws EXCEPT ![m] = w]
    BY <1>1, <2>1, NamedAt
  <2>11. Joined(Named(ws, w)) = (q \o w) \o r
    BY <1>2, <2>3, <2>6, <2>10
  <2>12. WithFile((q \o v) \o r, w) = (q \o w) \o r
    <3>1. /\ q \in Seq(Piece) /\ v \in Seq(Piece) /\ r \in Seq(Piece) /\ w \in Seq(Piece)
          /\ ~Has(q, WasmSuffix) /\ Len(q) # 0 /\ q[Len(q)] = Space
          /\ Len(v) # 0 /\ v[Len(v)] = WasmSuffix /\ ~Has(v, Space) /\ OnlyLast(v)
      BY <1>2, <2>4, <2>7, <2>8, <2>9
    <3>2. QED
      BY <3>1, WithFilePlace, ZenonT(60)
  <2>13. QED
    BY <2>9, <2>11, <2>12
<1>6. QED
  BY <1>1, <1>4, <1>5, NamedSomewhere

LEMMA NamedTidy ==
  ASSUME NEW ws, Tidy(ws), NEW w, FileName(w)
  PROVE  /\ Tidy(Named(ws, w)) /\ Named(Named(ws, w), w) = Named(ws, w)
         /\ \A k \in 1..Len(ws) : ~NamesWasm(ws[k]) =>
              k \in 1..Len(Named(ws, w)) /\ Named(ws, w)[k] = ws[k]
         /\ \A k \in 1..Len(Named(ws, w)) :
              Named(ws, w)[k] = w \/ (k \in 1..Len(ws) /\ Named(ws, w)[k] = ws[k])
<1> DEFINE n == Len(ws)
           x == Named(ws, w)
<1>1. /\ ws \in Seq(Word) /\ n \in Nat \ {0} /\ 1 \in 1..n /\ ~NamesWasm(ws[1])
      /\ ~Has(ws[1], WasmSuffix) /\ \A k \in 1..n : OnlyLast(ws[k])
  BY TidyIs DEF Tidy
<1>2. w \in Word /\ NamesWasm(w) /\ OnlyLast(w)
  BY DEF FileName
<1>3. \E m \in 1..(n + 1) :
        /\ x \in Seq(Word) /\ Len(x) \in {n, n + 1} /\ m \in 1..Len(x) /\ x[m] = w
        /\ \A k \in 1..(m - 1) : ~NamesWasm(ws[k])
        /\ \A k \in 1..Len(x) : k # m => k \in 1..n /\ x[k] = ws[k]
        /\ n <= Len(x)
        /\ m \in 1..n => NamesWasm(ws[m])
  <2>1. CASE \A k \in 1..n : ~NamesWasm(ws[k])
    <3>1. x = Append(ws, w)
      BY <1>1, <2>1, NamedNone
    <3>2. /\ x \in Seq(Word) /\ Len(x) = n + 1
          /\ \A k \in 1..n : x[k] = ws[k]
          /\ x[n + 1] = w
      <4> HIDE DEF x
      <4>1. QED
        BY <1>1, <1>2, <3>1, AppendProperties
    <3> DEFINE m == n + 1
    <3>3. m \in 1..(n + 1) /\ m \in 1..Len(x) /\ x[m] = w /\ m \notin 1..n /\ n <= Len(x)
      BY <1>1, <3>2
    <3>4. \A k \in 1..(m - 1) : ~NamesWasm(ws[k])
      BY <1>1, <2>1
    <3>5. \A k \in 1..Len(x) : k # m => k \in 1..n /\ x[k] = ws[k]
      <4>1. \A k \in 1..(n + 1) : k # n + 1 => k \in 1..n
        BY <1>1
      <4> HIDE DEF x
      <4>2. QED
        BY <3>2, <4>1
    <3> HIDE DEF m, x
    <3>6. QED
      BY <3>2, <3>3, <3>4, <3>5
  <2>2. CASE \E m \in 1..n : NamesWasm(ws[m]) /\ \A k \in 1..(m - 1) : ~NamesWasm(ws[k])
    <3>1. PICK m \in 1..n : NamesWasm(ws[m]) /\ \A k \in 1..(m - 1) : ~NamesWasm(ws[k])
      BY <2>2
    <3>2. x = [ws EXCEPT ![m] = w]
      BY <1>1, <3>1, NamedAt
    <3>3. x \in Seq(Word) /\ Len(x) = n /\ \A k \in 1..n : x[k] = IF k = m THEN w ELSE ws[k]
      <4> HIDE DEF x
      <4>1. QED
        BY <1>1, <1>2, <3>2, ExceptSeq
    <3>4. m \in 1..(n + 1) /\ n <= n
      BY <1>1
    <3> HIDE DEF x
    <3>5. QED
      BY <3>1, <3>3, <3>4
  <2>3. QED
    BY <1>1, <2>1, <2>2, NamedSomewhere
<1>4. PICK m \in 1..(n + 1) :
        /\ x \in Seq(Word) /\ Len(x) \in {n, n + 1} /\ m \in 1..Len(x) /\ x[m] = w
        /\ \A k \in 1..(m - 1) : ~NamesWasm(ws[k])
        /\ \A k \in 1..Len(x) : k # m => k \in 1..n /\ x[k] = ws[k]
        /\ n <= Len(x)
        /\ m \in 1..n => NamesWasm(ws[m])
  BY <1>3
<1> HIDE DEF x
<1>5. 1 # m /\ 1 \in 1..Len(x)
  BY <1>1, <1>4
<1>6. Tidy(x)
  <2>1. ~Has(x[1], WasmSuffix)
    BY <1>1, <1>4, <1>5
  <2>2. \A k \in 1..Len(x) : OnlyLast(x[k])
    BY <1>1, <1>2, <1>4
  <2>3. x # <<>>
    <3>1. Len(x) # 0
      BY <1>5
    <3>2. QED
      BY <1>4, <3>1, EmptySeq
  <2>4. QED
    BY <1>4, <2>1, <2>2, <2>3 DEF Tidy
<1>7. Named(x, w) = x
  <2>1. \A k \in 1..(m - 1) : ~NamesWasm(x[k])
    <3>1. \A k \in 1..(m - 1) : k \in 1..Len(x) /\ k # m
      BY <1>1, <1>4
    <3>2. QED
      BY <1>4, <3>1
  <2>2. Named(x, w) = [x EXCEPT ![m] = w]
    BY <1>2, <1>4, <2>1, NamedAt
  <2>3. [x EXCEPT ![m] = w] = x
    BY <1>4
  <2>4. QED
    BY <2>2, <2>3
<1>8. ASSUME NEW k \in 1..n, ~NamesWasm(ws[k]) PROVE k \in 1..Len(x) /\ x[k] = ws[k]
  <2>1. k # m /\ k \in 1..Len(x)
    BY <1>1, <1>4, <1>8
  <2>2. QED
    BY <1>4, <2>1
<1>9. ASSUME NEW k \in 1..Len(x) PROVE x[k] = w \/ (k \in 1..n /\ x[k] = ws[k])
  <2>1. CASE k = m
    BY <1>4, <2>1
  <2>2. CASE k # m
    BY <1>4, <2>2
  <2>3. QED
    BY <2>1, <2>2
<1>10. QED
  BY <1>6, <1>7, <1>8, <1>9 DEF x

LEMMA WithOptionIs ==
  ASSUME NEW ws \in Seq(Word), ws # <<>>
  PROVE  /\ WithOption(ws) \in Seq(Word) /\ Len(WithOption(ws)) = Len(ws) + 1
         /\ WithOption(ws)[1] = ws[1] /\ WithOption(ws)[2] = <<DirOption>>
         /\ \A k \in 2..Len(ws) : WithOption(ws)[k + 1] = ws[k]
<1> DEFINE pair == <<ws[1], <<DirOption>>>>
           rest == Tail(ws)
           x == pair \o rest
           n == Len(ws)
<1>1. n \in Nat \ {0} /\ \A k \in 1..n : ws[k] \in Word
  BY EmptySeq, ElementOfSeq
<1>2. <<DirOption>> \in Word
  <2>1. DirOption \in Piece \ {Space}
    BY RuntimeCommandConstants DEF Piece
  <2>2. QED
    BY <2>1 DEF Word
<1>3. pair \in Seq(Word) /\ Len(pair) = 2 /\ pair[1] = ws[1] /\ pair[2] = <<DirOption>>
  <2> DEFINE u == ws[1]
             v == <<DirOption>>
  <2>1. u \in Word /\ v \in Word
    BY <1>1, <1>2
  <2> HIDE DEF u, v
  <2>2. <<u, v>> \in Seq(Word) /\ Len(<<u, v>>) = 2 /\ <<u, v>>[1] = u /\ <<u, v>>[2] = v
    BY <2>1
  <2>3. QED
    BY <2>2 DEF u, v
<1>4. rest \in Seq(Word) /\ Len(rest) = n - 1 /\ \A k \in 1..(n - 1) : rest[k] = ws[k + 1]
  BY HeadTailProperties
<1> HIDE DEF pair, rest
<1>5. /\ x \in Seq(Word) /\ Len(x) = Len(pair) + Len(rest)
      /\ \A k \in 1..Len(pair) : x[k] = pair[k]
      /\ \A k \in 1..Len(rest) : x[Len(pair) + k] = rest[k]
  <2>1. x = pair \o rest /\ pair \in Seq(Word) /\ rest \in Seq(Word)
    BY <1>3, <1>4
  <2> HIDE DEF x
  <2>2. QED
    BY ONLY <2>1, ConcatPlaces
<1> HIDE DEF x
<1>6. Len(x) = n + 1
  BY <1>1, <1>3, <1>4, <1>5
<1>7. x[1] = ws[1] /\ x[2] = <<DirOption>>
  <2>1. 1 \in 1..2 /\ 2 \in 1..2
    OBVIOUS
  <2>2. QED
    BY <1>3, <1>5, <2>1
<1>8. ASSUME NEW k \in 2..n PROVE x[k + 1] = ws[k]
  <2> DEFINE i == k - 1
  <2>1. i \in 1..(n - 1) /\ 2 + i = k + 1 /\ i + 1 = k
    BY <1>1
  <2> HIDE DEF i
  <2>2. rest[i] = ws[k]
    BY <1>4, <2>1
  <2>3. x[2 + i] = rest[i]
    BY <1>3, <1>4, <1>5, <2>1
  <2>4. QED
    BY <2>1, <2>2, <2>3
<1>9. QED
  BY <1>5, <1>6, <1>7, <1>8 DEF x, WithOption, pair, rest

LEMMA WithOptionOnly ==
  ASSUME NEW ws \in Seq(Word), ws # <<>>, NEW x \in Seq(Word), Len(x) = Len(ws) + 1,
         x[1] = ws[1], x[2] = <<DirOption>>, \A k \in 2..Len(ws) : x[k + 1] = ws[k]
  PROVE  x = WithOption(ws)
<1> DEFINE y == WithOption(ws)
           n == Len(ws)
<1>1. /\ y \in Seq(Word) /\ Len(y) = n + 1 /\ y[1] = ws[1] /\ y[2] = <<DirOption>>
      /\ \A k \in 2..n : y[k + 1] = ws[k]
  BY WithOptionIs
<1>2. n \in Nat
  BY LenProperties
<1> HIDE DEF y
<1>3. ASSUME NEW k \in 1..(n + 1) PROVE x[k] = y[k]
  <2>1. CASE k \in {1, 2}
    BY <1>1, <2>1
  <2>2. CASE k \notin {1, 2}
    <3>1. k - 1 \in 2..n /\ (k - 1) + 1 = k
      BY <1>2, <2>2
    <3>2. x[(k - 1) + 1] = ws[k - 1] /\ y[(k - 1) + 1] = ws[k - 1]
      BY <1>1, <3>1
    <3>3. QED
      BY <3>1, <3>2
  <2>3. QED
    BY <2>1, <2>2
<1>4. x = y
  BY <1>1, <1>3, SeqEqual
<1>5. QED
  BY <1>4 DEF y

\* Naming the file and adding the option may be done in either order.
LEMMA WithOptionTidy ==
  ASSUME NEW ws, Tidy(ws), NEW w \in Word
  PROVE  Tidy(WithOption(ws)) /\ Named(WithOption(ws), w) = WithOption(Named(ws, w))
<1> DEFINE n == Len(ws)
           x == WithOption(ws)
           dir == <<DirOption>>
<1>1. /\ ws \in Seq(Word) /\ ws # <<>> /\ n \in Nat \ {0} /\ 1 \in 1..n /\ ~NamesWasm(ws[1])
      /\ ~Has(ws[1], WasmSuffix) /\ \A k \in 1..n : OnlyLast(ws[k])
  BY TidyIs DEF Tidy
<1>2. OnlyLast(dir) /\ ~NamesWasm(dir)
  BY RuntimeCommandConstants DEF OnlyLast, NamesWasm, Last
<1>3. /\ x \in Seq(Word) /\ Len(x) = n + 1 /\ x[1] = ws[1] /\ x[2] = dir
      /\ \A k \in 2..n : x[k + 1] = ws[k]
  BY <1>1, WithOptionIs
<1> HIDE DEF x, dir
<1>4. \A k \in 1..(n + 1) : k = 1 \/ k = 2 \/ (k - 1 \in 2..n /\ (k - 1) + 1 = k)
  BY <1>1
<1>5. Tidy(x)
  <2>1. ASSUME NEW k \in 1..(n + 1) PROVE OnlyLast(x[k])
    <3>1. CASE k = 1 \/ k = 2
      BY <1>1, <1>2, <1>3, <3>1
    <3>2. CASE k - 1 \in 2..n /\ (k - 1) + 1 = k
      <4>1. x[k] = ws[k - 1] /\ k - 1 \in 1..n
        BY <1>1, <1>3, <3>2
      <4>2. QED
        BY <1>1, <4>1
    <3>3. QED
      BY <1>4, <3>1, <3>2
  <2>2. x # <<>>
    <3>1. Len(x) # 0
      BY <1>1, <1>3
    <3>2. QED
      BY <1>3, <3>1, EmptySeq
  <2>3. QED
    BY <1>1, <1>3, <2>1, <2>2 DEF Tidy
<1>6. CASE \A k \in 1..n : ~NamesWasm(ws[k])
  <2> DEFINE a == Append(ws, w)
             y == Append(x, w)
  <2>1. \A k \in 1..(n + 1) : ~NamesWasm(x[k])
    <3>1. ASSUME NEW k \in 1..(n + 1) PROVE ~NamesWasm(x[k])
      <4>1. CASE k = 1 \/ k = 2
        BY <1>1, <1>2, <1>3, <4>1
      <4>2. CASE k - 1 \in 2..n /\ (k - 1) + 1 = k
        <5>1. x[k] = ws[k - 1] /\ k - 1 \in 1..n
          BY <1>1, <1>3, <4>2
        <5>2. QED
          BY <1>6, <5>1
      <4>3. QED
        BY <1>4, <4>1, <4>2
    <3>2. QED
      BY <3>1
  <2>2. Named(ws, w) = a /\ Named(x, w) = y
    BY <1>1, <1>3, <1>6, <2>1, NamedNone
  <2>3. /\ a \in Seq(Word) /\ Len(a) = n + 1 /\ a[n + 1] = w
        /\ \A k \in 1..n : a[k] = ws[k]
    BY <1>1, AppendProperties
  <2>4. /\ y \in Seq(Word) /\ Len(y) = (n + 1) + 1 /\ y[(n + 1) + 1] = w
        /\ \A k \in 1..(n + 1) : y[k] = x[k]
    BY <1>3, AppendProperties
  <2> HIDE DEF a, y
  <2>5. a # <<>>
    <3>1. Len(a) # 0
      BY <1>1, <2>3
    <3>2. QED
      BY <2>3, <3>1, EmptySeq
  <2>6. y[1] = a[1] /\ y[2] = dir
    <3>1. 1 \in 1..(n + 1) /\ 2 \in 1..(n + 1)
      BY <1>1
    <3>2. QED
      BY <1>1, <1>3, <2>3, <2>4, <3>1
  <2>7. ASSUME NEW k \in 2..(n + 1) PROVE y[k + 1] = a[k]
    <3>1. CASE k = n + 1
      BY <2>3, <2>4, <3>1
    <3>2. CASE k # n + 1
      <4>1. k \in 2..n /\ k \in 1..n /\ k + 1 \in 1..(n + 1)
        BY <1>1, <3>2
      <4>2. QED
        BY <1>3, <2>3, <2>4, <4>1
    <3>3. QED
      BY <3>1, <3>2
  <2>8. y = WithOption(a)
    BY <2>3, <2>4, <2>5, <2>6, <2>7, WithOptionOnly DEF dir
  <2>9. QED
    BY <1>5, <2>2, <2>8 DEF x
<1>7. CASE \E m \in 1..n : NamesWasm(ws[m]) /\ \A k \in 1..(m - 1) : ~NamesWasm(ws[k])
  <2>1. PICK m \in 1..n : NamesWasm(ws[m]) /\ \A k \in 1..(m - 1) : ~NamesWasm(ws[k])
    BY <1>7
  <2>2. m \in 2..n /\ m + 1 \in 1..(n + 1)
    <3>1. m # 1
      BY <1>1, <2>1
    <3>2. QED
      BY <1>1, <3>1
  <2> DEFINE a == [ws EXCEPT ![m] = w]
             y == [x EXCEPT ![m + 1] = w]
  <2>3. NamesWasm(x[m + 1]) /\ \A k \in 1..m : ~NamesWasm(x[k])
    <3>1. ASSUME NEW k \in 1..m PROVE ~NamesWasm(x[k])
      <4>1. CASE k = 1 \/ k = 2
        BY <1>1, <1>2, <1>3, <4>1
      <4>2. CASE ~(k = 1 \/ k = 2)
        <5>1. k - 1 \in 2..n /\ (k - 1) + 1 = k /\ k - 1 \in 1..(m - 1)
          BY <1>1, <4>2
        <5>2. x[k] = ws[k - 1]
          BY <1>3, <5>1
        <5>3. QED
          BY <2>1, <5>1, <5>2
      <4>3. QED
        BY <4>1, <4>2
    <3>2. QED
      BY <1>3, <2>1, <2>2, <3>1
  <2>4. Named(ws, w) = a
    BY <1>1, <2>1, NamedAt
  <2>5. Named(x, w) = y
    <3> DEFINE l == m + 1
    <3>1. l \in 1..Len(x) /\ NamesWasm(x[l]) /\ l - 1 = m
      BY <1>1, <1>3, <2>2, <2>3
    <3>2. \A k \in 1..(l - 1) : ~NamesWasm(x[k])
      BY <2>3, <3>1
    <3> HIDE DEF l
    <3>3. Named(x, w) = [x EXCEPT ![l] = w]
      BY <1>3, <3>1, <3>2, NamedAt
    <3>4. QED
      BY <3>3 DEF l
  <2>6. /\ a \in Seq(Word) /\ Len(a) = n
        /\ \A k \in 1..n : a[k] = IF k = m THEN w ELSE ws[k]
    BY <1>1, ExceptSeq
  <2>7. /\ y \in Seq(Word) /\ Len(y) = n + 1
        /\ \A k \in 1..(n + 1) : y[k] = IF k = m + 1 THEN w ELSE x[k]
    <3> DEFINE l == m + 1
    <3>1. l \in 1..Len(x)
      BY <1>3, <2>2
    <3> HIDE DEF l
    <3>2. LET z == [x EXCEPT ![l] = w]
          IN  /\ z \in Seq(Word) /\ Len(z) = Len(x)
              /\ \A k \in 1..Len(x) : z[k] = IF k = l THEN w ELSE x[k]
      BY <1>3, <3>1, ExceptSeq
    <3>3. QED
      BY <1>3, <3>2 DEF l
  <2> HIDE DEF a, y
  <2>8. a # <<>>
    <3>1. Len(a) # 0
      BY <1>1, <2>6
    <3>2. QED
      BY <2>6, <3>1, EmptySeq
  <2>9. y[1] = a[1] /\ y[2] = dir
    <3>1. 1 \in 1..(n + 1) /\ 2 \in 1..(n + 1) /\ 1 # m + 1 /\ 2 # m + 1 /\ 1 # m
      BY <1>1, <2>2
    <3>2. QED
      BY <1>1, <1>3, <2>6, <2>7, <3>1
  <2>10. ASSUME NEW k \in 2..n PROVE y[k + 1] = a[k]
    <3>1. k \in 1..n /\ k + 1 \in 1..(n + 1) /\ (k = m <=> k + 1 = m + 1)
      BY <1>1, <2>2
    <3>2. QED
      BY <1>3, <2>6, <2>7, <3>1
  <2>11. y = WithOption(a)
    BY <2>6, <2>7, <2>8, <2>9, <2>10, WithOptionOnly DEF dir
  <2>12. QED
    BY <1>5, <2>4, <2>5, <2>11 DEF x
<1>8. QED
  BY <1>1, <1>6, <1>7, NamedSomewhere

-----------------------------------------------------------------------------
(***************************************************************************)
(* What the edited command is                                              *)
(***************************************************************************)
\* The result of an edit: what is expected, or without the option because
\* another directory is opened
Final(cmd, ws, w) ==
  \/ cmd = Joined(Expected(ws, w))
  \/ /\ \E k \in DOMAIN ws : Has(ws[k], DirOption) /\ ws[k] # <<DirOption>>
     /\ cmd = Joined(Named(ws, w))

LEMMA ExpectedIs ==
  ASSUME NEW ws, NEW w
  PROVE  Expected(ws, w) =
           IF \E k \in DOMAIN ws : ws[k] = <<DirOption>> THEN Named(ws, w)
           ELSE WithOption(Named(ws, w))
BY DEF Expected, WithOption

LEMMA DirIs ==
  <<DirOption>> \in Seq(Piece) /\ Has(<<DirOption>>, DirOption) /\ ~NamesWasm(<<DirOption>>)
<1>1. DirOption \in Piece /\ DirOption # WasmSuffix
  BY RuntimeCommandConstants DEF Piece
<1>2. <<DirOption>> \in Seq(Piece)
  BY <1>1
<1>3. Has(<<DirOption>>, DirOption)
  BY DEF Has
<1>4. ~NamesWasm(<<DirOption>>)
  BY <1>1 DEF NamesWasm, Last
<1>5. QED
  BY <1>2, <1>3, <1>4

LEMMA EditedTidy ==
  ASSUME NEW ws, Tidy(ws), NEW w, FileName(w)
  PROVE  modify_runtime_command(Joined(ws), w) =
           IF \E k \in 1..Len(ws) : Has(ws[k], DirOption) THEN Joined(Named(ws, w))
           ELSE Joined(WithOption(Named(ws, w)))
<1>1. ws \in Seq(Word) /\ ws # <<>> /\ w \in Word
  BY DEF Tidy, FileName
<1>2. WithDir(Joined(ws)) =
        IF \E k \in 1..Len(ws) : Has(ws[k], DirOption) THEN Joined(ws) ELSE Joined(WithOption(ws))
  BY <1>1, WithDirJoined
<1>3. modify_runtime_command(Joined(ws), w) = WithFile(WithDir(Joined(ws)), w)
  BY DEF modify_runtime_command
<1>4. CASE \E k \in 1..Len(ws) : Has(ws[k], DirOption)
  <2>1. WithDir(Joined(ws)) = Joined(ws)
    BY <1>2, <1>4
  <2>2. WithFile(Joined(ws), w) = Joined(Named(ws, w))
    BY <1>1, WithFileJoined
  <2>3. QED
    BY <1>3, <1>4, <2>1, <2>2
<1>5. CASE ~\E k \in 1..Len(ws) : Has(ws[k], DirOption)
  <2>1. WithDir(Joined(ws)) = Joined(WithOption(ws))
    BY <1>2, <1>5
  <2>2. Tidy(WithOption(ws)) /\ Named(WithOption(ws), w) = WithOption(Named(ws, w))
    BY <1>1, WithOptionTidy
  <2>3. WithFile(Joined(WithOption(ws)), w) = Joined(Named(WithOption(ws), w))
    BY <1>1, <2>2, WithFileJoined
  <2>4. QED
    BY <1>3, <1>5, <2>1, <2>2, <2>3
<1>6. QED
  BY <1>4, <1>5

LEMMA EditedOnce ==
  ASSUME NEW ws, Tidy(ws), NEW w, FileName(w)
  PROVE  Final(modify_runtime_command(Joined(ws), w), ws, w)
<1> DEFINE cmd == modify_runtime_command(Joined(ws), w)
           exact == \E k \in DOMAIN ws : ws[k] = <<DirOption>>
           some == \E k \in 1..Len(ws) : Has(ws[k], DirOption)
           another == \E k \in DOMAIN ws : Has(ws[k], DirOption) /\ ws[k] # <<DirOption>>
<1>1. DOMAIN ws = 1..Len(ws)
  BY TidyIs
<1>2. cmd = IF some THEN Joined(Named(ws, w)) ELSE Joined(WithOption(Named(ws, w)))
  BY EditedTidy
<1>3. Expected(ws, w) = IF exact THEN Named(ws, w) ELSE WithOption(Named(ws, w))
  BY ExpectedIs
<1>4. exact => some
  BY <1>1, DirIs
<1>5. some => exact \/ another
  BY <1>1
<1>6. Final(cmd, ws, w) <=> cmd = Joined(Expected(ws, w)) \/ (another /\ cmd = Joined(Named(ws, w)))
  BY DEF Final
<1> HIDE DEF cmd, exact, some, another
<1>7. Final(cmd, ws, w)
  BY <1>2, <1>3, <1>4, <1>5, <1>6
<1>8. QED
  BY <1>7 DEF cmd

LEMMA EditedAgain ==
  ASSUME NEW ws, Tidy(ws), NEW w, FileName(w), NEW old, Final(old, ws, w)
  PROVE  Final(modify_runtime_command(old, w), ws, w)
<1> DEFINE named == Named(ws, w)
           opened == WithOption(named)
           exact == \E k \in DOMAIN ws : ws[k] = <<DirOption>>
           another == \E k \in DOMAIN ws : Has(ws[k], DirOption) /\ ws[k] # <<DirOption>>
           cmd == modify_runtime_command(old, w)
<1>1. DOMAIN ws = 1..Len(ws)
  BY TidyIs
<1>2. Expected(ws, w) = IF exact THEN named ELSE opened
  BY ExpectedIs
<1>3. /\ Tidy(named) /\ Named(named, w) = named
      /\ \A k \in 1..Len(ws) : ~NamesWasm(ws[k]) => k \in 1..Len(named) /\ named[k] = ws[k]
  BY NamedTidy
<1>4. w \in Word
  BY DEF FileName
<1>5. Tidy(opened) /\ Named(opened, w) = opened
  <2>1. Tidy(opened) /\ Named(opened, w) = WithOption(Named(named, w))
    <3> HIDE DEF named
    <3>1. QED
      BY <1>3, <1>4, WithOptionTidy
  <2>2. QED
    BY <1>3, <2>1
<1>6. \E k \in 1..Len(opened) : Has(opened[k], DirOption)
  <2>1. named \in Seq(Word) /\ named # <<>> /\ Len(named) \in Nat \ {0}
    <3> HIDE DEF named
    <3>1. QED
      BY <1>3, TidyIs
  <2>2. Len(opened) = Len(named) + 1 /\ opened[2] = <<DirOption>>
    <3> HIDE DEF named
    <3>1. QED
      BY <2>1, WithOptionIs
  <2>3. 2 \in 1..Len(opened)
    BY <2>1, <2>2
  <2>4. QED
    BY <2>2, <2>3, DirIs
<1>7. exact => \E k \in 1..Len(named) : Has(named[k], DirOption)
  <2>1. ASSUME exact PROVE \E k \in 1..Len(named) : Has(named[k], DirOption)
    <3>1. PICK k \in DOMAIN ws : ws[k] = <<DirOption>>
      BY <2>1
    <3>2. k \in 1..Len(named) /\ named[k] = <<DirOption>>
      BY <1>1, <1>3, <3>1, DirIs
    <3>3. QED
      BY <3>2, DirIs
  <2>2. QED
    BY <2>1
<1> DEFINE some == \E k \in 1..Len(named) : Has(named[k], DirOption)
<1>8. modify_runtime_command(Joined(named), w) = IF some THEN Joined(named) ELSE Joined(opened)
  <2>1. modify_runtime_command(Joined(named), w) =
          IF some THEN Joined(Named(named, w)) ELSE Joined(WithOption(Named(named, w)))
    <3> HIDE DEF named
    <3>1. QED
      BY <1>3, EditedTidy
  <2>2. QED
    BY <1>3, <2>1
<1>9. modify_runtime_command(Joined(opened), w) = Joined(opened)
  <2> HIDE DEF opened
  <2>1. modify_runtime_command(Joined(opened), w) = Joined(Named(opened, w))
    BY <1>5, <1>6, EditedTidy
  <2>2. QED
    BY <1>5, <2>1
<1>10. \A c : Final(c, ws, w) <=> c = Joined(Expected(ws, w)) \/ (another /\ c = Joined(named))
  BY DEF Final
<1>11. Final(old, ws, w)
  OBVIOUS
<1> HIDE DEF named, opened, exact, some, another
<1>12. CASE old = Joined(named)
  <2>1. CASE some
    BY <1>8, <1>11, <1>12, <2>1
  <2>2. CASE ~some
    <3>1. ~exact
      BY <1>7, <2>2 DEF some
    <3>2. modify_runtime_command(old, w) = Joined(Expected(ws, w))
      BY <1>2, <1>8, <1>12, <2>2, <3>1
    <3>3. QED
      BY <1>10, <3>2
  <2>3. QED
    BY <2>1, <2>2
<1>13. CASE old = Joined(opened)
  BY <1>9, <1>11, <1>13
<1>14. old = Joined(named) \/ old = Joined(opened)
  BY <1>2, <1>10, <1>11
<1>15. QED
  BY <1>12, <1>13, <1>14

LEMMA NoSpaceBefore ==
  ASSUME NEW ws \in Seq(Word), ws # <<>>, Has(ws[1], WasmSuffix), NEW c, c = Joined(ws)
  PROVE  Has(c, WasmSuffix) /\ SpacesBefore(c, Find(c, WasmSuffix)) = {}
<1> DEFINE w == ws[1]
           one == <<w>>
           rest == Tail(ws)
           r == Rest(rest)
<1>1. /\ ws \in Seq(Seq(Piece)) /\ Len(ws) \in Nat \ {0} /\ w \in Seq(Piece) /\ ~Has(w, Space)
  <2>1. Len(ws) \in Nat \ {0} /\ 1 \in 1..Len(ws)
    <3>1. Len(ws) \in Nat \ {0}
      BY EmptySeq
    <3>2. QED
      BY <3>1
  <2>2. QED
    BY <2>1, WordsType
<1>2. one \in Seq(Seq(Piece)) /\ Len(one) = 1 /\ one[1] = w
  BY <1>1, OneIs
<1>3. ws = one \o rest /\ rest \in Seq(Seq(Piece))
  <2>1. 1 \in 1..Len(ws) /\ Len(ws) \in 1..Len(ws)
    BY <1>1
  <2>2. SubSeq(ws, 1, Len(ws)) = <<ws[1]>> \o SubSeq(ws, 1 + 1, Len(ws))
    BY <1>1, <2>1, SubSeqRecursiveFirst
  <2>3. SubSeq(ws, 1, Len(ws)) = ws /\ Tail(ws) = SubSeq(ws, 2, Len(ws))
        /\ Tail(ws) \in Seq(Seq(Piece))
    BY <1>1, SubSeqFull, TailIsSubSeq, HeadTailProperties
  <2>4. QED
    BY <2>2, <2>3
<1> HIDE DEF one, rest, r
<1>4. one # <<>> /\ Joined(one) = w
  <2>1. Len(one) # 0
    BY <1>2
  <2>2. QED
    BY <1>2, <2>1, EmptySeq, EmptyJoined
<1>5. c = w \o r /\ r \in Seq(Piece)
  <2>1. Rest(rest) \in Seq(Piece) /\ Joined(one \o rest) = Joined(one) \o Rest(rest)
    BY <1>2, <1>3, <1>4, JoinedRest
  <2>2. QED
    BY <1>3, <1>4, <2>1 DEF r
<1>6. Has(w, WasmSuffix)
  OBVIOUS
<1> HIDE DEF w
<1>7. /\ c \in Seq(Piece) /\ Len(c) = Len(w) + Len(r)
      /\ \A k \in 1..Len(w) : c[k] = w[k]
  BY ONLY <1>1, <1>5, ConcatPlaces
<1>8. DOMAIN w = 1..Len(w) /\ DOMAIN c = 1..Len(c) /\ Len(w) \in Nat /\ Len(r) \in Nat
  BY <1>1, <1>5, <1>7, LenProperties
<1>9. PICK i \in 1..Len(w) : w[i] = WasmSuffix
  BY <1>6, <1>8 DEF Has
<1>10. i \in 1..Len(c) /\ c[i] = WasmSuffix
  BY <1>7, <1>8, <1>9
<1>11. Has(c, WasmSuffix)
  BY <1>8, <1>10 DEF Has
<1>12. PICK f : f = Find(c, WasmSuffix)
  OBVIOUS
<1>13. f \in 1..Len(c) /\ \A j \in 1..(f - 1) : c[j] # WasmSuffix
  BY <1>7, <1>11, <1>12, FindIs
<1>14. f <= i
  <2>1. SUFFICES ASSUME ~(f <= i) PROVE FALSE
    OBVIOUS
  <2>2. i \in 1..(f - 1)
    BY <1>9, <1>13, <2>1
  <2>3. QED
    BY <1>10, <1>13, <2>2
<1>15. ASSUME NEW k \in 1..f PROVE c[k] # Space
  <2>1. k \in 1..Len(w)
    BY <1>8, <1>9, <1>13, <1>14
  <2>2. w[k] # Space
    BY <1>1, <1>8, <2>1 DEF Has
  <2>3. QED
    BY <1>7, <2>1, <2>2
<1>16. SpacesBefore(c, f) = {}
  BY <1>15 DEF SpacesBefore
<1>17. QED
  BY <1>11, <1>12, <1>16

\* With ".wasm" in the first word the assertion fails.
LEMMA FirstWasm ==
  ASSUME NEW ws \in Seq(Word), ws # <<>>, Has(ws[1], WasmSuffix)
  PROVE  ~WordStartFound(Joined(ws))
<1> DEFINE c == WithDir(Joined(ws))
<1>1. Has(c, WasmSuffix) /\ SpacesBefore(c, Find(c, WasmSuffix)) = {}
  <2>1. CASE c = Joined(ws)
    <3> HIDE DEF c
    <3>1. QED
      BY <2>1, NoSpaceBefore
  <2>2. CASE c = Joined(WithOption(ws))
    <3> DEFINE x == WithOption(ws)
    <3>1. x \in Seq(Word) /\ Len(x) = Len(ws) + 1 /\ x[1] = ws[1]
      BY WithOptionIs
    <3>2. x # <<>>
      <4> HIDE DEF x
      <4>1. Len(x) # 0
        BY <3>1, LenProperties
      <4>2. QED
        BY <3>1, <4>1, EmptySeq
    <3>3. Has(x[1], WasmSuffix) /\ c = Joined(x)
      BY <2>2, <3>1
    <3> HIDE DEF x, c
    <3>4. QED
      BY <3>1, <3>2, <3>3, NoSpaceBefore
  <2>3. QED
    BY <2>1, <2>2, WithDirJoined
<1>2. QED
  BY <1>1 DEF WordStartFound

\* The command is not empty.
LEMMA JoinedNotEmpty ==
  ASSUME NEW ws \in Seq(Word), ws # <<>>, ws # <<<<>>>>
  PROVE  Joined(ws) # <<>>
<1>1. ws \in Seq(Seq(Piece)) /\ Len(ws) \in Nat \ {0}
  BY WordsType, EmptySeq
<1>2. CASE Len(ws) = 1
  <2>1. Joined(ws) = ws[1] /\ ws[1] \in Seq(Piece)
    BY <1>1, <1>2, EmptyJoined, ElementOfSeq
  <2>2. ASSUME ws[1] = <<>> PROVE FALSE
    <3> DEFINE one == <<<<>>>>
    <3>1. one \in Seq(Seq(Piece)) /\ Len(one) = 1 /\ one[1] = <<>>
      <4>1. <<>> \in Seq(Piece)
        BY EmptySeq
      <4>2. QED
        BY <4>1, OneIs
    <3> HIDE DEF one
    <3>2. ws = one
      <4>1. \A k \in 1..Len(ws) : ws[k] = one[k]
        BY <1>2, <2>2, <3>1
      <4>2. QED
        BY <1>1, <1>2, <3>1, <4>1, SeqEqual
    <3>3. QED
      BY <3>2 DEF one
  <2>3. QED
    BY <2>1, <2>2
<1>3. CASE Len(ws) # 1
  <2> DEFINE line == Line(ws)
             f == FlattenSeq(line)
             l == Last(ws)
  <2>1. /\ f \in Seq(Piece) /\ l \in Seq(Piece)
        /\ line \in Seq(Seq(Piece)) /\ Len(line) = Len(ws) - 1
        /\ \A k \in 1..(Len(ws) - 1) : line[k] = Append(ws[k], Space)
    BY <1>1, JoinedType
  <2> DEFINE T == {s \in Seq(Piece) : Len(s) # 0}
             U == Seq(Piece)
  <2>2. line[1] \in T
    <3> DEFINE n == Len(ws)
               v == ws[1]
    <3>1. 1 \in 1..(n - 1) /\ v \in Seq(Piece) /\ Space \in Piece
      <4>1. n \in Nat /\ n # 0 /\ n # 1
        BY <1>1, <1>3
      <4> HIDE DEF n
      <4>2. 1 \in 1..(n - 1) /\ 1 \in 1..n
        BY ONLY <4>1
      <4>3. QED
        BY <1>1, <4>2, WordsType DEF n, Piece
    <3>2. line[1] = Append(v, Space)
      BY <2>1, <3>1
    <3> HIDE DEF v
    <3>3. Append(v, Space) \in Seq(Piece) /\ Len(Append(v, Space)) = Len(v) + 1 /\ Len(v) \in Nat
      BY <3>1, AppendProperties, LenProperties
    <3>4. QED
      BY <3>2, <3>3
  <2>3. \A a \in T, b \in U : a \o b \in T
    <3>1. ASSUME NEW a \in Seq(Piece), NEW b \in Seq(Piece), Len(a) # 0
          PROVE  a \o b \in Seq(Piece) /\ Len(a \o b) # 0
      BY <3>1, ConcatProperties, LenProperties
    <3>2. QED
      BY <3>1
  <2>4. Len(line) # 0 /\ \A k \in 1..Len(line) : line[k] \in U
    BY <1>1, <1>3, <2>1, ElementOfSeq
  <2>5. f \in T
    <3> HIDE DEF line, T, U
    <3>1. line \in Seq(Seq(Piece))
      BY <2>1
    <3>2. QED
      BY <2>2, <2>3, <2>4, <3>1, FlattenInto
  <2>6. f \o l \in T
    BY <2>1, <2>3, <2>5
  <2>7. Joined(ws) = f \o l
    BY DEF Joined
  <2> HIDE DEF f, l
  <2>8. Len(Joined(ws)) # 0 /\ Joined(ws) \in Seq(Piece)
    BY <2>6, <2>7
  <2>9. QED
    BY <2>8, EmptySeq
<1>4. QED
  BY <1>2, <1>3

-----------------------------------------------------------------------------
\* In the words of a command but the first, ".wasm" is only at the end, and output
\* files have the names of WebAssembly files.
UsualNames ==
  /\ \A ws \in Commands : \A k \in 2..Len(ws) : OnlyLast(ws[k])
  /\ \A o \in Outfiles : FileName(o)

\* Before the first run the command is the user's, and afterwards a final one.
RunInv ==
  words # <<>> =>
    /\ command = Joined(words) \/ Final(command, words, outfile)
    /\ state = "end" => Final(command, words, outfile)
    /\ Has(words[1], WasmSuffix) => command = Joined(words) /\ state # "end"

LEMMA RunInit ==
  ASSUME Init PROVE RunInv
BY DEF Init, RunInv

LEMMA WordsTidy ==
  ASSUME UsualNames, TypeOK, words # <<>>, ~Has(words[1], WasmSuffix)
  PROVE  Tidy(words) /\ FileName(outfile)
<1>1. words \in Seq(Word) /\ words \in Commands /\ outfile \in Outfiles
  BY InspectConstants DEF TypeOK
<1>2. ASSUME NEW k \in 1..Len(words) PROVE OnlyLast(words[k])
  <2>1. CASE k = 1
    <3> DEFINE w == words[1]
    <3>1. ~Has(w, WasmSuffix)
      OBVIOUS
    <3> HIDE DEF w
    <3>2. OnlyLast(w)
      BY <3>1 DEF Has, OnlyLast
    <3>3. QED
      BY <2>1, <3>2 DEF w
  <2>2. CASE k # 1
    <3>1. k \in 2..Len(words)
      BY <2>2
    <3>2. QED
      BY <1>1, <3>1 DEF UsualNames
  <2>3. QED
    BY <2>1, <2>2
<1>3. QED
  BY <1>1, <1>2 DEF Tidy, UsualNames

LEMMA RunNext ==
  ASSUME UsualNames, TypeOK, RunInv, [Next]_vars PROVE RunInv'
<1>0. ASSUME UNCHANGED <<words, command, outfile>>, state' # "end" \/ state = "end"
      PROVE  RunInv'
  BY <1>0 DEF RunInv
<1>1. CASE Executing
  <2>1. /\ UNCHANGED <<words, outfile>> /\ WordStartFound(command)
        /\ command' = modify_runtime_command(command, outfile)
    BY <1>1 DEF Executing
  <2>2. ASSUME words # <<>>
        PROVE  Final(command', words, outfile) /\ ~Has(words[1], WasmSuffix)
    <3>1. words \in Seq(Word)
      BY InspectConstants DEF TypeOK
    <3>2. ~Has(words[1], WasmSuffix)
      <4>1. SUFFICES ASSUME Has(words[1], WasmSuffix) PROVE FALSE
        OBVIOUS
      <4>2. command = Joined(words)
        BY <2>2, <4>1 DEF RunInv
      <4>3. QED
        BY <2>1, <2>2, <3>1, <4>1, <4>2, FirstWasm
    <3>3. Tidy(words) /\ FileName(outfile)
      BY <2>2, <3>2, WordsTidy
    <3>4. command = Joined(words) \/ Final(command, words, outfile)
      BY <2>2 DEF RunInv
    <3>5. Final(modify_runtime_command(command, outfile), words, outfile)
      BY <3>3, <3>4, EditedOnce, EditedAgain
    <3>6. QED
      BY <2>1, <3>2, <3>5
  <2>3. QED
    BY <2>1, <2>2 DEF RunInv
<1>2. CASE NoCommand
  <2>1. UNCHANGED <<words, command, outfile>> /\ command = <<>>
    BY <1>2 DEF NoCommand
  <2>2. ASSUME words # <<>>
        PROVE  /\ ~Has(words[1], WasmSuffix)
               /\ Final(command, words, outfile)
    <3>1. words \in Seq(Word) /\ words # <<<<>>>>
      BY InspectConstants DEF TypeOK
    <3>2. command # Joined(words)
      BY <2>1, <2>2, <3>1, JoinedNotEmpty
    <3>3. QED
      BY <2>2, <3>2 DEF RunInv
  <2>3. QED
    BY <2>1, <2>2 DEF RunInv
<1>3. CASE End
  BY <1>0, <1>3 DEF End
<1>4. CASE UNCHANGED vars
  BY <1>0, <1>4 DEF vars
<1>5. CASE Ended
  BY <1>4, <1>5 DEF Ended
<1>6. CASE Idle \/ Listing \/ Positioning \/ Commanding
  BY <1>0, <1>6 DEF Idle, Listing, Positioning, Commanding
<1>7. CASE Start \/ PreparationFails \/ InsertionFails \/ Instrumenting \/ CommandFails
  BY <1>0, <1>7 DEF Start, PreparationFails, InsertionFails, Instrumenting, CommandFails
<1>8. QED
  BY <1>1, <1>2, <1>3, <1>4, <1>5, <1>6, <1>7 DEF Next

(***************************************************************************)
(* The command that is run is the user's with the output file in the place *)
(* of the input file and with the option, after any number of inspections: *)
(* an edited command is not changed by another edit.  This is so for all   *)
(* commands in which ".wasm" ends a word wherever it is, but in the first, *)
(* and all output files whose names end with ".wasm".                      *)
(***************************************************************************)
THEOREM AlwaysRunsOutfile ==
  ASSUME UsualNames PROVE Spec => []RunsOutfile
<1>1. Init => TypeOK /\ RunInv
  BY InitType, RunInit
<1>2. TypeOK /\ RunInv /\ [Next]_vars => TypeOK' /\ RunInv'
  BY NextType, RunNext
<1>3. RunInv => RunsOutfile
  BY DEF RunInv, RunsOutfile, Final, OpensAnother
<1>4. QED
  BY <1>1, <1>2, <1>3, PTL DEF Spec
=============================================================================
