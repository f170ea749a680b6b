----------------------------- MODULE DumpProofs -----------------------------
(***************************************************************************)
(* Theorems about Dump.  The argument: the variables are stored one after  *)
(* the other, each where the sum of the words before it says; the buffer   *)
(* stays as it is while the names of directories are short; and the tool   *)
(* takes the file apart at the same places.                                *)
(***************************************************************************)
EXTENDS Dump, SequenceTheorems, WellFoundedInduction, TLAPS

LEMMA Least ==
  ASSUME NEW T \in SUBSET Nat, T # {}
  PROVE  \E x \in T : \A y \in T : x <= y
<1> DEFINE R == {ss \in Nat \X Nat : ss[1] < ss[2]}
<1>1. IsWellFoundedOn(R, Nat)
  BY NatLessThanWellFounded DEF OpToRel
<1>2. PICK x \in T : \A y \in T : ~(<<y, x>> \in R)
  <2> HIDE DEF R
  <2> QED
    BY <1>1, WFMin
<1>3. ASSUME NEW y \in T PROVE x <= y
  <2>1. ~(<<y, x>> \in R)
    BY <1>2
  <2>2. x \in Nat /\ y \in Nat
    OBVIOUS
  <2>3. QED
    BY <2>1, <2>2
<1>4. QED
  BY <1>3

-----------------------------------------------------------------------------
(***************************************************************************)
(* The places of the variables                                             *)
(***************************************************************************)
LEMMA TypesAre ==
  ASSUME types \in Types
  PROVE  /\ Len(types) \in Nat /\ DOMAIN types = 1..Len(types)
         /\ \A k \in 1..Len(types) : Words(types[k]) \in Nat
<1>1. types \in Seq({"none", "i32", "i64", "f32", "f64", "v128"})
  BY DumpConstants
<1>2. \A k \in 1..Len(types) : types[k] \in {"none", "i32", "i64", "f32", "f64", "v128"}
  BY <1>1
<1>3. QED
  BY <1>1, <1>2 DEF Words

\* Offset is what its definition says.
LEMMA OffsetIs ==
  ASSUME types \in Types
  PROVE  /\ Offset \in [0..Len(types) -> Nat]
         /\ Offset[0] = 0
         /\ \A k \in 1..Len(types) : Offset[k] = Offset[k - 1] + Words(types[k])
<1> DEFINE n == Len(types)
           Sums(m, f) == /\ f \in [0..m -> Nat] /\ f[0] = 0
                         /\ \A k \in 1..m : f[k] = f[k - 1] + Words(types[k])
           T == {m \in 0..n : ~\E f : Sums(m, f)}
<1>1. n \in Nat /\ \A k \in 1..n : Words(types[k]) \in Nat
  BY TypesAre
<1>2. T = {}
  <2>1. SUFFICES ASSUME T # {} PROVE FALSE
    OBVIOUS
  <2>2. PICK x \in T : \A y \in T : x <= y
    <3>1. T \in SUBSET Nat
      BY <1>1
    <3>2. QED
      BY <2>1, <3>1, Least
  <2>3. x # 0
    <3>1. SUFFICES ASSUME x = 0 PROVE FALSE
      OBVIOUS
    <3> DEFINE f == [k \in 0..0 |-> 0]
    <3>2. Sums(x, f)
      BY <3>1
    <3>3. \E h : Sums(x, h)
      BY <3>2
    <3>4. x \in T
      BY <2>2
    <3> HIDE DEF Sums
    <3>5. QED
      BY <3>3, <3>4, Zenon
  <2>4. x \in 1..n /\ x - 1 \in 0..n /\ x - 1 \notin T
    <3>1. x \in 1..n /\ x - 1 \in 0..n /\ ~(x <= x - 1)
      BY <1>1, <2>2, <2>3
    <3> HIDE DEF T
    <3>2. QED
      BY <2>2, <3>1
  <2>5. PICK f : Sums(x - 1, f)
    BY <2>4
  <2> DEFINE g == [k \in 0..x |-> IF k = x THEN f[x - 1] + Words(types[x]) ELSE f[k]]
  <2>6. Sums(x, g)
    <3>1. f \in [0..(x - 1) -> Nat] /\ Words(types[x]) \in Nat /\ x \in Nat /\ x # 0
      BY <1>1, <2>4, <2>5
    <3>2. g \in [0..x -> Nat] /\ g[0] = 0
      BY <2>5, <3>1
    <3>3. \A k \in 1..x : g[k] = g[k - 1] + Words(types[k])
      BY <2>5, <3>1
    <3>4. QED
      BY <3>2, <3>3
  <2>7. \E h : Sums(x, h)
    BY <2>6
  <2>8. x \in T
    BY <2>2
  <2> HIDE DEF Sums
  <2>9. QED
    BY <2>7, <2>8, Zenon
<1>3. PICK f : Sums(n, f)
  <2>1. n \in 0..n
    BY <1>1
  <2>2. n \notin T
    <3> HIDE DEF T
    <3>1. QED
      BY <1>2
  <2> HIDE DEF Sums
  <2>3. QED
    BY <2>1, <2>2
<1>4. f = [k \in 0..n |-> IF k = 0 THEN 0 ELSE f[k - 1] + Words(types[k])]
  <2>1. \A k \in 0..n : f[k] = IF k = 0 THEN 0 ELSE f[k - 1] + Words(types[k])
    BY <1>1, <1>3
  <2>2. QED
    BY <1>3, <2>1
<1>5. Offset = [k \in 0..n |-> IF k = 0 THEN 0 ELSE Offset[k - 1] + Words(types[k])]
  BY <1>4 DEF Offset
<1> DEFINE T2 == {m \in 0..n : Offset[m] # f[m]}
<1>6. T2 = {}
  <2>1. SUFFICES ASSUME T2 # {} PROVE FALSE
    OBVIOUS
  <2>2. PICK x \in T2 : \A y \in T2 : x <= y
    <3>1. T2 \in SUBSET Nat
      BY <1>1
    <3>2. QED
      BY <2>1, <3>1, Least
  <2>3. x # 0 => Offset[x - 1] = f[x - 1]
    BY <1>1, <2>2
  <2>4. Offset[x] = IF x = 0 THEN 0 ELSE Offset[x - 1] + Words(types[x])
    BY <1>5, <2>2, Zenon
  <2>5. f[x] = IF x = 0 THEN 0 ELSE f[x - 1] + Words(types[x])
    BY <1>1, <1>3, <2>2
  <2>6. QED
    BY <2>2, <2>3, <2>4, <2>5
<1>7. Offset = f
  <2>1. Offset = [k \in 0..n |-> Offset[k]]
    BY <1>5, Zenon
  <2>2. f = [k \in 0..n |-> f[k]]
    BY <1>3
  <2>3. \A k \in 0..n : Offset[k] = f[k]
    BY <1>6
  <2>4. QED
    BY <2>1, <2>2, <2>3, Zenon
<1>8. QED
  BY <1>3, <1>7

LEMMA OffsetMonotone ==
  ASSUME types \in Types, NEW n \in 0..Len(types)
  PROVE  \A k \in 0..n : Offset[k] <= Offset[n]
<1> DEFINE T == {d \in 0..n : ~(Offset[n - d] <= Offset[n])}
<1>1. /\ Len(types) \in Nat /\ n \in Nat /\ Offset \in [0..Len(types) -> Nat]
      /\ \A k \in 1..n : Offset[k] = Offset[k - 1] + Words(types[k])
      /\ \A k \in 1..n : Words(types[k]) \in Nat
      /\ \A k \in 0..n : Offset[k] \in Nat
  <2>1. Len(types) \in Nat /\ n \in Nat /\ 1..n \subseteq 1..Len(types)
        /\ 0..n \subseteq 0..Len(types)
    BY TypesAre
  <2>2. QED
    BY <2>1, TypesAre, OffsetIs
<1>2. T = {}
  <2>1. SUFFICES ASSUME T # {} PROVE FALSE
    OBVIOUS
  <2>2. PICK d \in T : \A e \in T : d <= e
    <3>1. T \in SUBSET Nat
      BY <1>1
    <3>2. QED
      BY <2>1, <3>1, Least
  <2>3. d # 0
    <3>1. SUFFICES ASSUME d = 0 PROVE FALSE
      OBVIOUS
    <3>2. n - d = n /\ n \in 0..n
      BY <1>1, <3>1
    <3>3. Offset[n] \in Nat
      BY <1>1, <3>2
    <3>4. Offset[n - d] <= Offset[n]
      BY <3>2, <3>3
    <3>5. d \in T
      BY <2>2
    <3>6. QED
      BY <3>4, <3>5, Zenon
  <2>4. d - 1 \in 0..n /\ d - 1 \notin T
    <3>1. d - 1 \in 0..n /\ ~(d <= d - 1)
      BY <1>1, <2>2, <2>3
    <3> HIDE DEF T
    <3>2. QED
      BY <2>2, <3>1
  <2>5. PICK k \in 1..n : k = n - (d - 1)
    BY <1>1, <2>2, <2>3
  <2>6. k - 1 = n - d /\ k - 1 \in 0..n /\ k \in 0..n /\ n \in 0..n
    BY <1>1, <2>2, <2>5
  <2>7. /\ Offset[k - 1] \in Nat /\ Offset[k] \in Nat /\ Offset[n] \in Nat
        /\ Words(types[k]) \in Nat /\ Offset[k] = Offset[k - 1] + Words(types[k])
    BY <1>1, <2>5, <2>6
  <2>8. Offset[k] <= Offset[n]
    BY <2>4, <2>5
  <2>9. Offset[n - d] <= Offset[n]
    BY <2>6, <2>7, <2>8
  <2>10. d \in T
    BY <2>2
  <2>11. QED
    BY <2>9, <2>10, Zenon
<1>3. ASSUME NEW k \in 0..n PROVE Offset[k] <= Offset[n]
  <2>1. n - k \in 0..n /\ n - (n - k) = k
    BY <1>1
  <2>2. QED
    BY <1>2, <2>1
<1>4. QED
  BY <1>3

LEMMA OffsetGrows ==
  ASSUME types \in Types
  PROVE  \A k \in 0..Len(types) : Offset[k] <= Total
<1>1. Len(types) \in 0..Len(types)
  BY TypesAre
<1>2. QED
  BY <1>1, OffsetMonotone DEF Total

-----------------------------------------------------------------------------
(***************************************************************************)
(* The inductive invariant                                                 *)
(***************************************************************************)
\* The first n variables are in the buffer, each at its place.
HasStored(n) ==
  \A k \in 1..n : \A w \in 1..Words(types[k]) : iobuf[Offset[k - 1] + w] = <<k, w>>

\* All names of directories up to the n-th fitted in front of the buffer.
ShortNames(n) == \A k \in 1..n : fds[k].len <= NameRoom

Storing == {"load", "store"}

\* The descriptor of the "." directory has been found.
Found ==
  {"path_open", "fd_write", "fd_close", "access", "read", "printed", "cannot_access"}

\* What is in the buffer
BufferOK ==
  /\ \A w \in 1..Room : iobuf[w] # Undefined
  /\ pc = "load" => i = 1
  /\ pc \in Storing => dirfd = 1 /\ iobuf_len = Offset[i - 1] /\ HasStored(i - 1)
  /\ pc \in Found \cup {"get_cwd_fd"} => iobuf_len = Total
  /\ pc = "get_cwd_fd" /\ ShortNames(dirfd - 1) => HasStored(Len(types))
  /\ pc \in Found /\ ShortNames(dirfd) => HasStored(Len(types))

\* How far the program has come, and what it has found
FoundOK ==
  /\ pc = "trap" => ~spare \/ Total > Room
  /\ pc \notin {"load", "trap"} => spare
  /\ pc \in Found => dirfd <= Len(fds) /\ fd.dot
  /\ pc = "cannot_access" => fd.dir # "cwd"

\* What is in the file, and what has been printed of it
FileOK ==
  /\ pc \in {"fd_close", "access"} =>
       written <= iobuf_len /\ files[fd.dir] = SubSeq(iobuf, 1, written)
  /\ pc \notin {"read", "printed"} => printed = <<>>
  /\ pc \in {"read", "printed"} /\ fd.dir = "cwd" /\ written = iobuf_len =>
       /\ Len(printed) = i - 1
       /\ \A k \in 1..(i - 1) : printed[k] = SubSeq(iobuf, Offset[k - 1] + 1, Offset[k])
       /\ ifile = SubSeq(iobuf, Offset[i - 1] + 1, Total)
  /\ pc \in {"read", "printed"} => written <= iobuf_len
  /\ pc = "printed" => i = Len(types) + 1

DumpInv == TypeOK /\ BufferOK /\ FoundOK /\ FileOK

-----------------------------------------------------------------------------
LEMMA OffsetSame ==
  ASSUME types' = types
  PROVE  Offset' = Offset /\ Total' = Total
<1>1. Offset' = Offset
  BY DEF Offset
<1>2. QED
  BY <1>1 DEF Total

\* A store leaves the other words as they are.
LEMMA StoredWords ==
  ASSUME NEW at \in Nat, NEW n \in Nat, NEW ws \in [1..n -> Word], TypeOK
  PROVE  /\ Stored(at, ws) \in [1..Room -> Word]
         /\ \A w \in 1..Room : Stored(at, ws)[w] =
               IF w \in (at + 1)..(at + n) THEN ws[w - at] ELSE iobuf[w]
<1>1. Len(ws) = n
  BY LenProperties
<1>2. \A w \in 1..Room : Stored(at, ws)[w] =
               IF w \in (at + 1)..(at + n) THEN ws[w - at] ELSE iobuf[w]
  BY <1>1 DEF Stored
<1>3. ASSUME NEW w \in 1..Room
      PROVE  (IF w \in (at + 1)..(at + n) THEN ws[w - at] ELSE iobuf[w]) \in Word
  <2>1. w \in (at + 1)..(at + n) => w - at \in 1..n
    BY DumpConstants
  <2>2. QED
    BY <2>1 DEF TypeOK
<1>4. QED
  BY <1>1, <1>2, <1>3 DEF Stored

LEMMA ValueType ==
  ASSUME types \in Types, NEW k \in 1..Len(types)
  PROVE  /\ Value(k) \in [1..Words(types[k]) -> Word]
         /\ \A w \in 1..Words(types[k]) : Value(k)[w] = <<k, w>>
<1>1. Words(types[k]) \in Nat /\ Len(types) \in Nat
  BY TypesAre
<1>2. QED
  BY <1>1 DEF Value, Word

LEMMA DumpInit == Init => DumpInv
<1> SUFFICES ASSUME Init PROVE DumpInv
  OBVIOUS
<1>1. types \in Types /\ Len(types) \in Nat /\ Room \in Nat
  BY TypesAre, DumpConstants DEF Init
<1>2. PICK dirs \in Options :
        LET open == Opened(dirs)
        IN  \E closed \in SUBSET DOMAIN open :
              fds = [k \in DOMAIN open |-> IF k \in closed THEN Closed ELSE open[k]]
  BY DEF Init
<1> DEFINE open == Opened(dirs)
<1>3. PICK closed \in SUBSET DOMAIN open :
        fds = [k \in DOMAIN open |-> IF k \in closed THEN Closed ELSE open[k]]
  BY <1>2
<1>4. open \in Seq(Directory)
  <2>1. dirs \in Seq(Directory)
    BY DumpConstants
  <2>2. <<WorkingDirectory>> \in Seq(Directory)
    BY DEF WorkingDirectory, Directory
  <2>3. <<WorkingDirectory>> \o dirs \in Seq(Directory)
    BY <2>1, <2>2, ConcatProperties
  <2>4. QED
    BY <2>1, <2>3 DEF Opened
<1> HIDE DEF open
<1>5. fds \in Seq(Directory \cup {Closed}) /\ Len(fds) \in Nat
  <2>1. Len(open) \in Nat /\ DOMAIN open = 1..Len(open)
        /\ \A k \in 1..Len(open) : open[k] \in Directory
    BY <1>4, LenProperties
  <2>2. fds \in [1..Len(open) -> Directory \cup {Closed}]
    BY <1>3, <2>1
  <2>3. fds \in Seq(Directory \cup {Closed})
    BY <2>1, <2>2, SeqDef
  <2>4. QED
    BY <2>3, LenProperties
<1>6. iobuf \in [1..Room -> Word] /\ \A w \in 1..Room : iobuf[w] # Undefined
  BY DEF Init, Zero, Undefined, Word
<1>7. files \in [{"cwd", "elsewhere"} -> Seq(Word)]
  <2>1. Undefined \in Word /\ Old \in Word
    BY DEF Word, Undefined, Old
  <2>2. NoFile \in Seq(Word) /\ <<Old, Old>> \in Seq(Word)
    BY <2>1 DEF NoFile
  <2>3. PICK old \in {NoFile, <<Old, Old>>} : files = [d \in {"cwd", "elsewhere"} |-> old]
    BY DEF Init
  <2>4. QED
    BY <2>2, <2>3
<1>8. ifile = <<>> /\ printed = <<>> /\ <<>> \in Seq(Word) /\ <<>> \in Seq(Seq(Word))
  BY DEF Init
<1>9. /\ pc = "load" /\ iobuf_len = 0 /\ i = 1 /\ dirfd = 1 /\ written = 0 /\ spare \in BOOLEAN
  BY DEF Init
<1>10. TypeOK
  BY <1>1, <1>5, <1>6, <1>7, <1>8, <1>9 DEF TypeOK
<1>11. Offset[i - 1] = 0 /\ HasStored(i - 1)
  <2>1. i - 1 = 0
    BY <1>9
  <2>2. QED
    BY <1>1, <2>1, OffsetIs DEF HasStored
<1>12. BufferOK
  BY <1>6, <1>9, <1>11 DEF BufferOK, Found, Storing
<1>13. FoundOK
  BY <1>9 DEF FoundOK, Found
<1>14. FileOK
  BY <1>8, <1>9 DEF FileOK
<1>15. QED
  BY <1>10, <1>12, <1>13, <1>14 DEF DumpInv

\* A step that leaves all but pc alone
Only == UNCHANGED <<environment, iobuf, iobuf_len, i, dirfd, files, ifile, printed, written>>

LEMMA OnlyKeeps ==
  ASSUME DumpInv, Only,
         pc' \in Final \cup {"load", "store", "get_cwd_fd", "path_open", "fd_write", "fd_close", "access", "read"}
  PROVE  /\ TypeOK'
         /\ Offset' = Offset /\ Total' = Total /\ fd' = fd
         /\ \A n : HasStored(n)' <=> HasStored(n)
         /\ \A n : ShortNames(n)' <=> ShortNames(n)
<1>1. types' = types
  BY DEF Only, environment
<1>2. Offset' = Offset /\ Total' = Total
  BY <1>1, OffsetSame
<1>3. QED
  BY <1>2 DEF DumpInv, Only, environment, TypeOK, fd, HasStored, ShortNames

LEMMA LoadDataKeeps ==
  ASSUME DumpInv, LoadData
  PROVE  DumpInv'
<1>1. Only /\ pc = "load" /\ pc' = IF spare THEN "store" ELSE "trap"
  BY DEF LoadData, Only
<1>2. /\ TypeOK' /\ Offset' = Offset /\ Total' = Total
      /\ \A n : HasStored(n)' <=> HasStored(n)
  BY <1>1, OnlyKeeps DEF Final
<1>3. BufferOK'
  BY <1>1, <1>2 DEF Only, DumpInv, BufferOK, Found, Storing
<1>4. FoundOK' /\ FileOK'
  BY <1>1, <1>2 DEF Only, environment, DumpInv, FoundOK, FileOK, Found
<1>5. QED
  BY <1>2, <1>3, <1>4 DEF DumpInv

LEMMA CiovecKeeps ==
  ASSUME DumpInv, Ciovec
  PROVE  DumpInv'
<1>1. Only /\ pc = "store" /\ pc' = "get_cwd_fd" /\ i > Len(types)
  BY DEF Ciovec, Only
<1>2. /\ TypeOK' /\ Offset' = Offset /\ Total' = Total
      /\ \A n : HasStored(n)' <=> HasStored(n)
  BY <1>1, OnlyKeeps
<1>3. i - 1 = Len(types)
  BY <1>1, TypesAre DEF DumpInv, TypeOK
<1>4. iobuf_len = Total /\ HasStored(Len(types))
  BY <1>1, <1>3 DEF DumpInv, BufferOK, Storing, Total
<1>5. types' = types /\ iobuf' = iobuf /\ iobuf_len' = iobuf_len
  BY <1>1 DEF Only, environment
<1>6. BufferOK'
  BY <1>1, <1>2, <1>4, <1>5 DEF DumpInv, BufferOK, Found, Storing
<1>7. FoundOK' /\ FileOK'
  BY <1>1, <1>2 DEF Only, environment, DumpInv, FoundOK, FileOK, Found
<1>8. QED
  BY <1>2, <1>6, <1>7 DEF DumpInv

LEMMA StoreVariableKeeps ==
  ASSUME DumpInv, StoreVariable
  PROVE  DumpInv'
<1>1. /\ pc = "store" /\ i <= Len(types) /\ types \in Types /\ i \in 1..Len(types)
      /\ Words(types[i]) \in Nat /\ iobuf_len \in Nat /\ Len(types) \in Nat /\ Room \in Nat
      /\ TypeOK
  BY TypesAre, DumpConstants DEF DumpInv, StoreVariable, TypeOK
<1>2. /\ Offset \in [0..Len(types) -> Nat]
      /\ Offset[i] = iobuf_len + Words(types[i]) /\ Offset[i] <= Total
      /\ iobuf_len = Offset[i - 1]
  BY <1>1, OffsetIs, OffsetGrows DEF DumpInv, BufferOK, Storing
<1>3. UNCHANGED <<types, fds, spare, dirfd, files, ifile, printed, written>>
  BY DEF StoreVariable, environment
<1>4. Offset' = Offset /\ Total' = Total
  BY <1>3, OffsetSame
<1>5. CASE iobuf_len + Words(types[i]) > Room
  <2>1. pc' = "trap" /\ UNCHANGED <<iobuf, iobuf_len, i>>
    BY <1>5 DEF StoreVariable
  <2>2. Total \in Nat /\ Total > Room
    BY <1>1, <1>2, <1>5 DEF Total
  <2>3. TypeOK'
    BY <1>1, <1>3, <2>1 DEF TypeOK, Final
  <2>4. BufferOK'
    BY <1>3, <2>1 DEF DumpInv, BufferOK, Found, Storing
  <2>5. FoundOK'
    BY <1>4, <2>1, <2>2 DEF FoundOK, Found
  <2>6. FileOK'
    BY <1>1, <1>3, <2>1 DEF DumpInv, FileOK
  <2>7. QED
    BY <2>3, <2>4, <2>5, <2>6 DEF DumpInv
<1>6. CASE ~(iobuf_len + Words(types[i]) > Room)
  <2> DEFINE n == Words(types[i])
  <2>1. /\ iobuf' = Stored(iobuf_len, Value(i)) /\ iobuf_len' = Offset[i]
        /\ i' = i + 1 /\ pc' = pc
    BY <1>2, <1>6 DEF StoreVariable
  <2>2. /\ Value(i) \in [1..n -> Word] /\ \A w \in 1..n : Value(i)[w] = <<i, w>>
    BY <1>1, ValueType
  <2>3. /\ iobuf' \in [1..Room -> Word]
        /\ \A w \in 1..Room : iobuf'[w] =
             IF w \in (iobuf_len + 1)..(iobuf_len + n) THEN Value(i)[w - iobuf_len] ELSE iobuf[w]
    BY <1>1, <2>1, <2>2, StoredWords
  <2>4. TypeOK'
    <3>1. iobuf_len' \in 0..Room /\ i' \in 1..(Len(types') + 1)
      BY <1>1, <1>2, <1>3, <1>6, <2>1
    <3>2. iobuf' \in [1..Room -> Word] /\ pc' \in {"store"}
      BY <1>1, <2>1, <2>3
    <3>3. QED
      BY <1>1, <1>3, <3>1, <3>2 DEF TypeOK
  <2>5. ASSUME NEW w \in 1..Room PROVE iobuf'[w] # Undefined
    <3>1. CASE w \in (iobuf_len + 1)..(iobuf_len + n)
      <4>1. w - iobuf_len \in 1..n
        BY <1>1, <3>1
      <4>2. iobuf'[w] = <<i, w - iobuf_len>> /\ w - iobuf_len # 0
        BY <2>2, <2>3, <3>1, <4>1
      <4>3. QED
        BY <4>2 DEF Undefined
    <3>2. CASE w \notin (iobuf_len + 1)..(iobuf_len + n)
      BY <2>3, <3>2 DEF DumpInv, BufferOK
    <3>3. QED
      BY <3>1, <3>2
  <2>6. ASSUME NEW k \in 1..i, NEW w \in 1..Words(types[k])
        PROVE  iobuf'[Offset[k - 1] + w] = <<k, w>>
    <3>1. k \in 1..Len(types) /\ k - 1 \in 0..Len(types) /\ k \in 0..Len(types)
      BY <1>1
    <3>2. Offset[k - 1] \in Nat /\ Offset[k] = Offset[k - 1] + Words(types[k])
          /\ Words(types[k]) \in Nat
      BY <1>1, <1>2, <3>1, OffsetIs, TypesAre
    <3>3. CASE k = i
      <4>1. Offset[k - 1] + w \in (iobuf_len + 1)..(iobuf_len + n) /\ Offset[k - 1] + w \in 1..Room
            /\ (Offset[k - 1] + w) - iobuf_len = w
        BY <1>1, <1>2, <1>6, <3>2, <3>3
      <4>2. QED
        BY <2>2, <2>3, <3>3, <4>1
    <3>4. CASE k # i
      <4>1. k \in 1..(i - 1)
        BY <1>1, <3>4
      <4>2. iobuf[Offset[k - 1] + w] = <<k, w>>
        BY <1>1, <4>1 DEF DumpInv, BufferOK, Storing, HasStored
      <4>3. Offset[k] <= Offset[i - 1]
        <5>1. i - 1 \in 0..Len(types) /\ k \in 0..(i - 1)
          BY <1>1, <4>1
        <5>2. QED
          BY <1>1, <5>1, OffsetMonotone
      <4>4. Offset[k - 1] + w \in 1..Room /\ Offset[k - 1] + w \notin (iobuf_len + 1)..(iobuf_len + n)
        <5>1. Offset[k - 1] + w <= iobuf_len /\ 1 <= Offset[k - 1] + w
          BY <1>2, <3>2, <4>3
        <5>2. iobuf_len <= Room
          BY <1>1, <1>6
        <5>3. Offset[k - 1] + w \in Nat
          BY <3>2
        <5>4. QED
          BY <1>1, <5>1, <5>2, <5>3
      <4>5. QED
        BY <2>3, <4>2, <4>4
    <3>5. QED
      BY <3>3, <3>4
  <2>7. i' - 1 = i
    BY <1>1, <2>1
  <2>8. HasStored(i - 1)'
    BY <1>3, <1>4, <2>6, <2>7 DEF HasStored
  <2>9. BufferOK'
    <3>1. dirfd' = 1 /\ iobuf_len' = Offset'[i' - 1]
      BY <1>1, <1>3, <1>4, <2>1, <2>7 DEF DumpInv, BufferOK, Storing
    <3>2. QED
      BY <1>1, <2>1, <2>5, <2>8, <3>1 DEF BufferOK, Found, Storing
  <2>10. FoundOK'
    BY <1>1, <1>3, <2>1 DEF DumpInv, FoundOK, Found
  <2>11. FileOK'
    BY <1>1, <1>3, <2>1 DEF DumpInv, FileOK
  <2>12. QED
    BY <2>4, <2>9, <2>10, <2>11 DEF DumpInv
<1>7. QED
  BY <1>5, <1>6

\* Reading the name of a directory: the buffer stays if the name is short.
LEMMA SameFunctions ==
  ASSUME NEW S, NEW T, NEW f \in [S -> T], NEW g \in [S -> T], \A x \in S : f[x] = g[x]
  PROVE  f = g
OBVIOUS

LEMMA NameRead ==
  ASSUME DumpInv, dirfd <= Len(fds)
  PROVE  /\ dirfd \in 1..Len(fds) /\ fd \in Directory \cup {Closed} /\ fd.len \in Nat \ {0}
         /\ NameStored \in [1..Room -> Word]
         /\ \A w \in 1..Room : NameStored[w] # Undefined
         /\ fd.len <= NameRoom => NameStored = iobuf
<1> DEFINE n == IF fd.len > NameRoom THEN fd.len - NameRoom ELSE 0
           name == [w \in 1..n |-> OfName]
<1>1. TypeOK /\ fds \in Seq(Directory \cup {Closed}) /\ Len(fds) \in Nat /\ dirfd \in 1..Len(fds)
  BY DEF DumpInv, TypeOK
<1>2. fd \in Directory \cup {Closed}
  BY <1>1, ElementOfSeq DEF fd
<1>3. fd.len \in Nat \ {0}
  BY <1>2 DEF Directory, Closed
<1>4. n \in Nat /\ (fd.len <= NameRoom => n = 0)
  BY <1>3, DumpConstants
<1>5. name \in [1..n -> Word] /\ \A w \in 1..n : name[w] = OfName
  BY DEF OfName, Word
<1>6. NameStored = Stored(0, name)
  BY DEF NameStored
<1> HIDE DEF name, n
<1>7. /\ NameStored \in [1..Room -> Word]
      /\ \A w \in 1..Room : NameStored[w] =
           IF w \in (0 + 1)..(0 + n) THEN name[w - 0] ELSE iobuf[w]
  BY <1>1, <1>4, <1>5, <1>6, StoredWords
<1>8. \A w \in 1..Room : iobuf[w] # Undefined
  BY DEF DumpInv, BufferOK
<1>9. ASSUME NEW w \in 1..Room PROVE NameStored[w] # Undefined
  <2>1. w \in 1..n => name[w - 0] = OfName
    BY <1>4, <1>5
  <2>2. w \in (0 + 1)..(0 + n) => w \in 1..n
    BY <1>4
  <2>3. QED
    BY <1>7, <1>8, <2>1, <2>2 DEF OfName, Undefined
<1>10. ASSUME fd.len <= NameRoom PROVE NameStored = iobuf
  <2>1. \A w \in 1..Room : w \notin (0 + 1)..(0 + n)
    BY <1>4, <1>10
  <2>2. iobuf \in [1..Room -> Word]
    BY <1>1 DEF TypeOK
  <2>3. \A w \in 1..Room : NameStored[w] = iobuf[w]
    BY <1>7, <2>1
  <2>4. NameStored \in [1..Room -> Word]
    BY <1>7
  <2> DEFINE places == 1..Room
             stored == NameStored
  <2>5. /\ iobuf \in [places -> Word] /\ stored \in [places -> Word]
        /\ \A w \in places : stored[w] = iobuf[w]
    BY <2>2, <2>3, <2>4
  <2> HIDE DEF places, stored
  <2>6. stored = iobuf
    BY ONLY <2>5, SameFunctions
  <2>7. QED
    BY <2>6 DEF stored
<1>11. QED
  BY <1>1, <1>2, <1>3, <1>7, <1>9, <1>10

LEMMA NotThisDirectoryKeeps ==
  ASSUME DumpInv, NotThisDirectory
  PROVE  DumpInv'
<1>1. /\ pc = "get_cwd_fd" /\ pc' = pc /\ dirfd' = dirfd + 1 /\ iobuf' = NameStored
      /\ UNCHANGED <<types, fds, spare, iobuf_len, i, files, ifile, printed, written>>
      /\ dirfd <= Len(fds) /\ TypeOK
  BY DEF NotThisDirectory, environment, DumpInv
<1>2. /\ dirfd \in 1..Len(fds) /\ Len(fds) \in Nat
      /\ NameStored \in [1..Room -> Word]
      /\ \A w \in 1..Room : NameStored[w] # Undefined
      /\ fd.len <= NameRoom => NameStored = iobuf
  BY <1>1, NameRead DEF TypeOK
<1>3. Offset' = Offset /\ Total' = Total
  BY <1>1, OffsetSame
<1>4. TypeOK'
  BY <1>1, <1>2 DEF TypeOK
<1>5. ASSUME ShortNames(dirfd) PROVE HasStored(Len(types))'
  <2>1. fd.len <= NameRoom /\ ShortNames(dirfd - 1)
    BY <1>2, <1>5 DEF ShortNames, fd
  <2>2. HasStored(Len(types)) /\ iobuf' = iobuf
    BY <1>1, <1>2, <2>1 DEF DumpInv, BufferOK
  <2>3. QED
    BY <1>1, <1>3, <2>2 DEF HasStored
<1>6. dirfd' - 1 = dirfd /\ (ShortNames(dirfd - 1)' <=> ShortNames(dirfd))
  BY <1>1, <1>2 DEF ShortNames
<1>7. BufferOK'
  BY <1>1, <1>2, <1>3, <1>5, <1>6 DEF DumpInv, BufferOK, Found, Storing
<1>8. FoundOK' /\ FileOK'
  BY <1>1 DEF DumpInv, FoundOK, FileOK, Found
<1>9. QED
  BY <1>4, <1>7, <1>8 DEF DumpInv

LEMMA ThisDirectoryKeeps ==
  ASSUME DumpInv, ThisDirectory
  PROVE  DumpInv'
<1>1. /\ pc = "get_cwd_fd" /\ pc' = "path_open" /\ iobuf' = NameStored /\ fd.dot
      /\ UNCHANGED <<types, fds, spare, iobuf_len, i, dirfd, files, ifile, printed, written>>
      /\ dirfd <= Len(fds) /\ TypeOK /\ fd' = fd
  BY DEF ThisDirectory, environment, DumpInv, fd
<1>2. /\ dirfd \in 1..Len(fds) /\ Len(fds) \in Nat
      /\ NameStored \in [1..Room -> Word]
      /\ \A w \in 1..Room : NameStored[w] # Undefined
      /\ fd.len <= NameRoom => NameStored = iobuf
  BY <1>1, NameRead DEF TypeOK
<1>3. Offset' = Offset /\ Total' = Total
  BY <1>1, OffsetSame
<1>4. TypeOK'
  BY <1>1, <1>2 DEF TypeOK
<1>5. ASSUME ShortNames(dirfd) PROVE HasStored(Len(types))'
  <2>1. fd.len <= NameRoom /\ ShortNames(dirfd - 1)
    BY <1>2, <1>5 DEF ShortNames, fd
  <2>2. HasStored(Len(types)) /\ iobuf' = iobuf
    BY <1>1, <1>2, <2>1 DEF DumpInv, BufferOK
  <2>3. QED
    BY <1>1, <1>3, <2>2 DEF HasStored
<1>6. ShortNames(dirfd)' <=> ShortNames(dirfd)
  BY <1>1 DEF ShortNames
<1>7. BufferOK'
  BY <1>1, <1>2, <1>3, <1>5, <1>6 DEF DumpInv, BufferOK, Found, Storing
<1>8. FoundOK' /\ FileOK'
  BY <1>1 DEF DumpInv, FoundOK, FileOK, Found
<1>9. QED
  BY <1>4, <1>7, <1>8 DEF DumpInv

\* The program ends with 12.
LEMMA ExitKeeps ==
  ASSUME DumpInv, NoDirectory \/ WasiFails
  PROVE  DumpInv'
<1>1. Only /\ pc' = "exit_12" /\ pc \notin {"load", "trap", "read", "printed"}
  BY DEF NoDirectory, WasiFails, Only
<1>2. TypeOK'
  BY <1>1, OnlyKeeps DEF Final
<1>3. BufferOK' /\ FoundOK' /\ FileOK'
  BY <1>1 DEF Only, environment, DumpInv, BufferOK, FoundOK, FileOK, Found, Storing
<1>4. QED
  BY <1>2, <1>3 DEF DumpInv

LEMMA PathOpenKeeps ==
  ASSUME DumpInv, PathOpen
  PROVE  DumpInv'
<1>1. /\ pc = "path_open" /\ pc' = "fd_write" /\ files' = [files EXCEPT ![fd.dir] = <<>>]
      /\ UNCHANGED <<types, fds, spare, iobuf, iobuf_len, i, dirfd, ifile, printed, written>>
      /\ TypeOK /\ fd' = fd
  BY DEF PathOpen, environment, DumpInv, fd
<1>2. files' \in [{"cwd", "elsewhere"} -> Seq(Word)]
  <2>1. <<>> \in Seq(Word)
    OBVIOUS
  <2>2. files \in [{"cwd", "elsewhere"} -> Seq(Word)]
    BY <1>1 DEF TypeOK
  <2>3. QED
    BY <1>1, <2>1, <2>2
<1>3. TypeOK'
  BY <1>1, <1>2 DEF TypeOK
<1>4. /\ Offset' = Offset /\ Total' = Total
      /\ HasStored(Len(types))' <=> HasStored(Len(types))
      /\ ShortNames(dirfd)' <=> ShortNames(dirfd)
  BY <1>1, OffsetSame DEF HasStored, ShortNames
<1>5. BufferOK'
  BY <1>1, <1>4 DEF DumpInv, BufferOK, Found, Storing
<1>6. FoundOK' /\ FileOK'
  BY <1>1 DEF DumpInv, FoundOK, FileOK, Found
<1>7. QED
  BY <1>3, <1>5, <1>6 DEF DumpInv

\* A part of the buffer is a sequence of words.
LEMMA BufferPart ==
  ASSUME TypeOK, NEW a \in Nat, NEW b \in 0..Room
  PROVE  /\ SubSeq(iobuf, a + 1, b) \in Seq(Word)
         /\ Len(SubSeq(iobuf, a + 1, b)) = IF a <= b THEN b - a ELSE 0
         /\ \A w \in 1..(b - a) : SubSeq(iobuf, a + 1, b)[w] = iobuf[a + w]
<1>1. a + 1 \in Int /\ b \in Int /\ Room \in Nat
  BY DumpConstants
<1>2. \A w \in (a + 1)..b : iobuf[w] \in Word
  BY <1>1 DEF TypeOK
<1>3. /\ SubSeq(iobuf, a + 1, b) \in Seq(Word)
      /\ Len(SubSeq(iobuf, a + 1, b)) = IF a + 1 <= b THEN b - (a + 1) + 1 ELSE 0
      /\ \A w \in 1..(b - (a + 1) + 1) : SubSeq(iobuf, a + 1, b)[w] = iobuf[(a + 1) + w - 1]
  BY ONLY <1>1, <1>2, SubSeqProperties
<1>4. b - (a + 1) + 1 = b - a /\ \A w \in Int : (a + 1) + w - 1 = a + w
  BY <1>1
<1>5. QED
  BY <1>1, <1>3, <1>4

LEMMA FdWriteKeeps ==
  ASSUME DumpInv, FdWrite
  PROVE  DumpInv'
<1>1. /\ pc = "fd_write" /\ pc' = "fd_close"
      /\ UNCHANGED <<types, fds, spare, iobuf, iobuf_len, i, dirfd, ifile, printed>>
      /\ TypeOK /\ fd' = fd /\ dirfd <= Len(fds) /\ fd.dot
  BY DEF FdWrite, environment, DumpInv, fd, FoundOK, Found
<1>2. PICK k \in 0..iobuf_len :
        files' = [files EXCEPT ![fd.dir] = SubSeq(iobuf, 1, k)] /\ written' = k
  BY DEF FdWrite
<1>3. iobuf_len \in 0..Room /\ Room \in Nat /\ k \in 0..Room
  BY <1>1, <1>2, DumpConstants DEF TypeOK
<1>4. SubSeq(iobuf, 1, k) \in Seq(Word)
  <2>1. SubSeq(iobuf, 0 + 1, k) \in Seq(Word)
    BY <1>1, <1>3, BufferPart
  <2>2. 0 + 1 = 1
    OBVIOUS
  <2>3. QED
    BY <2>1, <2>2
<1>5. fd.dir \in {"cwd", "elsewhere"}
  <2>1. fd \in Directory
    BY <1>1, NameRead DEF Closed
  <2>2. QED
    BY <2>1 DEF Directory
<1>6. files' \in [{"cwd", "elsewhere"} -> Seq(Word)] /\ files'[fd.dir] = SubSeq(iobuf, 1, k)
  BY <1>1, <1>2, <1>4, <1>5 DEF TypeOK
<1>7. TypeOK'
  BY <1>1, <1>2, <1>3, <1>6 DEF TypeOK
<1>8. /\ Offset' = Offset /\ Total' = Total
      /\ HasStored(Len(types))' <=> HasStored(Len(types))
      /\ ShortNames(dirfd)' <=> ShortNames(dirfd)
  BY <1>1, OffsetSame DEF HasStored, ShortNames
<1>9. BufferOK' /\ FoundOK'
  BY <1>1, <1>8 DEF DumpInv, BufferOK, FoundOK, Found, Storing
<1>10. FileOK'
  BY <1>1, <1>2, <1>6 DEF DumpInv, FileOK
<1>11. QED
  BY <1>7, <1>9, <1>10 DEF DumpInv

LEMMA FdCloseKeeps ==
  ASSUME DumpInv, FdClose
  PROVE  DumpInv'
<1>1. Only /\ pc = "fd_close" /\ pc' = "access"
  BY DEF FdClose, Only
<1>2. /\ TypeOK' /\ Offset' = Offset /\ Total' = Total /\ fd' = fd
      /\ \A n : HasStored(n)' <=> HasStored(n)
      /\ \A n : ShortNames(n)' <=> ShortNames(n)
  BY <1>1, OnlyKeeps
<1>3. types' = types /\ dirfd' = dirfd /\ fds' = fds
  BY <1>1 DEF Only, environment
<1>4. BufferOK'
  <2>1. (HasStored(Len(types)))' <=> HasStored(Len(types))
    BY <1>2, <1>3 DEF HasStored
  <2>2. (ShortNames(dirfd))' <=> ShortNames(dirfd)
    BY <1>3 DEF ShortNames
  <2>3. QED
    BY <1>1, <1>2, <2>1, <2>2 DEF Only, DumpInv, BufferOK, Found, Storing
<1>5. FoundOK' /\ FileOK'
  BY <1>1, <1>2 DEF Only, environment, DumpInv, FoundOK, FileOK, Found
<1>6. QED
  BY <1>2, <1>4, <1>5 DEF DumpInv

\* Two adjacent parts of a sequence
LEMMA PartOfSeq ==
  ASSUME NEW S, NEW s \in Seq(S), NEW a \in Nat, NEW b \in 0..Len(s)
  PROVE  /\ SubSeq(s, a + 1, b) \in Seq(S)
         /\ Len(SubSeq(s, a + 1, b)) = IF a <= b THEN b - a ELSE 0
         /\ \A w \in 1..(b - a) : SubSeq(s, a + 1, b)[w] = s[a + w]
<1>1. a + 1 \in Int /\ b \in Int /\ Len(s) \in Nat
  BY LenProperties
<1>2. \A w \in (a + 1)..b : s[w] \in S
  BY <1>1, ElementOfSeq
<1>3. /\ SubSeq(s, a + 1, b) \in Seq(S)
      /\ Len(SubSeq(s, a + 1, b)) = IF a + 1 <= b THEN b - (a + 1) + 1 ELSE 0
      /\ \A w \in 1..(b - (a + 1) + 1) : SubSeq(s, a + 1, b)[w] = s[(a + 1) + w - 1]
  BY ONLY <1>1, <1>2, SubSeqProperties
<1> DEFINE p == SubSeq(s, a + 1, b)
<1>4. p \in Seq(S) /\ Len(p) = IF a + 1 <= b THEN b - (a + 1) + 1 ELSE 0
  BY <1>3
<1>5. ASSUME NEW w \in 1..(b - a) PROVE p[w] = s[a + w]
  <2>1. w \in 1..(b - (a + 1) + 1) /\ (a + 1) + w - 1 = a + w
    BY <1>1
  <2>2. p[w] = s[(a + 1) + w - 1]
    BY <1>3, <2>1
  <2>3. QED
    BY <2>1, <2>2
<1> HIDE DEF p
<1>6. Len(p) = IF a <= b THEN b - a ELSE 0
  BY <1>1, <1>4
<1>7. QED
  BY <1>4, <1>5, <1>6 DEF p

LEMMA TakeApart ==
  ASSUME NEW S, NEW s \in Seq(S), NEW a \in Nat, NEW b \in Nat, NEW c \in 0..Len(s),
         a <= b, b <= c
  PROVE  /\ Len(SubSeq(s, a + 1, c)) = c - a
         /\ SubSeq(SubSeq(s, a + 1, c), 1, b - a) = SubSeq(s, a + 1, b)
         /\ SubSeq(SubSeq(s, a + 1, c), (b - a) + 1, c - a) = SubSeq(s, b + 1, c)
<1> DEFINE t == SubSeq(s, a + 1, c)
           m == b - a
           n == c - a
<1>1. Len(s) \in Nat /\ c \in Nat /\ a <= c /\ b \in 0..Len(s) /\ m \in Nat /\ n \in Nat
  BY LenProperties
<1>2. t \in Seq(S) /\ Len(t) = n /\ \A w \in 1..n : t[w] = s[a + w]
  BY <1>1, PartOfSeq
<1> HIDE DEF t
<1>3. 0 \in Nat /\ m \in 0..Len(t) /\ n \in 0..Len(t)
  BY <1>1, <1>2
<1>4. SubSeq(t, 1, m) = SubSeq(s, a + 1, b)
  <2>1. /\ SubSeq(t, 0 + 1, m) \in Seq(S)
        /\ Len(SubSeq(t, 0 + 1, m)) = IF 0 <= m THEN m - 0 ELSE 0
        /\ \A w \in 1..(m - 0) : SubSeq(t, 0 + 1, m)[w] = t[0 + w]
    BY <1>2, <1>3, PartOfSeq
  <2>2. /\ SubSeq(s, a + 1, b) \in Seq(S)
        /\ Len(SubSeq(s, a + 1, b)) = m
        /\ \A w \in 1..m : SubSeq(s, a + 1, b)[w] = s[a + w]
    BY <1>1, PartOfSeq
  <2>3. /\ SubSeq(t, 1, m) \in Seq(S) /\ Len(SubSeq(t, 1, m)) = m
        /\ \A w \in 1..m : SubSeq(t, 1, m)[w] = t[w]
    <3>1. 0 + 1 = 1 /\ m - 0 = m /\ 0 <= m /\ \A w \in 1..m : 0 + w = w
      BY <1>1
    <3>2. QED
      BY <2>1, <3>1
  <2>4. \A w \in 1..m : t[w] = s[a + w]
    BY <1>1, <1>2
  <2>5. QED
    BY <2>2, <2>3, <2>4, SeqEqual
<1>5. SubSeq(t, m + 1, n) = SubSeq(s, b + 1, c)
  <2>1. /\ SubSeq(t, m + 1, n) \in Seq(S)
        /\ Len(SubSeq(t, m + 1, n)) = IF m <= n THEN n - m ELSE 0
        /\ \A w \in 1..(n - m) : SubSeq(t, m + 1, n)[w] = t[m + w]
    <3>1. t \in Seq(S) /\ m \in Nat /\ n \in 0..Len(t)
      BY <1>1, <1>2, <1>3
    <3> HIDE DEF m, n
    <3>2. QED
      BY <3>1, PartOfSeq
  <2>2. /\ SubSeq(s, b + 1, c) \in Seq(S)
        /\ Len(SubSeq(s, b + 1, c)) = c - b
        /\ \A w \in 1..(c - b) : SubSeq(s, b + 1, c)[w] = s[b + w]
    BY <1>1, PartOfSeq
  <2>3. n - m = c - b /\ m <= n
    BY <1>1
  <2>4. \A w \in 1..(c - b) : t[m + w] = s[b + w]
    <3>1. \A w \in 1..(c - b) : m + w \in 1..n /\ a + (m + w) = b + w
      BY <1>1
    <3>2. QED
      BY <1>2, <3>1
  <2> DEFINE p == SubSeq(t, m + 1, n)
             q == SubSeq(s, b + 1, c)
             k == c - b
  <2>5. p \in Seq(S) /\ Len(p) = k /\ \A w \in 1..k : p[w] = t[m + w]
    <3>1. (IF m <= n THEN n - m ELSE 0) = k /\ n - m = k
      BY <2>3
    <3> HIDE DEF p, k, m, n
    <3>2. QED
      BY <2>1, <3>1 DEF p
  <2>6. q \in Seq(S) /\ Len(q) = k /\ \A w \in 1..k : q[w] = s[b + w]
    BY <2>2
  <2>7. \A w \in 1..k : t[m + w] = s[b + w]
    BY <2>4
  <2> HIDE DEF p, q, k, m, n
  <2>8. \A w \in 1..Len(p) : p[w] = q[w]
    BY ONLY <2>5, <2>6, <2>7
  <2>9. p = q
    BY ONLY <2>5, <2>6, <2>8, SeqEqual
  <2>10. QED
    BY <2>9 DEF p, q
<1>6. QED
  BY <1>2, <1>4, <1>5 DEF t

LEMMA BufferSeq ==
  ASSUME TypeOK
  PROVE  iobuf \in Seq(Word) /\ Len(iobuf) = Room /\ Room \in Nat
BY DumpConstants, LenProperties, SeqDef DEF TypeOK

LEMMA AccessKeeps ==
  ASSUME DumpInv, Access
  PROVE  DumpInv'
<1>1. /\ pc = "access"
      /\ UNCHANGED <<types, fds, spare, iobuf, iobuf_len, dirfd, files, printed, written>>
      /\ TypeOK /\ fd' = fd /\ fd.dot /\ dirfd <= Len(fds) /\ types \in Types
      /\ iobuf_len = Total /\ printed = <<>>
      /\ written <= iobuf_len /\ files[fd.dir] = SubSeq(iobuf, 1, written)
  BY DEF Access, environment, DumpInv, fd, FoundOK, FileOK, BufferOK, Found, TypeOK
<1>2. /\ Offset' = Offset /\ Total' = Total
      /\ HasStored(Len(types))' <=> HasStored(Len(types))
      /\ ShortNames(dirfd)' <=> ShortNames(dirfd)
  BY <1>1, OffsetSame DEF HasStored, ShortNames
<1>3. Len(types) \in Nat /\ iobuf_len \in 0..Room /\ Room \in Nat /\ written \in 0..Room
  BY <1>1, TypesAre, DumpConstants DEF TypeOK
<1>4. CASE files["cwd"] = NoFile
  <2>1. pc' = "cannot_access" /\ UNCHANGED <<i, ifile>>
    BY <1>4 DEF Access
  <2>2. fd.dir # "cwd"
    <3>1. SUFFICES ASSUME fd.dir = "cwd" PROVE FALSE
      OBVIOUS
    <3>2. SubSeq(iobuf, 1, written) = <<Undefined>>
      BY <1>1, <1>4, <3>1 DEF NoFile
    <3>3. 0 + 1 = 1 /\ 0 \in Nat /\ written - 0 = written
      BY <1>3
    <3>4. /\ Len(SubSeq(iobuf, 0 + 1, written)) = IF 0 <= written THEN written - 0 ELSE 0
          /\ \A w \in 1..(written - 0) : SubSeq(iobuf, 0 + 1, written)[w] = iobuf[0 + w]
      BY <1>1, <1>3, <3>3, BufferPart
    <3>5. Len(<<Undefined>>) = 1 /\ <<Undefined>>[1] = Undefined
      OBVIOUS
    <3>6. written = 1
      BY <1>3, <3>2, <3>3, <3>4, <3>5
    <3>7. iobuf[1] = Undefined /\ 1 \in 1..Room
      <4>1. 1 \in 1..(written - 0) /\ 0 + 1 = 1 /\ 1 \in 1..Room
        BY <1>3, <3>6
      <4>2. SubSeq(iobuf, 0 + 1, written)[1] = iobuf[0 + 1]
        BY <3>4, <4>1
      <4>3. SubSeq(iobuf, 1, written)[1] = iobuf[1]
        BY <4>1, <4>2
      <4>4. QED
        BY <3>2, <3>5, <4>1, <4>3
    <3>8. QED
      BY <3>7 DEF DumpInv, BufferOK
  <2>3. TypeOK'
    BY <1>1, <2>1 DEF TypeOK, Final
  <2>4. BufferOK' /\ FoundOK' /\ FileOK'
    BY <1>1, <1>2, <2>1, <2>2 DEF DumpInv, BufferOK, FoundOK, FileOK, Found, Storing
  <2>5. QED
    BY <2>3, <2>4 DEF DumpInv
<1>5. CASE files["cwd"] # NoFile
  <2>1. pc' = "read" /\ i' = 1 /\ ifile' = files["cwd"]
    BY <1>5 DEF Access
  <2>2. TypeOK'
    BY <1>1, <1>3, <2>1 DEF TypeOK
  <2>3. i' - 1 = 0 /\ Offset[0] = 0 /\ 0 + 1 = 1
    BY <1>1, <2>1, OffsetIs
  <2>4. Len(printed') = i' - 1
    BY <1>1, <2>3
  <2>5. fd.dir = "cwd" /\ written = iobuf_len => ifile' = SubSeq(iobuf, Offset[i' - 1] + 1, Total)
    BY <1>1, <2>1, <2>3
  <2>6. 1..(i' - 1) = {}
    BY <2>3
  <2>7. FileOK'
    BY <1>1, <1>2, <2>1, <2>4, <2>5, <2>6 DEF FileOK
  <2>8. BufferOK' /\ FoundOK'
    BY <1>1, <1>2, <2>1 DEF DumpInv, BufferOK, FoundOK, Found, Storing
  <2>9. QED
    BY <2>2, <2>7, <2>8 DEF DumpInv
<1>6. QED
  BY <1>4, <1>5

LEMMA PrintVariableKeeps ==
  ASSUME DumpInv, PrintVariable
  PROVE  DumpInv'
<1> DEFINE size == Words(types[i])
<1>1. /\ pc = "read" /\ pc' = "read" /\ i <= Len(types) /\ i' = i + 1
      /\ UNCHANGED <<types, fds, spare, iobuf, iobuf_len, dirfd, files, written>>
      /\ TypeOK /\ fd' = fd /\ types \in Types
      /\ iobuf_len = Total /\ written <= iobuf_len
  BY DEF PrintVariable, environment, DumpInv, fd, FileOK, BufferOK, Found, TypeOK
<1>2. /\ Offset' = Offset /\ Total' = Total
      /\ HasStored(Len(types))' <=> HasStored(Len(types))
      /\ ShortNames(dirfd)' <=> ShortNames(dirfd)
  BY <1>1, OffsetSame DEF HasStored, ShortNames
<1>3. /\ Len(types) \in Nat /\ i \in 1..Len(types) /\ size \in Nat
      /\ ifile \in Seq(Word) /\ Len(ifile) \in Nat /\ printed \in Seq(Seq(Word))
      /\ iobuf_len \in 0..Room
  BY <1>1, TypesAre, LenProperties DEF TypeOK
<1>4. IF size <= Len(ifile)
      THEN /\ printed' = Append(printed, SubSeq(ifile, 1, size))
           /\ ifile' = SubSeq(ifile, size + 1, Len(ifile))
      ELSE /\ printed' = Append(printed, <<Undefined>>)
           /\ ifile' = <<>>
  BY DEF PrintVariable
<1>5. printed' \in Seq(Seq(Word)) /\ ifile' \in Seq(Word)
  <2>1. <<Undefined>> \in Seq(Word) /\ <<>> \in Seq(Word)
    BY DEF Undefined, Word
  <2>2. ASSUME size <= Len(ifile)
        PROVE  SubSeq(ifile, 0 + 1, size) \in Seq(Word) /\ SubSeq(ifile, size + 1, Len(ifile)) \in Seq(Word)
    <3>1. size \in 0..Len(ifile) /\ Len(ifile) \in 0..Len(ifile) /\ 0 \in Nat
      BY <1>3, <2>2
    <3>2. QED
      BY <1>3, <3>1, PartOfSeq
  <2>3. 0 + 1 = 1
    OBVIOUS
  <2> HIDE DEF size
  <2>4. CASE size <= Len(ifile)
    <3>1. SubSeq(ifile, 1, size) \in Seq(Word)
      BY <2>2, <2>3, <2>4
    <3>2. Append(printed, SubSeq(ifile, 1, size)) \in Seq(Seq(Word))
      BY ONLY <1>3, <3>1, AppendProperties
    <3>3. printed' = Append(printed, SubSeq(ifile, 1, size)) /\ ifile' = SubSeq(ifile, size + 1, Len(ifile))
      BY <1>4, <2>4 DEF size
    <3>4. QED
      BY <2>2, <2>4, <3>2, <3>3
  <2>5. CASE ~(size <= Len(ifile))
    <3>1. Append(printed, <<Undefined>>) \in Seq(Seq(Word))
      BY ONLY <1>3, <2>1, AppendProperties
    <3>2. printed' = Append(printed, <<Undefined>>) /\ ifile' = <<>>
      BY <1>4, <2>5 DEF size
    <3>3. QED
      BY <2>1, <3>1, <3>2
  <2>6. QED
    BY <2>4, <2>5
<1>6. TypeOK'
  BY <1>1, <1>3, <1>5 DEF TypeOK
<1>7. ASSUME fd.dir = "cwd", written = iobuf_len
      PROVE  /\ Len(printed') = i
             /\ \A k \in 1..i : printed'[k] = SubSeq(iobuf, Offset[k - 1] + 1, Offset[k])
             /\ ifile' = SubSeq(iobuf, Offset[i] + 1, Total)
  <2>1. /\ Len(printed) = i - 1
        /\ \A k \in 1..(i - 1) : printed[k] = SubSeq(iobuf, Offset[k - 1] + 1, Offset[k])
        /\ ifile = SubSeq(iobuf, Offset[i - 1] + 1, Total)
    BY <1>1, <1>7 DEF DumpInv, FileOK
  <2> DEFINE a == Offset[i - 1]
             b == Offset[i]
  <2>2. a \in Nat /\ b \in Nat /\ b = a + size /\ b <= Total
    <3>1. i - 1 \in 0..Len(types) /\ i \in 0..Len(types)
      BY <1>3
    <3>2. QED
      BY <1>1, <1>3, <3>1, OffsetIs, OffsetGrows
  <2>3. iobuf \in Seq(Word) /\ Total \in 0..Len(iobuf)
    BY <1>1, <1>3, BufferSeq
  <2> HIDE DEF a, b, size
  <2>4. a <= b /\ b - a = size /\ Total - b \in Int
    BY <1>3, <2>2, <2>3, BufferSeq, <1>1
  <2>5. /\ Len(ifile) = Total - a
        /\ SubSeq(ifile, 1, size) = SubSeq(iobuf, a + 1, b)
        /\ SubSeq(ifile, size + 1, Len(ifile)) = SubSeq(iobuf, b + 1, Total)
    <3>1. ifile = SubSeq(iobuf, a + 1, Total)
      BY <2>1 DEF a
    <3>2. /\ Len(SubSeq(iobuf, a + 1, Total)) = Total - a
          /\ SubSeq(SubSeq(iobuf, a + 1, Total), 1, b - a) = SubSeq(iobuf, a + 1, b)
          /\ SubSeq(SubSeq(iobuf, a + 1, Total), (b - a) + 1, Total - a) = SubSeq(iobuf, b + 1, Total)
      <4>1. a \in Nat /\ b \in Nat /\ a <= b /\ b <= Total
        BY <2>2, <2>4
      <4>2. QED
        BY ONLY <2>3, <4>1, TakeApart
    <3>3. QED
      BY <2>4, <3>1, <3>2
  <2>6. size <= Len(ifile)
    BY <1>3, <2>2, <2>3, <2>5, <1>1, BufferSeq
  <2>7. printed' = Append(printed, SubSeq(iobuf, a + 1, b)) /\ ifile' = SubSeq(iobuf, b + 1, Total)
    BY <1>4, <2>5, <2>6
  <2>8. SubSeq(iobuf, a + 1, b) \in Seq(Word)
    <3>1. b \in 0..Len(iobuf)
      BY <2>2, <2>3, BufferSeq, <1>1
    <3>2. QED
      BY <2>2, <2>3, <3>1, PartOfSeq
  <2>9. /\ Len(printed') = (i - 1) + 1
        /\ \A k \in 1..(i - 1) : printed'[k] = printed[k]
        /\ printed'[(i - 1) + 1] = SubSeq(iobuf, a + 1, b)
    <3> DEFINE e == SubSeq(iobuf, a + 1, b)
    <3>1. printed \in Seq(Seq(Word)) /\ e \in Seq(Word) /\ Len(printed) = i - 1 /\ printed' = Append(printed, e)
      BY <1>3, <2>1, <2>7, <2>8
    <3> HIDE DEF e
    <3>2. /\ Len(Append(printed, e)) = Len(printed) + 1
          /\ \A k \in 1..Len(printed) : Append(printed, e)[k] = printed[k]
          /\ Append(printed, e)[Len(printed) + 1] = e
      BY ONLY <3>1, AppendProperties
    <3>3. QED
      BY <3>1, <3>2 DEF e
  <2>10. (i - 1) + 1 = i /\ \A k \in 1..i : k \in 1..(i - 1) \/ k = i
    BY <1>3
  <2>11. QED
    BY <2>1, <2>7, <2>9, <2>10 DEF a, b
<1>8. i' - 1 = i
  BY <1>1, <1>3
<1>9. FileOK'
  BY <1>1, <1>2, <1>7, <1>8 DEF FileOK
<1>10. BufferOK' /\ FoundOK'
  BY <1>1, <1>2 DEF DumpInv, BufferOK, FoundOK, Found, Storing
<1>11. QED
  BY <1>6, <1>9, <1>10 DEF DumpInv

LEMMA PrintedKeeps ==
  ASSUME DumpInv, Printed
  PROVE  DumpInv'
<1>1. Only /\ pc = "read" /\ pc' = "printed" /\ i > Len(types)
  BY DEF Printed, Only
<1>2. /\ TypeOK' /\ Offset' = Offset /\ Total' = Total /\ fd' = fd
  BY <1>1, OnlyKeeps DEF Final
<1>3. /\ HasStored(Len(types))' <=> HasStored(Len(types))
      /\ ShortNames(dirfd)' <=> ShortNames(dirfd)
  BY <1>1, <1>2 DEF Only, environment, HasStored, ShortNames
<1>4. i = Len(types) + 1
  BY <1>1, TypesAre DEF DumpInv, TypeOK
<1>5. BufferOK' /\ FoundOK' /\ FileOK'
  BY <1>1, <1>2, <1>3, <1>4
  DEF Only, environment, DumpInv, BufferOK, FoundOK, FileOK, Found, Storing
<1>6. QED
  BY <1>2, <1>5 DEF DumpInv

LEMMA DumpStep == DumpInv /\ [Next]_vars => DumpInv'
<1> SUFFICES ASSUME DumpInv, [Next]_vars PROVE DumpInv'
  OBVIOUS
<1>1. CASE UNCHANGED vars
  <2>1. UNCHANGED <<types, fds, spare, pc, iobuf, iobuf_len, i, dirfd, files, ifile, printed, written>>
    BY <1>1 DEF vars, environment
  <2>2. Offset' = Offset /\ Total' = Total /\ fd' = fd
    BY <2>1, OffsetSame DEF fd
  <2>3. /\ HasStored(Len(types))' <=> HasStored(Len(types))
        /\ HasStored(i - 1)' <=> HasStored(i - 1)
        /\ ShortNames(dirfd)' <=> ShortNames(dirfd)
        /\ ShortNames(dirfd - 1)' <=> ShortNames(dirfd - 1)
    BY <2>1, <2>2 DEF HasStored, ShortNames
  <2>4. TypeOK' /\ FoundOK' /\ FileOK'
    BY <2>1, <2>2 DEF DumpInv, TypeOK, FoundOK, FileOK
  <2>5. BufferOK'
    BY <2>1, <2>2, <2>3 DEF DumpInv, BufferOK
  <2>6. QED
    BY <2>4, <2>5 DEF DumpInv
<1>2. CASE Done
  BY <1>1, <1>2 DEF Done
<1>3. QED
  BY <1>1, <1>2, LoadDataKeeps, StoreVariableKeeps, CiovecKeeps, NotThisDirectoryKeeps,
     ThisDirectoryKeeps, ExitKeeps, PathOpenKeeps, FdWriteKeeps, FdCloseKeeps, AccessKeeps,
     PrintVariableKeeps, PrintedKeeps DEF Next

LEMMA DumpAlways == Spec => []DumpInv
BY DumpInit, DumpStep, PTL DEF Spec

-----------------------------------------------------------------------------
\* Buffer, files and descriptors keep their types: every store is inside of
\* the page or traps, and the search for a directory ends behind the last one.
THEOREM TypeCorrect == Spec => []TypeOK
<1>1. DumpInv => TypeOK
  BY DEF DumpInv
<1>2. QED
  BY <1>1, DumpAlways, PTL

(***************************************************************************)
(* For all variables, directories and sizes: if the tool prints a value    *)
(* that is not the one at the place of the inspection, then for one of the *)
(* three reasons.                                                          *)
(***************************************************************************)
THEOREM WrongAlwaysExplained == Spec => []WrongIsExplained
<1>1. ASSUME DumpInv, pc = "printed", fd.dir = "cwd", ~(written < iobuf_len),
             ~\E k \in 1..dirfd : fds[k].len > NameRoom
      PROVE  printed = Values
  <2>1. /\ TypeOK /\ types \in Types /\ i = Len(types) + 1 /\ written <= iobuf_len
        /\ dirfd <= Len(fds) /\ iobuf_len = Total
    BY <1>1 DEF DumpInv, FileOK, FoundOK, BufferOK, Found, TypeOK
  <2>2. /\ Len(types) \in Nat /\ i - 1 = Len(types) /\ iobuf_len \in 0..Room /\ written \in 0..Room
        /\ Len(fds) \in Nat /\ dirfd \in 1..Len(fds) /\ DOMAIN types = 1..Len(types) /\ Room \in Nat
    BY <2>1, TypesAre, DumpConstants DEF TypeOK
  <2>3. ShortNames(dirfd)
    <3>1. ASSUME NEW k \in 1..dirfd PROVE fds[k].len \in Nat
      <4>1. fds[k] \in Directory \cup {Closed}
        BY <2>1, <2>2, ElementOfSeq DEF TypeOK
      <4>2. QED
        BY <4>1 DEF Directory, Closed
    <3>2. QED
      BY <1>1, <3>1, DumpConstants DEF ShortNames
  <2>4. HasStored(Len(types))
    BY <1>1, <2>3 DEF DumpInv, BufferOK, Found
  <2>5. /\ Len(printed) = Len(types)
        /\ \A k \in 1..Len(types) : printed[k] = SubSeq(iobuf, Offset[k - 1] + 1, Offset[k])
    <3>1. written = iobuf_len
      BY <1>1, <2>1, <2>2
    <3>2. QED
      BY <1>1, <2>2, <3>1 DEF DumpInv, FileOK
  <2>6. ASSUME NEW k \in 1..Len(types) PROVE printed[k] = Value(k)
    <3>1. /\ k - 1 \in 0..Len(types) /\ k \in 0..Len(types)
          /\ Offset[k - 1] \in Nat /\ Offset[k] \in Nat /\ Words(types[k]) \in Nat
          /\ Offset[k] = Offset[k - 1] + Words(types[k]) /\ Offset[k] <= Total
      <4>1. k - 1 \in 0..Len(types) /\ k \in 0..Len(types)
        BY <2>2
      <4>2. QED
        BY <2>1, <4>1, OffsetIs, OffsetGrows, TypesAre
    <3> DEFINE a == Offset[k - 1]
               b == Offset[k]
               size == Words(types[k])
    <3>2. a \in Nat /\ b \in 0..Room /\ b - a = size /\ a <= b
      BY <2>1, <2>2, <3>1
    <3>3. \A w \in 1..size : iobuf[a + w] = <<k, w>>
      BY <2>4 DEF HasStored
    <3>4. printed[k] = SubSeq(iobuf, a + 1, b)
      BY <2>5
    <3>5. Value(k) \in [1..size -> Word] /\ \A w \in 1..size : Value(k)[w] = <<k, w>>
      BY <2>1, ValueType
    <3>6. size \in Nat
      BY <3>1
    <3> HIDE DEF a, b, size
    <3>7. /\ SubSeq(iobuf, a + 1, b) \in Seq(Word) /\ Len(SubSeq(iobuf, a + 1, b)) = size
          /\ \A w \in 1..size : SubSeq(iobuf, a + 1, b)[w] = iobuf[a + w]
      BY <2>1, <3>2, BufferPart
    <3>8. Value(k) \in Seq(Word) /\ Len(Value(k)) = size
      BY <3>5, <3>6, SeqDef, LenProperties
    <3>9. QED
      <4> DEFINE part == SubSeq(iobuf, a + 1, b)
      <4>1. \A w \in 1..size : part[w] = Value(k)[w]
        BY <3>3, <3>5, <3>7
      <4>2. part \in Seq(Word) /\ Len(part) = size
        BY <3>7
      <4> HIDE DEF part
      <4>3. part = Value(k)
        BY ONLY <3>8, <4>1, <4>2, SeqEqual
      <4>4. QED
        BY <3>4, <4>3 DEF part
  <2>7. printed \in Seq(Seq(Word))
    BY <2>1 DEF TypeOK
  <2>8. printed = [k \in 1..Len(types) |-> printed[k]]
    BY <2>5, <2>7, LenProperties
  <2>9. QED
    BY <2>2, <2>6, <2>8 DEF Values
<1>2. DumpInv => WrongIsExplained
  BY <1>1 DEF WrongIsExplained
<1>3. QED
  BY <1>2, DumpAlways, PTL

(***************************************************************************)
(* For all variables, directories and sizes: a trap means that there was   *)
(* no memory or not enough in a page, and then nothing is printed; and the *)
(* tool does not miss its file where that is in the working directory.     *)
(***************************************************************************)
THEOREM FailureAlwaysExplained == Spec => []FailureIsExplained
<1>1. ASSUME DumpInv, pc \in {"printed", "cannot_access"} PROVE Total <= Room
  BY <1>1, DumpConstants DEF DumpInv, BufferOK, Found, TypeOK
<1>2. DumpInv => FailureIsExplained
  BY <1>1 DEF DumpInv, FoundOK, FailureIsExplained
<1>3. QED
  BY <1>2, DumpAlways, PTL

(***************************************************************************)
(* For all lists of directories: without another "." directory the cache   *)
(* files elsewhere are never touched.                                      *)
(***************************************************************************)
THEOREM AlwaysWorkingDirectory == Spec => OnlyWorkingDirectory
<1> DEFINE OnlyCwd == \A k \in DOMAIN fds : fds[k].dot => fds[k].dir = "cwd"
<1>1. ASSUME DumpInv, [Next]_vars, OnlyCwd PROVE UNCHANGED files["elsewhere"]
  <2>1. ASSUME pc \in {"path_open", "fd_write"} PROVE fd.dir = "cwd"
    <3>1. fd.dot /\ dirfd \in 1..Len(fds) /\ fds \in Seq(Directory \cup {Closed})
      <4>1. dirfd <= Len(fds) /\ fd.dot
        BY <1>1, <2>1 DEF DumpInv, FoundOK, Found
      <4>2. fds \in Seq(Directory \cup {Closed}) /\ dirfd \in 1..(Len(fds) + 1) /\ Len(fds) \in Nat
        BY <1>1, LenProperties DEF DumpInv, TypeOK
      <4>3. QED
        BY <4>1, <4>2
    <3>2. dirfd \in DOMAIN fds
      BY <3>1, LenProperties
    <3>3. QED
      BY <1>1, <3>1, <3>2 DEF fd
  <2>2. \A x : [files EXCEPT !["cwd"] = x]["elsewhere"] = files["elsewhere"]
    BY <1>1 DEF DumpInv, TypeOK
  <2>3. CASE PathOpen
    BY <2>1, <2>2, <2>3 DEF PathOpen
  <2>4. CASE FdWrite
    BY <2>1, <2>2, <2>4 DEF FdWrite
  <2>5. CASE UNCHANGED files
    BY <2>5
  <2>6. QED
    BY <1>1, <2>3, <2>4, <2>5
    DEF Next, vars, LoadData, StoreVariable, Ciovec, NotThisDirectory, ThisDirectory, NoDirectory,
        FdClose, WasiFails, Access, PrintVariable, Printed, Done
<1>2. DumpInv /\ [Next]_vars => [OnlyCwd => UNCHANGED files["elsewhere"]]_vars
  BY <1>1
<1>3. QED
  BY <1>2, DumpAlways, PTL DEF Spec, OnlyWorkingDirectory
=============================================================================
