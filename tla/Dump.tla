-------------------------------- MODULE Dump --------------------------------
(***************************************************************************)
(* What happens at the place of an inspection.  The inserted code stores   *)
(* the local or global variables in a page of its own, looks for the       *)
(* descriptor of the working directory, writes the cache file there and    *)
(* exits; the tool reads the cache file and prints the variables.          *)
(*                                                                         *)
(* Memory and files are sequences of words of four bytes.  The runtime and *)
(* the program that is inspected are the environment: the descriptors that *)
(* are open, the memory that is left, and the answers of WASI.             *)
(***************************************************************************)
EXTENDS Integers, SequencesExt

CONSTANTS
  Types,      \* the lists of types that the variables of a program may have
  Options,    \* the lists of directories a user may open by --dir
  NameRoom,   \* the words between $__instr_wasi_ret_addr and $__instr_iobuf_addr
  Room        \* the words from $__instr_iobuf_addr to the end of the page

\* A directory has a name, of which the first character and the length in words
\* matter, and is the working directory or another one.
Directory == [dot : BOOLEAN, len : Nat \ {0}, dir : {"cwd", "elsewhere"}]

WorkingDirectory == [dot |-> TRUE, len |-> 1, dir |-> "cwd"]

ASSUME DumpConstants ==
  /\ Types \subseteq Seq({"none", "i32", "i64", "f32", "f64", "v128"})
  /\ Options \subseteq Seq(Directory)
  /\ NameRoom \in Nat \ {0} /\ Room \in Nat

VARIABLES
  types,      \* the types of the variables; "none" is one that is not shown
  fds,        \* the descriptors from 3 on: a directory, or Closed
  spare,      \* the memory may still grow
  pc,         \* what the instrumented program, and then the tool, does next
  iobuf,      \* the words from $__instr_iobuf_addr on
  iobuf_len,  \* __instr_iobuf_len, in words
  i,          \* the variable that is stored or printed
  dirfd,      \* the descriptor that is looked at
  files,      \* the cache file of every directory, NoFile if there is none
  ifile,      \* what the tool has still to read
  printed,    \* the words of each variable that has been printed
  written     \* history: how many words fd_write() has taken

environment == <<types, fds, spare>>
vars == <<environment, pc, iobuf, iobuf_len, i, dirfd, files, ifile, printed, written>>

\* A word is one of a variable, or of something else.
Word == Nat \X Nat
Zero == <<1, 0>>
OfName == <<2, 0>>
Old == <<3, 0>>
Undefined == <<4, 0>>
Closed == [dot |-> FALSE, len |-> 1, dir |-> "closed"]
NoFile == <<Undefined>>

-----------------------------------------------------------------------------
(***************************************************************************)
(* _make_variable_op() and _print_typed_number(): the words of a type      *)
(***************************************************************************)
Words(type) ==
  CASE type = "none" -> 0
    [] type \in {"i32", "f32"} -> 1
    [] type \in {"i64", "f64"} -> 2
    [] type = "v128" -> 4

\* The value of variable k
Value(k) == [w \in 1..Words(types[k]) |-> <<k, w>>]

Values == [k \in DOMAIN types |-> Value(k)]

(***************************************************************************)
(* modify_runtime_command() looks for "--dir=." anywhere in the command,   *)
(* so any directory with a first "." keeps it from opening the working     *)
(* directory.  Its own option comes first.                                 *)
(***************************************************************************)
Opened(dirs) ==
  IF \E d \in ToSet(dirs) : d.dot THEN dirs ELSE <<WorkingDirectory>> \o dirs

-----------------------------------------------------------------------------
Final == {"trap", "exit_12", "cannot_access", "printed"}

\* The type invariant
TypeOK ==
  /\ types \in Types
  /\ fds \in Seq(Directory \cup {Closed})
  /\ spare \in BOOLEAN
  /\ pc \in Final \cup
       {"load", "store", "get_cwd_fd", "path_open", "fd_write", "fd_close", "access", "read"}
  /\ iobuf \in [1..Room -> Word]
  /\ iobuf_len \in 0..Room
  /\ i \in 1..(Len(types) + 1)
  /\ dirfd \in 1..(Len(fds) + 1)
  /\ files \in [{"cwd", "elsewhere"} -> Seq(Word)]
  /\ ifile \in Seq(Word)
  /\ printed \in Seq(Seq(Word))
  /\ written \in 0..Room

\* The program comes to the place of the inspection.
Init ==
  /\ types \in Types
  /\ \E dirs \in Options :
       LET open == Opened(dirs)
       IN  \E closed \in SUBSET DOMAIN open :
             fds = [k \in DOMAIN open |-> IF k \in closed THEN Closed ELSE open[k]]
  /\ spare \in BOOLEAN
  /\ pc = "load"
  /\ iobuf = [w \in 1..Room |-> Zero]
  /\ iobuf_len = 0
  /\ i = 1
  /\ dirfd = 1
  /\ \E old \in {NoFile, <<Old, Old>>} : files = [d \in {"cwd", "elsewhere"} |-> old]
  /\ ifile = <<>> /\ printed = <<>>
  /\ written = 0

-----------------------------------------------------------------------------
(***************************************************************************)
(* $__instr_load_data: without a page memory.grow gives -1, and            *)
(* memory.init is out of bounds.                                           *)
(***************************************************************************)
LoadData ==
  /\ pc = "load"
  /\ pc' = IF spare THEN "store" ELSE "trap"
  /\ UNCHANGED <<environment, iobuf, iobuf_len, i, dirfd, files, ifile, printed, written>>

\* Words ws of the buffer, from the one after position at
Stored(at, ws) ==
  [w \in 1..Room |-> IF w \in (at + 1)..(at + Len(ws)) THEN ws[w - at] ELSE iobuf[w]]

\* Mutant: a variable that is not shown takes a word.
StoreVariable_NotSkipped ==
  /\ pc = "store" /\ i <= Len(types)
  /\ IF iobuf_len + Words(types[i]) > Room
     THEN pc' = "trap" /\ UNCHANGED <<iobuf, iobuf_len, i>>
     ELSE /\ iobuf' = Stored(iobuf_len, Value(i))
          /\ iobuf_len' = iobuf_len + (IF types[i] = "none" THEN 1 ELSE Words(types[i]))
          /\ i' = i + 1
          /\ UNCHANGED pc
  /\ UNCHANGED <<environment, dirfd, files, ifile, printed, written>>

\* Mutant: a value of 16 bytes counts for 8.
StoreVariable_Half ==
  /\ pc = "store" /\ i <= Len(types)
  /\ IF iobuf_len + Words(types[i]) > Room
     THEN pc' = "trap" /\ UNCHANGED <<iobuf, iobuf_len, i>>
     ELSE /\ iobuf' = Stored(iobuf_len, Value(i))
          /\ iobuf_len' = iobuf_len + (IF types[i] = "v128" THEN 2 ELSE Words(types[i]))
          /\ i' = i + 1
          /\ UNCHANGED pc
  /\ UNCHANGED <<environment, dirfd, files, ifile, printed, written>>

\* The code that _make_variable_op() makes for one variable; past the page the
\* store traps, as the page is the last one.
StoreVariable ==
  /\ pc = "store" /\ i <= Len(types)
  /\ IF iobuf_len + Words(types[i]) > Room
     THEN pc' = "trap" /\ UNCHANGED <<iobuf, iobuf_len, i>>
     ELSE /\ iobuf' = Stored(iobuf_len, Value(i))
          /\ iobuf_len' = iobuf_len + Words(types[i])
          /\ i' = i + 1
          /\ UNCHANGED pc
  /\ UNCHANGED <<environment, dirfd, files, ifile, printed, written>>

Ciovec ==
  /\ pc = "store" /\ i > Len(types)
  /\ pc' = "get_cwd_fd"
  /\ UNCHANGED <<environment, iobuf, iobuf_len, i, dirfd, files, ifile, printed, written>>

(***************************************************************************)
(* $__instr_get_cwd_fd: one iteration of its loop.  The name is put where  *)
(* there is room for NameRoom words before the buffer, with the length it  *)
(* has; what is compared is its first character.                           *)
(***************************************************************************)
fd == fds[dirfd]

NameStored ==
  Stored(0, [w \in 1..(IF fd.len > NameRoom THEN fd.len - NameRoom ELSE 0) |-> OfName])

\* Mutant: the next descriptor is not taken.
NotThisDirectory_Stay ==
  /\ pc = "get_cwd_fd" /\ dirfd <= Len(fds) /\ fd # Closed /\ fd.len <= NameRoom + Room
  /\ ~fd.dot
  /\ iobuf' = NameStored
  /\ UNCHANGED <<environment, pc, iobuf_len, i, dirfd, files, ifile, printed, written>>

NotThisDirectory ==
  /\ pc = "get_cwd_fd" /\ dirfd <= Len(fds) /\ fd # Closed /\ fd.len <= NameRoom + Room
  /\ ~fd.dot
  /\ iobuf' = NameStored
  /\ dirfd' = dirfd + 1
  /\ UNCHANGED <<environment, pc, iobuf_len, i, files, ifile, printed, written>>

\* Mutant: the first descriptor is taken.
ThisDirectory_First ==
  /\ pc = "get_cwd_fd" /\ dirfd <= Len(fds) /\ fd # Closed /\ fd.len <= NameRoom + Room
  /\ iobuf' = NameStored
  /\ pc' = "path_open"
  /\ UNCHANGED <<environment, iobuf_len, i, dirfd, files, ifile, printed, written>>

ThisDirectory ==
  /\ pc = "get_cwd_fd" /\ dirfd <= Len(fds) /\ fd # Closed /\ fd.len <= NameRoom + Room
  /\ fd.dot
  /\ iobuf' = NameStored
  /\ pc' = "path_open"
  /\ UNCHANGED <<environment, iobuf_len, i, dirfd, files, ifile, printed, written>>

\* The descriptor is not open, or the name does not fit into the memory.
NoDirectory ==
  /\ pc = "get_cwd_fd"
  /\ dirfd > Len(fds) \/ fd = Closed \/ fd.len > NameRoom + Room
  /\ pc' = "exit_12"
  /\ UNCHANGED <<environment, iobuf, iobuf_len, i, dirfd, files, ifile, printed, written>>

(***************************************************************************)
(* $__instr_fopen_rw creates or empties the file.  How much fd_write() has *)
(* written is not looked at.                                               *)
(***************************************************************************)
PathOpen ==
  /\ pc = "path_open"
  /\ pc' = "fd_write"
  /\ files' = [files EXCEPT ![fd.dir] = <<>>]
  /\ UNCHANGED <<environment, iobuf, iobuf_len, i, dirfd, ifile, printed, written>>

FdWrite ==
  /\ pc = "fd_write"
  /\ \E k \in 0..iobuf_len :
       /\ files' = [files EXCEPT ![fd.dir] = SubSeq(iobuf, 1, k)]
       /\ written' = k
  /\ pc' = "fd_close"
  /\ UNCHANGED <<environment, iobuf, iobuf_len, i, dirfd, ifile, printed>>

\* The program exits with 10.
FdClose ==
  /\ pc = "fd_close"
  /\ pc' = "access"
  /\ UNCHANGED <<environment, iobuf, iobuf_len, i, dirfd, files, ifile, printed, written>>

\* Mutant: the error of a call is not tested.
WasiFails_Ignored ==
  /\ pc \in {"path_open", "fd_write", "fd_close"}
  /\ pc' = CASE pc = "path_open" -> "fd_write" [] pc = "fd_write" -> "fd_close" [] OTHER -> "access"
  /\ UNCHANGED <<environment, iobuf, iobuf_len, i, dirfd, files, ifile, printed, written>>

WasiFails ==
  /\ pc \in {"path_open", "fd_write", "fd_close"}
  /\ pc' = "exit_12"
  /\ UNCHANGED <<environment, iobuf, iobuf_len, i, dirfd, files, ifile, printed, written>>

-----------------------------------------------------------------------------
(***************************************************************************)
(* print_cache_file() and InspectPrintInfo::print(): the file is the one   *)
(* of the tool's own working directory.  A number that cannot be read      *)
(* whole is not initialized.                                               *)
(***************************************************************************)
Access ==
  /\ pc = "access"
  /\ IF files["cwd"] = NoFile
     THEN pc' = "cannot_access" /\ UNCHANGED <<i, ifile>>
     ELSE pc' = "read" /\ i' = 1 /\ ifile' = files["cwd"]
  /\ UNCHANGED <<environment, iobuf, iobuf_len, dirfd, files, printed, written>>

PrintVariable ==
  /\ pc = "read" /\ i <= Len(types)
  /\ LET size == Words(types[i])
     IN  IF size <= Len(ifile)
         THEN /\ printed' = Append(printed, SubSeq(ifile, 1, size))
              /\ ifile' = SubSeq(ifile, size + 1, Len(ifile))
         ELSE /\ printed' = Append(printed, <<Undefined>>)
              /\ ifile' = <<>>
  /\ i' = i + 1
  /\ UNCHANGED <<environment, pc, iobuf, iobuf_len, dirfd, files, written>>

Printed ==
  /\ pc = "read" /\ i > Len(types)
  /\ pc' = "printed"
  /\ UNCHANGED <<environment, iobuf, iobuf_len, i, dirfd, files, ifile, printed, written>>

Done == pc \in Final /\ UNCHANGED vars

Next ==
  \/ LoadData \/ StoreVariable \/ Ciovec
  \/ NotThisDirectory \/ ThisDirectory \/ NoDirectory
  \/ PathOpen \/ FdWrite \/ FdClose \/ WasiFails
  \/ Access \/ PrintVariable \/ Printed
  \/ Done

\* The program and the tool are each one thread, and the calls of WASI return.
Fairness == WF_vars(Next)

Spec == Init /\ [][Next]_vars /\ Fairness

-----------------------------------------------------------------------------
(***************************************************************************)
(* When the tool prints, every variable has the value it has at the place  *)
(* of the inspection, but for three cases: the first directory whose name  *)
(* begins with "." is not the working directory, fd_write() has written a  *)
(* part only, or a directory on the way has a name so long that it ran     *)
(* into the buffer.                                                        *)
(***************************************************************************)
WrongIsExplained ==
  pc = "printed" /\ printed # Values =>
    \/ fd.dir # "cwd"
    \/ written < iobuf_len
    \/ \E k \in 1..dirfd : fds[k].len > NameRoom

(***************************************************************************)
(* If no "." directory but the working directory is opened by the user,    *)
(* the code never writes into another directory, and whatever else fails   *)
(* the cache files of other directories stay as they were.                 *)
(***************************************************************************)
OnlyWorkingDirectory ==
  [][(\A k \in DOMAIN fds : fds[k].dot => fds[k].dir = "cwd") =>
       UNCHANGED files["elsewhere"]]_vars

\* Where the words of variable k + 1 begin, and how many all of them are
Offset[k \in 0..Len(types)] ==
  IF k = 0 THEN 0 ELSE Offset[k - 1] + Words(types[k])

Total == Offset[Len(types)]

(***************************************************************************)
(* The program traps only if it has used up its memory or the variables    *)
(* need more than the page, and then nothing is printed; and the tool      *)
(* finds a cache file after every run that exits with 10, unless the first *)
(* "." directory is not the working directory.                             *)
(***************************************************************************)
FailureIsExplained ==
  /\ pc = "trap" => ~spare \/ Total > Room
  /\ pc \in {"printed", "cannot_access"} => spare /\ Total <= Room
  /\ pc = "cannot_access" => fd.dir # "cwd"

(***************************************************************************)
(* The loop over the descriptors has no bound of its own, and still every  *)
(* inspection that has come to its place ends.                             *)
(***************************************************************************)
Ends == <>(pc \in Final)
=============================================================================
