--------------------------- MODULE RuntimeCommand ---------------------------
(***************************************************************************)
(* The command line that wabidb-inspect runs an instrumented file with.    *)
(*                                                                         *)
(* The code edits one string.  Here the string is the sequence of the      *)
(* pieces that the code looks for, the space, ".wasm" and "--dir=.", and   *)
(* of the texts between them.  A word is a part without spaces; ".wasm"    *)
(* and "--dir=." may stand inside a word, as in "a.wasm" or "--dir=./lib". *)
(***************************************************************************)
EXTENDS Naturals, SequencesExt

CONSTANTS
  Space, WasmSuffix, DirOption,  \* " ", ".wasm" and "--dir=."
  Text                           \* the other pieces of a string

ASSUME RuntimeCommandConstants ==
  /\ Space # WasmSuffix /\ Space # DirOption /\ WasmSuffix # DirOption
  /\ {Space, WasmSuffix, DirOption} \cap Text = {}

Piece == {Space, WasmSuffix, DirOption} \cup Text
Word == Seq(Piece \ {Space})

Has(cmd, x) == \E k \in DOMAIN cmd : cmd[k] = x

\* std::string::find() of a piece that occurs
Find(cmd, x) == CHOOSE k \in DOMAIN cmd : cmd[k] = x /\ \A j \in 1..(k - 1) : cmd[j] # x

\* The spaces that rfind(" ", pos) looks at
SpacesBefore(cmd, pos) == {k \in 1..pos : cmd[k] = Space}

-----------------------------------------------------------------------------
(***************************************************************************)
(* modify_runtime_command(), in its two halves                             *)
(***************************************************************************)
WithDir(cmd) ==
  IF Has(cmd, DirOption) THEN cmd
  ELSE IF Has(cmd, Space)
  THEN SubSeq(cmd, 1, Find(cmd, Space) - 1) \o <<Space, DirOption>>
         \o SubSeq(cmd, Find(cmd, Space), Len(cmd))
  ELSE cmd \o <<Space, DirOption>>

\* The first directory that begins with "." is the working directory.
OpensWorkingDirectory(cmd) ==
  LET k == Find(cmd, DirOption)
  IN  Has(cmd, DirOption) /\ (k = Len(cmd) \/ cmd[k + 1] = Space)

\* assert(start_pos != std::string::npos)
WordStartFound(cmd) ==
  Has(WithDir(cmd), WasmSuffix) =>
    SpacesBefore(WithDir(cmd), Find(WithDir(cmd), WasmSuffix)) # {}

\* Mutant: the first space is looked for.
modify_runtime_command_First(cmd, wasm_file) ==
  LET c == WithDir(cmd) IN
  IF ~Has(c, WasmSuffix) THEN c \o <<Space>> \o wasm_file
  ELSE SubSeq(c, 1, Find(c, Space)) \o wasm_file
         \o SubSeq(c, Find(c, WasmSuffix) + 1, Len(c))

\* The word with the first ".wasm" is replaced, up to the ".wasm".
WithFile(c, wasm_file) ==
  LET pos == Find(c, WasmSuffix)
      before == SpacesBefore(c, pos)
      start_pos == CHOOSE k \in before : \A j \in before : j <= k
  IN  IF ~Has(c, WasmSuffix) THEN c \o <<Space>> \o wasm_file
      ELSE SubSeq(c, 1, start_pos) \o wasm_file \o SubSeq(c, pos + 1, Len(c))

modify_runtime_command(cmd, wasm_file) == WithFile(WithDir(cmd), wasm_file)

-----------------------------------------------------------------------------
(***************************************************************************)
(* What the command should become, word by word.                           *)
(***************************************************************************)
\* words, separated by single spaces
Line(words) ==
  [k \in 1..(Len(words) - 1) |-> Append(words[k], Space)]

Joined(words) == FlattenSeq(Line(words)) \o Last(words)

\* A word that names a WebAssembly file
NamesWasm(word) == word # <<>> /\ Last(word) = WasmSuffix

\* The file in the place of the first word that names one, or in the last place
Named(words, wasm_file) ==
  LET files == {k \in DOMAIN words : NamesWasm(words[k])}
  IN  IF files = {} THEN Append(words, wasm_file)
      ELSE [words EXCEPT ![CHOOSE k \in files : \A j \in files : k <= j] = wasm_file]

\* The same, and the option in second place
Expected(words, wasm_file) ==
  LET named == Named(words, wasm_file)
  IN  IF \E k \in DOMAIN words : words[k] = <<DirOption>> THEN named
      ELSE <<named[1], <<DirOption>>>> \o Tail(named)
=============================================================================
