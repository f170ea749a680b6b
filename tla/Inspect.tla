------------------------------- MODULE Inspect -------------------------------
(***************************************************************************)
(* main() of wabidb-inspect: a loop over the states of an interactive      *)
(* session.  Every inspection takes a place and a command from the         *)
(* standard input, instruments the input file for them, writes the output  *)
(* file, runs it and prints the cache file the instrumented code has left. *)
(*                                                                         *)
(* The standard input, the files and the program under inspection are the  *)
(* environment.  A file is the original program or the instrumented code   *)
(* of inspection k; the cache file holds what inspection k has written.    *)
(* Before is what a session before this one has left, an instrumented file *)
(* or its cache.                                                           *)
(***************************************************************************)
EXTENDS Integers, RuntimeCommand, Prepare

CONSTANTS
  Programs,        \* the programs the input file may hold (see Prepare)
  Function,        \* their defined functions
  Listed,          \* Listed[f]: the number of instructions listing_module() shows of f
  Size,            \* Size[f]: the length of the Stack IR vector of f, with its holes
  SizeAgain,       \* the same after the module has been parsed again from its text
  Number,          \* the numbers a user may type as a line
  Commands,        \* the values option --command may have, as sequences of words;
                   \* the empty one is <<>>
  infile,          \* the name of the input file, as pieces
  Outfiles,        \* the values option --output may have
  Careless,        \* what the user may type: "word" for a line, "eof"
  MaxInspections   \* bound: how many inspections are made

Original == 0
Nothing == -1
Before == -2

ASSUME InspectConstants ==
  /\ Listed \in [Function -> Nat] /\ Size \in [Function -> Nat] /\ SizeAgain \in [Function -> Nat]
  /\ \A f \in Function : Listed[f] <= Size[f] /\ Listed[f] <= SizeAgain[f]
  /\ Number \subseteq Nat
  /\ Commands \subseteq Seq(Word) \ {<<<<>>>>}
  /\ Programs \subseteq Input(Function)
  /\ infile \in Seq(Piece) /\ Outfiles \subseteq Seq(Piece)
  /\ Careless \subseteq {"word", "eof"}
  /\ MaxInspections \in Nat \ {0}

VARIABLES
  program,   \* the program under inspection
  state,     \* InspectState; "start" before the loop; how the process has ended: "quit",
             \* "aborted" by an assertion or "exited" by Binaryen's Fatal()
  cin,       \* "good", or "failed" once a read has failed
  words,     \* the value of --command the tool was started with
  command,   \* the same as the string that is edited
  outfile,   \* option --output
  inspect_func_name, inspect_line_num, inspect_command,
  inspection,  \* the number of the inspection
  module,    \* what *module_ has been read from or made into
  infile_content, outfile_content, cache,  \* Nothing: no file, or none that can be used
  ran,       \* the last run: what was executed, whether it came to the place of
             \* the inspection, and the exit code
  printed    \* the cache content that is printed in this inspection, or Nothing

input == <<cin, inspect_func_name, inspect_line_num, inspect_command>>
files == <<infile_content, outfile_content, cache>>
vars == <<program, state, input, words, command, outfile, inspection, module, files, ran, printed>>

InspectState ==
  {"idle", "listing", "positioning", "commanding", "instrumenting", "executing", "end"}

Content == {Before, Nothing, Original} \cup 1..MaxInspections

\* What the user may type where a name is asked for: nothing is "".
Name == Function \cup {"junk", ""}
CommandName == {"l", "g", "bt", "junk", ""}

\* The type invariant: the line is a number that was typed, 0, or what it was at the start.
TypeOK ==
  /\ program \in Programs
  /\ state \in InspectState \cup {"start", "quit", "aborted", "exited"}
  /\ cin \in {"good", "failed"}
  /\ words \in Commands
  /\ command \in Seq(Piece)
  /\ outfile \in Outfiles
  /\ inspect_func_name \in Name
  /\ inspect_line_num \in Number \cup {0}
  /\ inspect_command \in CommandName
  /\ inspection \in 1..MaxInspections
  /\ module \in Content /\ infile_content \in Content /\ outfile_content \in Content
  /\ cache \in Content
  /\ ran \in [image : Content, reached : BOOLEAN, code : {0, 1, 10, 12}]
  /\ printed \in Content

\* The line number is not initialized.  The input file may be missing or be
\* nothing that can be read, and may have been instrumented already.
Init ==
  /\ program \in Programs
  /\ state = "start"
  /\ cin = "good"
  /\ words \in Commands
  /\ command = IF words = <<>> THEN <<>> ELSE Joined(words)
  /\ outfile \in Outfiles
  /\ inspect_func_name = "" /\ inspect_line_num \in Number /\ inspect_command = ""
  /\ inspection = 1
  /\ module = Nothing
  /\ infile_content \in {Original, Before, Nothing}
  /\ outfile_content \in IF outfile = infile THEN {infile_content} ELSE {Before, Nothing}
  /\ cache \in {Before, Nothing}
  /\ ran = [image |-> Nothing, reached |-> FALSE, code |-> 0]
  /\ printed = Nothing

-----------------------------------------------------------------------------
(***************************************************************************)
(* The first setConfig().  A file that is missing ends the process in      *)
(* Binaryen; one the reader rejects, or without functions, fails the       *)
(* assertion on the result.                                                *)
(***************************************************************************)
Start ==
  /\ state = "start"
  /\ \/ infile_content # Nothing /\ module' = infile_content /\ state' = "idle"
     \/ infile_content = Nothing /\ state' \in {"aborted", "exited"} /\ UNCHANGED module
  /\ UNCHANGED <<program, input, words, command, outfile, inspection, files, ran, printed>>

Idle ==
  /\ state = "idle"
  /\ state' = "listing"
  /\ UNCHANGED <<program, input, words, command, outfile, inspection, module, files, ran, printed>>

Listing ==
  /\ state = "listing"
  /\ state' = "positioning"
  /\ UNCHANGED <<program, input, words, command, outfile, inspection, module, files, ran, printed>>

(***************************************************************************)
(* Once a read has failed the stream stays failed, and every read leaves   *)
(* its variable alone.  Text that is no number fails the read of the line  *)
(* and makes it 0.                                                         *)
(***************************************************************************)
\* Mutant: a line that is no number is kept as -1.
ReadPosition_MinusOne ==
  /\ inspect_func_name' \in Function \cup {"junk"}
  /\ \/ cin = "good" /\ inspect_line_num' \in Number /\ UNCHANGED cin
     \/ inspect_line_num' = -1 /\ cin' = "failed"

ReadPosition ==
  \/ /\ cin = "good"
     /\ inspect_func_name' \in Function \cup {"junk"}
     /\ \/ inspect_line_num' \in Number /\ UNCHANGED cin
        \/ "word" \in Careless /\ inspect_line_num' = 0 /\ cin' = "failed"
        \/ "eof" \in Careless /\ cin' = "failed" /\ UNCHANGED inspect_line_num
  \/ /\ cin = "failed" \/ "eof" \in Careless
     /\ cin' = "failed"
     /\ UNCHANGED <<inspect_func_name, inspect_line_num>>

validate_inspect_pos(f, line) == f \in Function /\ line <= Size[f]

Positioning ==
  /\ state = "positioning"
  /\ ReadPosition
  /\ state' = IF validate_inspect_pos(inspect_func_name', inspect_line_num')
              THEN "commanding" ELSE "positioning"
  /\ UNCHANGED <<program, inspect_command, words, command, outfile, inspection, module, files, ran, printed>>

Commanding ==
  /\ state = "commanding"
  /\ \/ cin = "good" /\ inspect_command' \in {"l", "g", "bt", "junk"} /\ UNCHANGED cin
     \/ /\ cin = "failed" \/ "eof" \in Careless
        /\ cin' = "failed"
        /\ UNCHANGED inspect_command
  /\ state' = IF inspect_command' \in {"l", "g", "bt"} THEN "instrumenting" ELSE "commanding"
  /\ UNCHANGED <<program, inspect_func_name, inspect_line_num, words, command, outfile, inspection, module,
                 files, ran, printed>>

(***************************************************************************)
(* do_pre_instrument() asserts on what every call returns.  It prepares    *)
(* the module, which fails also when the input was instrumented before: it *)
(* has the globals and functions already or, if their names were not       *)
(* written, calls imports without names.  Then it inserts the code, after  *)
(* which the module is validated.                                          *)
(***************************************************************************)
Preparable == {p \in Programs : Prepares(p)}

PreparationFails ==
  /\ state = "instrumenting"
  /\ module # Original \/ program \notin Preparable
  /\ state' = "aborted"
  /\ UNCHANGED <<program, input, words, command, outfile, inspection, module, files, ran, printed>>

Inserts ==
  /\ inspect_line_num <= SizeAgain[inspect_func_name]
  /\ inspect_command = "l" => TakesLocals(program, inspect_func_name)
  /\ inspect_command = "bt" => ~program.imported_start
  /\ program.valid

InsertionFails ==
  /\ state = "instrumenting"
  /\ module = Original /\ program \in Preparable /\ ~Inserts
  /\ state' = "aborted"
  /\ UNCHANGED <<program, input, words, command, outfile, inspection, module, files, ran, printed>>

\* The result of writeBinary() is not looked at.  A file that cannot be opened
\* ends the process in Binaryen.
Instrumenting ==
  /\ state = "instrumenting"
  /\ module = Original /\ program \in Preparable /\ Inserts
  /\ module' = inspection
  /\ \/ state' \in {"executing", "exited"} /\ UNCHANGED files
     \/ /\ state' = "executing"
        /\ outfile_content' = inspection
        /\ infile_content' = (IF outfile = infile THEN inspection ELSE infile_content)
        /\ UNCHANGED cache
  /\ UNCHANGED <<program, input, words, command, outfile, inspection, ran, printed>>

(***************************************************************************)
(* The program runs: the instrumented part ends it with 10, or with 12     *)
(* when it fails: before path_open(), between the emptying of the cache    *)
(* file and fd_write(), or in fd_close().  Before the position is reached  *)
(* the program may end by itself, with any code.  The file is in the first *)
(* directory that begins with "." (see Dump); cache is the file in the     *)
(* working directory, where the tool looks for it.                         *)
(***************************************************************************)
IsInstrumented(image) == image \notin {Original, Nothing}

Run(image) ==
  \/ /\ IsInstrumented(image)
     /\ \/ /\ cache' = IF OpensWorkingDirectory(command') THEN image ELSE cache
           /\ ran' = [image |-> image, reached |-> TRUE, code |-> 10]
        \/ /\ cache' \in {cache}
                        \cup (IF OpensWorkingDirectory(command') THEN {Nothing, image} ELSE {})
           /\ ran' = [image |-> image, reached |-> TRUE, code |-> 12]
  \/ /\ \E code \in IF image = Nothing THEN {1} ELSE {0, 10} :
          ran' = [image |-> image, reached |-> FALSE, code |-> code]
     /\ UNCHANGED cache

\* Mutant: a failed run is taken for a good one.
run_runtime_command_AnyCode(code) == code \in {10, 12}

run_runtime_command(code) == code = 10

(***************************************************************************)
(* print() of a backtrace asserts that no logged call is -2.  A file that  *)
(* this inspection has not written may hold the variables of another       *)
(* command, which as a log may fail the assertion, take away from an empty *)
(* vector or have indices without a name, the latter two undefined.        *)
(***************************************************************************)
ReplayMayFail(content) ==
  /\ inspect_command = "bt" /\ content # Nothing
  /\ content = inspection => CallsUnknown(program)

NoCommand ==
  /\ state = "executing"
  /\ command = <<>>
  /\ printed' = Nothing
  /\ state' = "end"
  /\ UNCHANGED <<program, input, words, command, outfile, inspection, module, files, ran>>

CommandFails ==
  /\ state = "executing"
  /\ command # <<>> /\ ~WordStartFound(command)
  /\ state' = "aborted"
  /\ UNCHANGED <<program, input, words, command, outfile, inspection, module, files, ran, printed>>

Executing ==
  /\ state = "executing"
  /\ command # <<>> /\ WordStartFound(command)
  /\ command' = modify_runtime_command(command, outfile)
  /\ Run(outfile_content)
  /\ printed' = IF run_runtime_command(ran'.code) THEN cache' ELSE Nothing
  /\ \/ state' = "end"
     \/ ReplayMayFail(printed') /\ state' = "aborted"
  /\ UNCHANGED <<program, input, words, outfile, inspection, module, infile_content, outfile_content>>

\* Mutant: the instrumenter is not cleared, and the assertion on setConfig() fails.
Continue_NotCleared ==
  /\ inspection < MaxInspections
  /\ inspection' = inspection + 1
  /\ state' = "aborted"
  /\ printed' = Nothing
  /\ UNCHANGED module

\* clear() and setConfig()
Continue ==
  /\ inspection < MaxInspections
  /\ inspection' = inspection + 1
  /\ module' = infile_content
  /\ printed' = Nothing
  /\ state' = "positioning"

\* next_cmd is a new string every time.
End ==
  /\ state = "end"
  /\ \/ cin = "good" /\ Continue /\ UNCHANGED cin
     \/ cin = "good" /\ state' = "quit" /\ UNCHANGED <<cin, inspection, module, printed>>
     \/ cin = "good" /\ UNCHANGED <<state, cin, inspection, module, printed>>
     \/ /\ cin = "failed" \/ "eof" \in Careless
        /\ cin' = "failed"
        /\ UNCHANGED <<state, inspection, module, printed>>
  /\ UNCHANGED <<program, inspect_func_name, inspect_line_num, inspect_command, words, command, outfile,
                 files, ran>>

\* The process has ended.
Ended == state \in {"quit", "aborted", "exited"} /\ UNCHANGED vars

-----------------------------------------------------------------------------
Next ==
  \/ Start \/ Idle \/ Listing \/ Positioning \/ Commanding
  \/ PreparationFails \/ InsertionFails \/ Instrumenting
  \/ NoCommand \/ CommandFails \/ Executing
  \/ End \/ Ended

\* One thread runs the loop, and the user answers what is asked.
Fairness == WF_vars(Next)

Spec == Init /\ [][Next]_vars /\ Fairness

-----------------------------------------------------------------------------
(***************************************************************************)
(* The command that is run names the output file in the place where the    *)
(* user has named the input file, opens the working directory, and has all *)
(* the other words, in the first inspection and in every later one,        *)
(* although each of them edits what the one before has left.  If the user  *)
(* has opened a directory such as "./lib", the working directory may stay  *)
(* closed.                                                                 *)
(***************************************************************************)
OpensAnother == \E k \in DOMAIN words : Has(words[k], DirOption) /\ words[k] # <<DirOption>>

RunsOutfile ==
  state = "end" /\ words # <<>> =>
    \/ command = Joined(Expected(words, outfile))
    \/ OpensAnother /\ command = Joined(Named(words, outfile))

(***************************************************************************)
(* What is printed was written by this inspection, but for three cases:    *)
(* the output file could not be written and an older one was run, the      *)
(* program ended before the place of the inspection with the exit code of  *)
(* a good inspection, or the user has opened a directory such as "./lib",  *)
(* where the cache file of this inspection is.                             *)
(***************************************************************************)
StaleIsExplained ==
  state = "end" /\ printed \notin {Nothing, inspection} =>
    outfile_content # inspection \/ (~ran.reached /\ ran.code = 10) \/ OpensAnother

(***************************************************************************)
(* Every inspection of a session starts from what the input file holds,    *)
(* and that is what it has held from the start, unless the output has      *)
(* replaced it.                                                            *)
(*                                                                         *)
(* An assertion ends the tool for one of the following reasons only.       *)
(*   at the start: the input cannot be read                                *)
(*   preparing: the input has been instrumented before, by this session    *)
(*     only when the output replaces it; the program imports WASI in       *)
(*     another way than is usual, or has the greatest memory there is      *)
(*   inserting: the line has been accepted but is past those listed; the   *)
(*     function has a local of a reference type, for "l"; "_start" is an   *)
(*     import, for "bt"; the program uses other features                   *)
(*   executing: the command has the first ".wasm" in its first word, such  *)
(*     as a runtime in ~/.wasmtime; a backtrace is shown of a program that *)
(*     calls an import by another name than it has outside, or of a cache  *)
(*     file that this inspection has not written                           *)
(***************************************************************************)
PreparingExplained ==
  \/ module = Before \/ (module # Original /\ outfile = infile)
  \/ ~WellNamed(program) \/ program.memory = "largest"

InsertingExplained ==
  \/ inspect_line_num \in (Listed[inspect_func_name] + 1)..Size[inspect_func_name]
  \/ inspect_command = "l" /\ inspect_func_name \in program.references
  \/ inspect_command = "bt" /\ program.imported_start
  \/ ~program.valid

ExecutingExplained ==
  \/ words # <<>> /\ Has(words[1], WasmSuffix)
  \/ inspect_command = "bt" /\ printed = inspection /\ CallsUnknown(program)
  \/ inspect_command = "bt" /\ printed \notin {Nothing, inspection}

AbortIsExplained ==
  /\ state \in {"idle", "listing", "positioning", "commanding", "instrumenting"} =>
       /\ module = infile_content
       /\ module \in {Original, Before} \/ outfile = infile
  /\ state = "aborted" =>
       \/ module = Nothing /\ infile_content = Nothing
       \/ module \notin {Nothing, inspection} /\ (PreparingExplained \/ InsertingExplained)
       \/ module = inspection /\ ExecutingExplained

(***************************************************************************)
(* In an instrumented program every call of WASI goes to the import it is  *)
(* meant for, whatever names the program has for its imports, as long as   *)
(* none of those names has the name of another call of WASI in it or is    *)
(* the name of another import.                                             *)
(***************************************************************************)
HelpersCallWASI ==
  state = "executing" /\ Untangled(program) => CallsWhatIsMeant(program)

-----------------------------------------------------------------------------
(***************************************************************************)
(* What the documentation and the messages say and the code does not do.   *)
(***************************************************************************)

(***************************************************************************)
(* After an entry that is no valid position the tool prints "please enter  *)
(* valid inspect position" and reads again.  Text in the place of a number *)
(* leaves the stream failed: the tool reads nothing any more, and repeats  *)
(* its question for ever.                                                  *)
(***************************************************************************)
ListensAgain ==
  cin = "failed" ~> (cin = "good" \/ state \in {"quit", "aborted", "exited"})
=============================================================================
