# A verification project for WABIDB

WABIDB is a C++ library, on top of Binaryen, that inserts instructions into
WebAssembly binaries, and `wabidb-inspect`, an interactive tool built on it.
This directory holds TLA+ models of both, the configurations that check them
with TLC, and proofs that TLAPS checks. Line numbers are those of the files
under `src/`.

## The system

| part | state | operations | talks to |
|---|---|---|---|
| **Instrumenter** (`src/instrumenter.{hpp,cpp}`) | `state_` (idle, valid, written), `config_`, `module_`, `function_scope_` | `setConfig`, `instrument`, `instrumentFunction`, `writeBinary`, `clear`, `add*`, `addImport*`, `addExport`, `get*`, scope calls | Binaryen's reader, writer, parser, validator; OperationBuilder |
| **OperationBuilder** (`src/operation-builder.cpp`) | none of its own; replaces the caller's `module_` | `makeOperations`: fragments in text form become Stack IR | the parser, the Stack IR passes |
| **Stack IR utilities** (`src/instr-utils.{hpp,cpp}`) | none | matching of targets, vector/list conversion, `iterDefinedFunctions`, `iterInstructions` | used by all the others |
| **wabidb-inspect: session** (`src/tools/wabidb-inspect.cpp`, `main`) | `InspectState`, position, command, print info, the runtime command | list, position, command, instrument, execute, continue or quit | standard input, files, the runtime (`system`), one Instrumenter |
| **wabidb-inspect: backtrace** | a log in the memory of the program under inspection | hooks around calls, replay of the log | the Instrumenter's `getModule()` |
| **wabidb-inspect: variables** | the dump in memory, the cache file | code that stores, code that writes, code that prints | WASI |
| **CommonWasmBuilder** (`src/tools/common_wasm_func.hpp`) | texts of helper functions, names of WASI imports | `getWasmFunction`, `getWasiName`, `updateWasiName` | the session |

Everything runs in one thread. What makes the system hard is elsewhere:

- A function has two representations. Code is inserted in the **Stack IR**; the
  validator looks at the **body**; the printer and the writer use the Stack IR
  where there is one.
- `addFunctions()`, `instrument()` and `instrumentFunction()` **delete the module
  and parse it again from its own text**, before they know that the text with
  the additions parses. They recover from a backup text, and what the recovered
  module lacks (features, Stack IR) shows in later calls only.
- Stack IR vectors have **holes** after the optimizer; lists have none. Positions
  are compared with one and used with the other.
- The list that `instrument()` walks over **grows during the walk**, by code that
  may match the targets itself.
- The tool's session keeps state in the standard input, in the command string and
  in **files that outlive an inspection**, and its assertions are live in the
  default build.

## Modules

| module | models | correspondence |
|---|---|---|
| `WasmModule` | the value of `module_` | records with functions, imports, body, Stack IR, declarations, exports, features; `Text` is what is printed, `Reparsed`, `Recovered`, `AfterFailedParse`, `EmitStackIR`, `Validates`, `Instrumented` are what the code does to the module as one piece |
| `Instrumenter` | the class, with its caller and the files | one action per public call that changes state; the variables are the fields of the class, `disk`, the last `reply` (with whether the caller owes a `clear()`), and whether the `process` has exited. Calls refused for the state are `Refused`, a target file that cannot be opened is `WriteBinaryExits` |
| `StackIR` | `instr-utils.cpp`, and how fragments become Stack IR | `vec2list`, `exp_match_target(s)`, `HelperIR`/`Added` (a helper function behind its stack context) |
| `Weaving` | the promise of `instrument()`, abstractly | code is woven function by function; each instruction is replaced by one piece |
| `MatchInsert` | the loop of `instrument()`, step by step | the `std::list` and its iterator are two sequences, `before` and `after`; `splice` and `advance` act on them |
| `PositionInsert` | the body of `instrumentFunction()`, step by step | the same representation; advancing past `end()` is a choice over all places |
| `RuntimeCommand` | `modify_runtime_command()` | the string as a sequence of pieces, and the word-by-word result it should have |
| `Prepare` | the first half of `do_pre_instrument()` | the imports, their names, the memory, the texts of the helper functions and the names of WASI in them (`updateWasiName`), `getImport()` with its switch that has no breaks; which calls `bt` will find no name for (`CallsUnknown`) |
| `Inspect` | `main()` of wabidb-inspect | `Start` is the first `setConfig()`; then one action per `case` of the loop, and one for each place where an assertion ends it; every program goes through `Prepare`. The input, output and cache files may be left by an earlier session (`Before`) |
| `ProgramText` | a WebAssembly program | its functions, imports and exports; a line of code is a call, a call through the table, a branch or something else |
| `WasmProgram` | a program as it runs, abstractly | a stack of open calls, each at a line |
| `Backtrace` | command `bt`: the hooks, the run of the program, the replay in `print()` | the code is the original's with the lines of the inspection inserted (`Code`); the hooks before and after a call are stages of it; `log` is what is in the buffer, `ciovec` what is written of it, `ifile` and `backtrace_idx` are those of `print()` |
| `Dump` | commands `l` and `g`: the inserted code with its helper functions, and `print()` | one action per variable, per iteration of the loop over descriptors and per call of WASI, with every answer WASI may give; memory and files are sequences of words |
| `*Proofs` | | theorems and proofs about the module they extend |
| `MC*` | | instances for TLC |

`Instrumenter` treats an insertion as one step on sets of code snippets;
`MatchInsert` and `PositionInsert` open that step and treat code as sequences.
`MatchInsert` implements `Weaving` under the refinement `code <- stackIR`.

`Inspect` takes a run of the instrumented program as one step with every outcome;
`Backtrace` and `Dump` open that step. `Backtrace` has the program's control and
takes the helper functions to succeed; `Dump` begins at the place of the inspection
and has every way in which they fail. `Backtrace` implements `WasmProgram`, the
program without any instrumentation, under the refinement `Original`: a line of the
inserted code maps to the line it stands in front of, the entry of
`$__instr_load_data` among the runtime's calls to nothing.

### What the models abstract from

- The code of a function is the set of *snippets* it is made of (original code, an
  added function's text, a fragment). Each snippet has the functions in which it is
  accepted by the parser (`Parses`), in which it is valid (`Fits`), and the names it
  needs (`Needs`). Types, labels and locals are inside these sets.
- The functions of a module are visited in any order (`todo` is a set).
- In `Backtrace` a `br_if` stands for every branch, and a store past the page of the
  buffer traps (when the program has grown its memory after that page, the store hits
  the new part; what happens then is left out). `loaded` tells 0, 1 and more apart.
- In `Prepare` a text is the names of WASI it calls; a name is a sequence of pieces.
- In `Dump` a directory is its first character, its length and whether it is the
  working directory; an open file is what is in it.
- A collision of the random prefix of helper functions is left out, and so are names
  in a program that begin with `__instr_`, unless the tool has put them there.
- In `Inspect` a cache file that this inspection has not written may, read as a log of
  calls, fail the assertion of `print()` or not (`ReplayMayFail`); what is in it is open.
- `get*()` calls only read, and are left out.
- The caller's direct changes through `getModule()` are represented by
  `iterInstructions()` with a visitor that inserts.

### What is taken from Binaryen

The library's behaviour is outside `src/`. The models take from how the code uses it:
printing a module and parsing the text gives the same functions, declarations,
exports and code; the parser resolves names and follows the height of the stack,
and leaves types to the validator; the validator walks bodies and compares used
features with `module->features`; `new Module()` has no feature of
`FEATURE_SPEC`; a parse or a read that fails leaves some part of the module
(`PartsOf`, `PartsRead`: any subset of its functions); a name declared twice and a
missing input file, or an output file that cannot be opened, end the process; a file
that was written and is read again has the names it had; an empty output name writes
to the standard output; the writer may throw before it opens the file; `optimize-stack-ir` leaves
`nullptr` in the vectors, but none among the constants that a helper function begins
with: these are the first places of its vector (`HelperIR`), which the loops of
`operation-builder.cpp:149` rely on and nothing in `src/` can show. Binaryen's
`addStart` and the order in which a module's imports are found are taken from
`addStart()` and `getImport()` in the same way.

The runtime of `Backtrace` and `Dump` is WebAssembly and WASI as far as the inserted
code depends on them: memory is zero at first and grows by pages, data segments are
copied by `memory.init`, an access out of bounds traps, the start function runs
before the function asked for, preopened descriptors are 3 and up in the order of
the options, `fd_write` may write a part.

## The caller

`Careful = TRUE` restricts the caller of `Instrumenter` to the rules of the README
and the comments: fragments that leave the stack balanced wherever they are
inserted, exports of things that exist under new names, new segment names, scope
calls and direct changes in the valid state, no `writeBinary()` before `setConfig()`,
and `clear()` before the next `setConfig()` when one has answered `open_module_error`.
The last is a rule about the calls the caller has made (`reply.clear_due`) and not about
the module: that `clear()` makes the module empty again is what `FreshRead` checks. It
may still make calls that fail: empty names in a configuration, which it may correct at
once, wrong names, texts and fragments that do not parse, calls in the wrong state.
`Careful = FALSE` allows any call at any time.

## Runs

Passing runs:

| run | question | bounds | states |
|---|---|---|---|
| `MCWeaveCareful` | does a careful caller ever lose code, functions or exports? `TextResolves`, `OriginalKept`, `FailedCallKeepsCode`, `CodeOnlyGrows` | two functions, one global, one segment, three operations (one whose fragment does not parse), three function texts (one bad, one with another name than announced); `OneSession`: nothing after the first write that changes the disk | 47,167 |
| `MCWeaveAny` | what holds for every caller? `TypeOK`, `StackIRUnlessRecovered`, `ScopeRespected`, `LossOnlyFromBrokenText` | the same without the global and the segment, so that names fail to resolve | 271,095 |
| `MCSessions` | is an instrumenter that is used again like a new one? `FreshRead`, `WrittenIsReadable`, `OneMemory` | one function, two memories, one segment; a good file, one the reader throws on, one without functions, a missing one; `OnlyAppWritten`: the other files are only read | 87,466 |
| `MCMatchInsert` | does the walk weave, and end? `TypeOK`, `WovenOnce`, `Weaves`, `Returns` | all codes of up to 3 places over 4 instructions and the hole; 6 operation lists: empty, self-matching, never matching, overlapping in both orders | 38,576 |
| `MCPositionInsert` | what does an accepted position do? `TypeOK`, `InsertedOnce` | all codes of up to 3 places over 2 instructions and the hole, positions 0 to 4 | 3,216 |
| `MCInspect` | is a session of inspections right, whatever the user types and however the program imports WASI? `TypeOK`, `RunsOutfile`, `StaleIsExplained`, `AbortIsExplained`, `HelpersCallWASI` | 3 inspections; 9 command lines, one with a runtime in `~/.wasmtime`, two with `--dir=./lib`; 13 programs (below); the input or another file as output; an input file that is missing, has been instrumented before, or is the program; output and cache files from before or none; lines that are listed, in a hole of the vector, and past it; non-numbers, end of input | 568,081 |
| `MCBacktrace` | does `bt` show the open calls, and do the hooks leave the program alone? `TypeOK`, `ShowsCallStack`, `FailsForImportsOnly`, `CrashIsExplained`, `Transparent` | 7 programs, inspected at every line of every function; `MaxDepth` 5 open calls; `Room` 9 numbers stands for 15104 | 2,172 |
| `MCDump` | are the variables that are printed those of the program? `TypeOK`, `WrongIsExplained`, `FailureIsExplained`, `OnlyWorkingDirectory`, `Ends` | 6 lists of types; 8 lists of `--dir` options, each descriptor open or closed; `NameRoom` 2 words stands for 1024 bytes, `Room` 6 words for 60416 bytes; a cache file from before or none; every answer of WASI | 5,588 |

The bounds are enough to reach the cases that matter: in `MCWeave*` two functions
and three operations give insertions that enable later matches, failed calls
between successful ones, an import made out of a defined function and a function
added after the import of the same name was looked for; in `MCMatchInsert` three
places give a hole in front of, between and behind instructions, and a match at
either end; three inspections give a state left by the first, changed or not by
the second, and read by the third. The programs of `MCInspect` import WASI as libc
does, under names of their own, without names (called or not), as a global, twice, with
the name of one call inside the name of another, beside another import of the same name,
and not at all; one has a local of a
reference type, one no memory, one the greatest memory, one uses features that are not
in `FEATURE_SPEC`, one has an imported `_start`. The programs of `MCBacktrace`
have direct and indirect recursion, a call of an import in a loop by a name it has and
by one it has not, a start function before and instead of `_start`, a `_start` that is
called again and one that another function precedes; five open calls are two rounds of
the recursion, nine numbers fill the log inside a loop and leave room for every
backtrace of depth five. In `MCDump` the names and the lists of variables fit, just fit
and do not fit. Model values and strings are few, so no symmetry is used.

Runs that show a disagreement between the code and what its comments,
documentation or assertions say (each checks one property, stated at the end of
its module; `findings` in `PROJECT.json` quotes the line):

| run | property | what happens |
|---|---|---|
| `MCWeaveRetry` | `SoundMeansValidated` | after a failed call the features are gone, and correct work is answered `validate_error` |
| `MCWeaveBalance` | `SuccessMeansSound` | `success` for an insertion that is invalid |
| `MCSessionsFeature` | `FeaturesAsConfigured` | the features of the configuration are not used |
| `MCInspectInput` | `ListensAgain` | a non-number is never recovered from |

Other weaknesses show in what the passing properties have to exempt. After a failed
call a valid session has no Stack IR, though `instrumenter.hpp:28` says that it is
emitted (`StackIRUnlessRecovered`). `instrumentFunction()` accepts positions between
the number of instructions and the length of the vector with holes, where the place
of the insertion is undefined (`InsertedOnce`). `addImportMemory()` refuses the first
memory of a module (`instrumenter.cpp:401`), so only a read brings an imported one
(`OneMemory`). A `setConfig()` that is repeated after `open_module_error` without
`clear()` reads into what the first has left (`instrumenter.cpp:21-37`, `:64`), and the
result is a mixture of both files or a name that exists twice (`FreshRead` is about
callers who call `clear()`). Of `wabidb-inspect`:

- Its assertions are about what the user and the program do, and end it for these
  reasons (`AbortIsExplained`):
  - at the start, an input that cannot be read or has no functions (line 806);
  - while it prepares the module (394-481), an input that was instrumented before, by an
    earlier session or because the output is the input file; a program whose imports of
    WASI are unusual (called but unnamed, not functions, of another type, with names
    inside each other or shared with another import); the greatest memory there is;
  - while it inserts code (663-710), a line in a hole of the vector; with `l`, a local of
    a reference type; with `bt`, a `_start` that is an import; a program with features
    outside `FEATURE_SPEC`, which is validated here for the first time;
  - while it executes (728, 155), a runtime whose path has `.wasm` in it; with `bt`, a
    program that calls an import whose name inside is not its name outside, as libc's
    are, or a cache file that this inspection has not written.
- It prints an older result when the output file could not be written, when the
  program ended early with code 10, or when the user has opened `./lib`: a `--dir=`
  with any directory that begins with `.` is taken for the working directory, and the
  cache file is written there (`StaleIsExplained`, `RunsOutfile`, `WrongIsExplained`,
  `OnlyWorkingDirectory`).
- An output file whose name does not end with `.wasm` is not found in the command by the
  next inspection, which appends it once more; `RunsOutfile` is about names that do
  (`AlwaysRunsOutfile`).
- The name of a preopened directory is stored in front of the buffer with the length
  it has, and a short `fd_write` is taken for a complete one (`WrongIsExplained`).
- `bt` ends in an assertion exactly when the program has called an import by a name that
  no function has outside (`FailsForImportsOnly`).
- Calls made after the inspected line of the inspected function are not hooked, so a
  recursion through them is missing in the backtrace (`ShowsCallStack`).
- A second run of `_start` takes a new page for the log, whose entries then read as
  zero; hooks that run before `$__instr_load_data` store at -1 and trap; the log is
  never shortened, and a long run traps when its page is full (`CrashIsExplained`).
- In a program without `_start`, `addStart()` replaces the start function the program
  has (`Transparent`).

Deadlock is checked in the runs of all modules but `Instrumenter`: where they end they
stutter explicitly (`Ended`, `Stopped`, `Done`). It is not checked for `Instrumenter`,
where an assertion or a fatal error ends the process and nothing follows.

### Fairness

`MatchInsert`, `Inspect` and `Dump` assume weak fairness of the whole next-state
relation: one thread executes the loop or the inserted code, and nothing blocks it but
the questions of `Inspect`, which the user is assumed to answer in some way, and the
calls of WASI in `Dump`, which are assumed to return. No single action is assumed fair,
so what is answered stays free. `Backtrace` has none, as the program under inspection
may run for ever. The other modules have no liveness property and no fairness.

## Proofs

All theorems hold for every value of the constants that satisfies the named
assumptions (`ModuleConstants`, `InstrumenterConstants`, `StackIRConstants`,
`MatchInsertConstants`, `PositionInsertConstants`, `ProgramConstants`,
`BacktraceConstants`, `DumpConstants`, `PrepareConstants`, `RuntimeCommandConstants`,
`InspectConstants`); TLC evaluates these in the runs of those modules. What a theorem
assumes beyond them (a careful caller, the names of output files) stands in its `ASSUME`
or its left-hand side and is said below.

**Instrumenter.** `TypeCorrect` is inductive as it stands; the first
lemmas of `InstrumenterProofs` say that each operation on a module gives a module.

For the careful caller (`ASSUME Careful`), `InstrumenterProofs` proves
`CarefulInvariant` by induction over all actions: the text of a valid session's
module parses, it has everything the input file has, its Stack IR agrees with its
bodies where both exist, between sessions it is empty unless a `clear()` is due, the configuration names files that can be read, and what
has been written is what the module prints. `TextResolves` alone is not
inductive: an export of an item that is not declared, or a written file that does
not read back, would break a later step. `TextAlwaysResolves`, `OriginalAlwaysKept`,
`WrittenAlwaysReadable`, `AlwaysFreshRead` are its consequences; `FailedCallsKeepCode`
and `CodeNeverShrinks` follow from it step by step: with a text that parses, a
failed parse is recovered with the same text.

For any caller: `LossesAreExplained` and `ScopeAlwaysRespected` are action
properties, proved from the type invariant for each action;
`StackIRAlwaysUnlessRecovered` is inductive together with the fact that the
features of a module with none of its passes run are incomplete.

**Match-and-insert.** `StackIRProofs` shows that `vec2list` returns the
instructions of a vector in their order (the rank of each live place exists and
is unique) and that what `makeOperations()` extracts is the fragment without its
constants. `MatchInsertProofs` proves `TypeCorrect`, then `InstrumentWeaves`
(`Spec => W!Spec`): the inductive invariant has a witness function that maps each
instruction already passed to the end of its piece in `before`, says that `after`
is the unvisited rest of the original list, and that no earlier operation matched
the instruction at the iterator. `WriteBack` is then a `Weave` step, `Pass` a
`Pass` step, every other step a stutter. `AlwaysWovenOnce` adds that the functions
in `todo` are untouched.

**Position-insert.** `PositionInsertProofs` proves `TypeCorrect` and
`AlwaysInsertedOnce` by one invariant: from the test of the position to the splice,
`before \o after` is the code of the function, and as long as the position is one of
the list, `before` is as long as the iterator was advanced. So the iterator passes
`end()` only for a position beyond the list, and wherever it comes to stand then, the
list is split there and nothing of it is lost.

**Backtrace.** `TypeCorrect` rests on `TypeInv`, `TypeOK` in three parts. From it,
`BacktraceProofs` proves `StackShown`, `FailuresExplained` and `CrashesExplained`
for all programs, places, depths and sizes of the buffer by one invariant, `StackInv`:

- `ChainOK`: each frame but the innermost is in the middle of the call that opened the
  next, and the innermost is after a call only if that has hooks;
- `DumpOK`: between the two ends of the inserted code `ciovec` is the log, and the tool
  reads only after the innermost frame has come to the exit;
- `LogOK`: a -2 is in the log exactly if a function without a number was called;
- `EntriesOK`: what the runtime has still to call, and that nothing is loaded before;
- `ReplayOK`: there are stacks `R`, `R[k]` being the one after `k` entries of the log, so
  that the last one holds the numbers of the calls whose first hook has run and whose
  second has not, the outermost first; and `print()` is at some `k` of them;
- `AbortOK` and `CrashIsExplained`.

`ShowsCallStack` alone is not inductive: it speaks of the log only when all of it has
been replayed. With `R` as a function that each hook extends by one value, the proof
needs no recursion and no induction over the log, and the loop of `print()` is a walk
along `R`. `ReplayOK` also says that no entry -1 finds an empty stack, and so `print()`
never pops from an empty vector.

`BacktraceTransparentProofs` proves the refinement, `HooksAreTransparent`
(`Spec => Transparent`), from the same invariant. `LineOf` maps the places of the
instrumented code to lines of the original: a place outside of the inserted code holds
the instruction of its line (`Kept`), the line after it is the next (also across the
inserted code), and a branch lands where it should (`Landed`). Hooks, the loader and the
inserted code leave `Views`, what the original program would see, as it is; every other
step is the step of the same name of `WasmProgram`.

**One memory.** `AlwaysOneMemory` assumes a careful caller and, when the configuration has
no multi-memory feature, input files with at most one memory. `MemoryInv` says the same of
the module and of every file on the disk, since a file that was written may be read again;
failed calls, recoveries and insertions leave the declarations as they are
(`SameDeclarations`), `addMemory()` and `addImportMemory()` look at what is there.

**Dump.** `DumpProofs` proves `TypeCorrect`, `WrongAlwaysExplained`,
`FailureAlwaysExplained` and `AlwaysWorkingDirectory` for any list of variables, any sizes
of the buffer and any directories, by one invariant, `DumpInv`. `BufferOK`: the words up to
`Offset[i - 1]` are those of the first `i - 1` variables, and they stay so while the names
that were read are short; `FoundOK`: how far the program can have come and what directory it
has then; `FileOK`: what is in the file is the front of the buffer, and the tool takes it
apart at the same offsets. `Offset` is a recursive function on the natural numbers; its
values come from the lemma that each is the one before and a width, by the least
counterexample (`Least`).

**Inspect.** `InspectProofs` proves all five invariants of `MCInspect` for all programs,
commands, output files, inputs of the user and numbers of inspections.

- `TypeCorrect` is inductive; it needs that an edited command is a string of pieces.
- `AlwaysCallsWASI`: `_add_imports()` is six steps. After `k` of them each text whose call
  is among the first `k` names an import of that call or the name a new one gets
  (`BuilderOK`), every import of WASI is one of the program or has such a name
  (`ImportsOK`), and in an untangled program those names tell the calls apart
  (`GoodNamesApart`, `NameMeans`), so that a later replacement finds nothing in a name put
  in earlier. That the name is not the one of another import is needed: without it the
  property fails (program `shared` of the instance).
- `AbortAlwaysExplained`: a program that is `WellNamed` is prepared without a failing
  assertion (`WellNamedPrepares`: its imports stay as they are, `Settled`, and each call
  has a function of its type). `AbortInv` adds that the input file is what it was at the start
  unless the output has replaced it, what the module holds in each state of the loop (which
  tells the places of the assertions apart), that a position has been validated, and that in the command every ".wasm" has a
  space before it (`WasmAfterSpace`), which both halves of the edit preserve.
- `StaleAlwaysExplained` assumes that no name of an output file contains `--dir=.`. The
  invariant says that each "--dir=." in the command ends a word if it did so in the user's
  words (`DirEndsWord`), so the working directory is the one opened in each run.
- `AlwaysRunsOutfile` assumes `UsualNames`: ".wasm" is at the end of a word or in the first
  one, and an output file is named `....wasm`. Both are needed: of `a.wasm.wasm` the edit
  keeps the second ".wasm", and an output file without the suffix (`--output x`) is not
  found by the next edit, which appends another. The proof shows each half of
  `modify_runtime_command()` to be an operation on words (`WithDirJoined`,
  `WithFileJoined`), that they commute (`WithOptionTidy`) and that naming the file twice
  is naming it once (`NamedTidy`); so an edit of what is expected gives what is expected
  (`EditedAgain`). With ".wasm" in the first word the assertion fails and nothing is run
  (`FirstWasm`).

The lemmas on strings in `InspectProofs` (`FlattenIs`, `FlattenConcat`, `JoinedConcat`,
`JoinedHas`) are about `FlattenSeq`, a fold of the community modules. `FlattenIs` gives a
function of its partial results, built by the least counterexample as well, and the other
lemmas walk along it.

**Only model-checked.** `Returns` and `Ends` (liveness), and the four properties that runs
show to be violated (the fairness and the search for a counterexample are TLC's). Every
invariant and every safety property of a passing run is stated by a theorem.

## Not modelled

- The listing (`listing_module`), colours, the printing of numbers: presentation.
- The byte order of numbers: `swap_endian` is the identity on little-endian hosts, and
  the models have no bytes.
- The parsing of command-line options: Binaryen's `ToolOptions`.
- Tail calls and exceptions in a program under inspection: a hook after such a call
  would be passed by. `FEATURE_SPEC` does not include them.
- The destructor, and memory that is not freed.
- `main.cpp`, `examples/`, `test/`: clients of the library, whose calls are among those
  of the caller of `Instrumenter`.

## Plan

1. Done: `WasmModule`, `Instrumenter`, their instances and proofs.
2. Done: `StackIR`, `Weaving`, `MatchInsert`, `PositionInsert` and their proofs.
3. Done: `RuntimeCommand`, `Inspect`.
4. Done: `ProgramText`, `WasmProgram`, `Backtrace`, proofs of its invariants.
5. Done: `Prepare`, as a part of `Inspect`.
6. Done: `Dump`.
7. Done: proofs of `OneMemory` and of the invariants of `Dump` and `Inspect`.
8. Left: a statement of what `_add_imports()` does to a program that is not `WellNamed` but
   can be prepared; `Values` of a dump over several inspections, `Inspect` and `Dump`
   together.
