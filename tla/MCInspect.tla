------------------------------ MODULE MCInspect ------------------------------
(***************************************************************************)
(* An instance of Inspect: three inspections of a program with a function  *)
(* of two lines whose Stack IR vector has a hole, the commands a user      *)
(* would give, and programs that import WASI in different ways.            *)
(***************************************************************************)
EXTENDS Inspect

MCFunction == {"fib"}
MCListed == [f \in MCFunction |-> 2]
MCSize == [f \in MCFunction |-> 3]
MCSizeAgain == [f \in MCFunction |-> 2]

\* Lines that are listed, one in the hole, and one that is past the vector
Lines == {1, 2, 3, 9}

MCText == {"wasmtime", "--invoke", "fib", "8", "fib-inspect", "~/", "time/bin/wasmtime", "/lib"}

fib == <<"fib", ".wasm">>
fibInspect == <<"fib-inspect", ".wasm">>
dir == <<"--dir=.">>

MCOutfiles == {fib, fibInspect}

\* No command; a runtime alone; the one of the documentation; with the option;
\* with a second file; with the file in another directory; a runtime where its
\* installer puts it
MCCommands ==
  { <<>>,
    <<<<"wasmtime">>>>,
    <<<<"wasmtime">>, <<"--invoke">>, <<"fib">>, fib, <<"8">>>>,
    <<<<"wasmtime">>, dir, fib>>,
    <<<<"wasmtime">>, fib, <<"8">>, fib>>,
    <<<<"wasmtime">>, <<"~/", "fib", ".wasm">>>>,
    <<<<"~/", ".wasm", "time/bin/wasmtime">>, fib>>,
    <<<<"wasmtime">>, <<"--dir=.", "/lib">>, fib>>,
    <<<<"wasmtime">>, <<"--dir=.", "/lib">>, dir, fib>> }

MCNamePiece ==
  ToSet(WASI) \cup {Prefix, "write", "close", "other", "my_", "fimport$0", "_get", "g"}

import(kind, base, name, explicit, type) ==
  [kind |-> kind, base |-> base, name |-> name, explicit |-> explicit, type |-> type,
   called |-> kind = "function"]

with(imports) == [imports |-> imports, memory |-> "room", references |-> {}, valid |-> TRUE,
                  imported_start |-> FALSE]

\* The usual one, and one whose names are its own
libc == with(<<import("function", "fd_write", InnerName("fd_write"), TRUE, "fd_write"),
               import("function", "proc_exit", InnerName("proc_exit"), TRUE, "proc_exit")>>)
named == with(<<import("function", "write", <<"fd_write">>, TRUE, "fd_write"),
                import("function", "path_open", <<"my_", "path_open">>, TRUE, "path_open")>>)

\* A global that has the name of a call
global == with(<<import("global", "fd_write", <<"g">>, TRUE, "none")>>)

\* Without names, called and not called
nameless == with(<<import("function", "fd_write", <<"fimport$0">>, FALSE, "fd_write")>>)
uncalled == [nameless EXCEPT !.imports[1].called = FALSE]

\* A second function with the base of a first, of another type
twice == with(<<import("function", "fd_close", <<"close">>, TRUE, "none")>> \o libc.imports
                \o <<import("function", "fd_close", <<"fd_close">>, TRUE, "fd_close")>>)

\* The name of one call inside the name of another
tangled == with(<<import("function", "fd_prestat_get", <<"fd_prestat_dir_name", "_get">>, TRUE,
                         "fd_prestat_get")>>)

\* A function with the name of a global that has the name of a call outside
shared == with(<<import("global", "fd_write", <<"g">>, TRUE, "none"),
                 import("function", "other", <<"g">>, TRUE, "none")>>)

references == [libc EXCEPT !.references = MCFunction]
largest == [libc EXCEPT !.memory = "largest"]
without == [with(<<>>) EXCEPT !.memory = "none"]
invalid == [libc EXCEPT !.valid = FALSE]
importedStart == [libc EXCEPT !.imported_start = TRUE]

MCPrograms ==
  {libc, named, global, nameless, uncalled, twice, tangled, shared, references, largest, without,
   invalid, importedStart}

\* What is enough for the questions that are about the input of the user only
TheUsual == {libc}
TheDocumented == {<<<<"wasmtime">>, <<"--invoke">>, <<"fib">>, fib, <<"8">>>>}
=============================================================================
