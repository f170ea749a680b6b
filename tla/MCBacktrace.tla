----------------------------- MODULE MCBacktrace -----------------------------
(***************************************************************************)
(* An instance of Backtrace: seven small programs, inspected at every      *)
(* line of every function.                                                 *)
(***************************************************************************)
EXTENDS Backtrace

MCFunc == {"_start", "main", "f", "g", "init", "__wasi_fd_write", "fd_write"}

other == [op |-> "other", to |-> None, label |-> 0]
call(f) == [op |-> "call", to |-> f, label |-> 0]
indirect == [op |-> "call_indirect", to |-> None, label |-> 0]
br(k) == [op |-> "br_if", to |-> None, label |-> k]

import(f, base) == [name |-> f, base |-> base]
defined(f) == [name |-> f, base |-> None]

\* f calls itself behind a branch, g through the table, and g calls f back.
recursive ==
  [ functions |-> <<defined("_start"), defined("f"), defined("g")>>,
    code |-> [_start |-> <<call("f")>>,
              f |-> <<br(4), call("f"), call("g"), other>>,
              g |-> <<indirect>>],
    table |-> {"f"}, start |-> "_start", init |-> None, main |-> "_start" ]

\* main writes in a loop, by a name that the import does not have outside.
writing ==
  [ functions |-> <<import("__wasi_fd_write", "fd_write"), defined("main"), defined("g")>>,
    code |-> [main |-> <<other, call("g"), br(1)>>,
              g |-> <<br(3), call("__wasi_fd_write"), other>>],
    table |-> {}, start |-> None, init |-> None, main |-> "main" ]

\* The same, by the name it has; and there is a start function.
initialized ==
  [ functions |-> <<import("fd_write", "fd_write"), defined("main"), defined("g"), defined("init")>>,
    code |-> [main |-> <<call("g"), call("fd_write")>>,
              g |-> <<call("fd_write")>>, init |-> <<call("g")>>],
    table |-> {}, start |-> None, init |-> "init", main |-> "main" ]

\* A start function that runs before "_start"
early == [initialized EXCEPT !.start = "main"]

\* A program with "_start" of which another function is called
invoked == [recursive EXCEPT !.main = "g"]

\* One that begins again
again ==
  [recursive EXCEPT !.code.g = <<br(3), call("_start"), other>>]

\* One with an empty "_start" that is its start function, too
empty ==
  [recursive EXCEPT
     !.code = [_start |-> <<>>, f |-> <<other, call("g")>>, g |-> <<other>>],
     !.init = "_start", !.main = "f"]

MCPrograms == {again, empty, recursive, writing, initialized, early, invoked}
=============================================================================
