---------------------------- MODULE ProgramText ----------------------------
(***************************************************************************)
(* WebAssembly programs, as far as they matter for calls.                  *)
(*                                                                         *)
(* A program is a record with                                              *)
(*   functions  the functions of the module in their order, imports with   *)
(*              the name (base) they have outside                          *)
(*   code       code[f]: the lines of defined function f                   *)
(*   table      the functions a call_indirect may call                     *)
(*   start      the function exported as "_start", or None                 *)
(*   init       the function of the start section, or None                 *)
(*   main       the function the runtime is asked to call                  *)
(* and a line is a record with op, the function to it calls, and the line  *)
(* label it may branch to.                                                 *)
(***************************************************************************)
EXTENDS Integers, Sequences

CONSTANTS
  Func,      \* names of functions, inside a module and outside
  None,      \* no function
  Programs,  \* the programs that may run
  MaxDepth   \* the runtime's bound on open calls

Line == [op : {"other", "call", "call_indirect", "br_if"}, to : Func \cup {None}, label : Nat]

Imports(p) == {p.functions[k].name : k \in {j \in DOMAIN p.functions : p.functions[j].base # None}}
Defined(p) == {p.functions[k].name : k \in {j \in DOMAIN p.functions : p.functions[j].base = None}}

IsProgram(p) ==
  /\ p.functions \in Seq([name : Func, base : Func \cup {None}])
  /\ p.code \in [Defined(p) -> Seq(Line)]
  /\ \A f \in Defined(p) : \A k \in DOMAIN p.code[f] :
       LET x == p.code[f][k]
       IN  /\ x.op = "call" => x.to \in Defined(p) \cup Imports(p)
           /\ x.op = "br_if" => x.label \in DOMAIN p.code[f]
  /\ Defined(p) \cap Imports(p) = {}
  /\ p.table \subseteq Defined(p)
  /\ p.start \in Defined(p) \cup {None}
  /\ p.init \in Defined(p) \cup {None}
  /\ p.main \in Defined(p)

ASSUME ProgramConstants ==
  /\ None \notin Func
  /\ \A p \in Programs : IsProgram(p)
  /\ MaxDepth \in Nat \ {0}

\* What the runtime calls: the function of the start section when it loads the
\* program, then the one it was asked for.
Entries(p) == (IF p.init = None THEN <<>> ELSE <<p.init>>) \o <<p.main>>
=============================================================================
