------------------------------- MODULE Prepare -------------------------------
(***************************************************************************)
(* What do_pre_instrument() does to the input before it inserts the code   *)
(* of an inspection: it sees to the imports of WASI, the memory and the    *)
(* helper functions, whose texts CommonWasmBuilder keeps and adapts to the *)
(* names that the imports have in the program.  Names that begin with      *)
(* "__instr_" are left to the tool.                                        *)
(*                                                                         *)
(* An input is a record with                                               *)
(*   imports     a sequence: the kind, the name outside (base) and inside  *)
(*               of each, whether that name is explicit, the function of   *)
(*               WASI whose type it has, and whether the program calls it  *)
(*   memory      "none"; or "room", "full" or "largest": whether it may    *)
(*               grow, or be made to, or has the greatest size there is    *)
(*   references  the functions with a local of a reference type            *)
(*   valid       the validator accepts it with the features of             *)
(*               FEATURE_SPEC, which reading a file does not ask for       *)
(*   imported_start   its export "_start" is an imported function          *)
(* A name is a sequence of pieces, as the code looks for the names of WASI *)
(* inside of others.                                                       *)
(***************************************************************************)
EXTENDS Naturals, SequencesExt

CONSTANT NamePiece  \* the pieces of names

\* The calls of WASI in the order in which _add_imports() goes through them
WASI ==
  <<"fd_prestat_get", "fd_prestat_dir_name", "path_open", "fd_write", "fd_close", "proc_exit">>

Prefix == "__imported_wasi_snapshot_preview1_"

ASSUME PrepareConstants == ToSet(WASI) \cup {Prefix} \subseteq NamePiece

Import ==
  {x \in [kind : {"function", "table", "memory", "global"}, base : NamePiece, name : Seq(NamePiece),
          explicit : BOOLEAN, type : ToSet(WASI) \cup {"none"}, called : BOOLEAN] :
     x.called => x.kind = "function"}

Input(functions) ==
  [imports : Seq(Import), memory : {"none", "room", "full", "largest"},
   references : SUBSET functions, valid : BOOLEAN, imported_start : BOOLEAN]

InnerName(w) == <<Prefix, w>>

\* The tables and memories come after the functions, and the globals last.
Kinds == <<"function", "table", "memory", "global">>

\* Mutant: the name inside is compared.
getImport_Inner(imports, w) ==
  LET found(k) == {i \in DOMAIN imports : imports[i].kind = Kinds[k] /\ imports[i].name = <<w>>}
      with == {k \in DOMAIN Kinds : found(k) # {}}
      first(s) == CHOOSE i \in s : \A j \in s : i <= j
  IN  IF with = {} THEN 0 ELSE first(found(first(with)))

\* getImport() of a function: no case of its switch ends with a break, so what
\* is no function may be found.  0 stands for a null pointer.
getImport(imports, w) ==
  LET found(k) == {i \in DOMAIN imports : imports[i].kind = Kinds[k] /\ imports[i].base = w}
      with == {k \in DOMAIN Kinds : found(k) # {}}
      first(s) == CHOOSE i \in s : \A j \in s : i <= j
  IN  IF with = {} THEN 0 ELSE first(found(first(with)))

-----------------------------------------------------------------------------
(***************************************************************************)
(* CommonWasmBuilder.  Of the texts only the calls of WASI matter: what is *)
(* meant and the name that stands there.                                   *)
(***************************************************************************)
InTexts(meant) == [meant |-> meant, name |-> <<meant>>]

wasm_func_map == <<InTexts("fd_prestat_get"), InTexts("fd_prestat_dir_name"), InTexts("path_open")>>

\* Every occurrence of w is replaced, and the search goes on behind it.
Replaced(text, w, name) ==
  FlattenSeq([k \in DOMAIN text |-> IF text[k] = w THEN name ELSE <<text[k]>>])

updateWasiName(builder, w, name) ==
  [ texts |-> [k \in DOMAIN builder.texts |->
                 [builder.texts[k] EXCEPT !.name = Replaced(@, w, name)]],
    wasi_name_map |-> [builder.wasi_name_map EXCEPT ![w] = name] ]

NewBuilder == [texts |-> wasm_func_map, wasi_name_map |-> [w \in ToSet(WASI) |-> <<w>>]]

-----------------------------------------------------------------------------
FunctionsNamed(imports, name) ==
  {i \in DOMAIN imports : imports[i].kind = "function" /\ imports[i].name = name}

\* addImportFunction(): a function that has the name already becomes the import.
WithImport(imports, w) ==
  IF FunctionsNamed(imports, InnerName(w)) # {}
  THEN [i \in DOMAIN imports |->
          IF i \in FunctionsNamed(imports, InnerName(w)) THEN [imports[i] EXCEPT !.base = w]
          ELSE imports[i]]
  ELSE Append(imports, [kind |-> "function", base |-> w, name |-> InnerName(w), explicit |-> TRUE,
                        type |-> w, called |-> FALSE])

\* The same steps for each of the six: an import that has no explicit name is
\* given one.
AddImport(s, w) ==
  LET i == getImport(s.imports, w)
      explicit == i # 0 /\ s.imports[i].explicit
      name == IF explicit THEN s.imports[i].name ELSE InnerName(w)
  IN  [ imports |-> CASE i = 0 -> WithImport(s.imports, w)
                      [] explicit -> s.imports
                      [] OTHER -> [s.imports EXCEPT ![i].name = name],
        builder |-> updateWasiName(s.builder, w, name) ]

_add_imports(imports) ==
  LET added[k \in 0..Len(WASI)] ==
        IF k = 0 THEN [imports |-> imports, builder |-> NewBuilder]
        ELSE AddImport(added[k - 1], WASI[k])
  IN  added[Len(WASI)]

\* The calls of WASI in the helpers, and those of _make_write_op()
Calls(builder) ==
  ToSet(builder.texts) \cup
    {[meant |-> w, name |-> builder.wasi_name_map[w]] : w \in {"fd_write", "fd_close", "proc_exit"}}

\* The text of the module and of the code that is added parses and is valid.
Resolves(imports, s) ==
  /\ \A c \in Calls(s.builder) :
       \E j \in FunctionsNamed(s.imports, c.name) : s.imports[j].type = c.meant
  /\ \A i \in DOMAIN imports : imports[i].called => FunctionsNamed(s.imports, imports[i].name) # {}

\* _add_memory(): the maximum becomes greater than the initial size, if it can.
_add_memory(memory) == IF memory = "largest" THEN "assertion" ELSE "room"

\* No assertion of do_pre_instrument() up to _add_exports() fails.
Prepares(p) ==
  /\ _add_memory(p.memory) = "room"
  /\ Resolves(p.imports, _add_imports(p.imports))

\* _make_func_param() asserts that the locals it gets are of basic types.
TakesLocals(p, func) == func \notin p.references

\* The hooks of a backtrace look a call up by the name of its target, in a map
\* that has the imports by their names outside, and log -2 for what is not there.
CallsUnknown(p) ==
  \E i \in DOMAIN p.imports :
    /\ p.imports[i].called
    /\ \A j \in DOMAIN p.imports :
         p.imports[j].kind = "function" => p.imports[i].name # <<p.imports[j].base>>

-----------------------------------------------------------------------------
(***************************************************************************)
(* What a program should look like                                         *)
(***************************************************************************)
\* No name of an import of WASI has the name of another call in it or is the
\* name of another import, and no other import has a name that an added one gets.
Untangled(p) ==
  \A i \in DOMAIN p.imports :
    LET x == p.imports[i]
    IN  IF x.base \in ToSet(WASI)
        THEN /\ ToSet(x.name) \cap ToSet(WASI) \subseteq {x.base}
             /\ \A j \in DOMAIN p.imports :
                  p.imports[j].name = x.name => p.imports[j].base = x.base
        ELSE \A w \in ToSet(WASI) : x.name # InnerName(w)

\* Imports of WASI are functions of the right type and have explicit names.
WellNamed(p) ==
  /\ Untangled(p)
  /\ \A i \in DOMAIN p.imports :
       LET x == p.imports[i]
       IN  x.base \in ToSet(WASI) => x.kind = "function" /\ x.explicit /\ x.type = x.base

\* Every call of WASI goes where it is meant to.
CallsWhatIsMeant(p) ==
  LET s == _add_imports(p.imports)
  IN  \A c \in Calls(s.builder) : \A j \in FunctionsNamed(s.imports, c.name) : s.imports[j].base = c.meant
=============================================================================
