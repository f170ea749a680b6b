----------------------------- MODULE WasmModule -----------------------------
(***************************************************************************)
(* The value of Instrumenter::module_ and what the code does to it as one  *)
(* piece: printing it as text, parsing the text back, emitting Stack IR,   *)
(* validating it.                                                          *)
(*                                                                         *)
(* A defined function has two representations.  The body is Binaryen's     *)
(* tree; the Stack IR is a flat list made from the body by the             *)
(* "generate-stack-ir" pass.  WABIDB inserts instructions into the Stack   *)
(* IR only.  Printing and writing use the Stack IR of a function that has  *)
(* one and its body otherwise; the validator walks the bodies.             *)
(*                                                                         *)
(* The code of a function is abstracted to the set of snippets it is made  *)
(* of: its original code, the text of a function added by addFunctions(),  *)
(* or an inserted fragment.                                                *)
(***************************************************************************)
EXTENDS Naturals, Sequences

CONSTANTS
  Func,          \* names a function can have
  Global,        \* names of globals
  Memory,        \* names of memories
  Segment,       \* names of passive data segments
  ExportName,    \* external names of exports
  Feature,       \* WebAssembly features
  FEATURE_SPEC,  \* the features InstrumentConfig enables by default
  BulkMemory,    \* the feature a passive data segment needs
  Kind,          \* kinds of instruction a target can select
  Snippet,       \* pieces of code
  Op,            \* the snippets that are instrument operations
  KindsOf,       \* KindsOf[s]: the kinds of instruction snippet s contains
  Targets,       \* Targets[p]: the kinds that operation p is inserted at
  Needs,         \* Needs[s]: the functions and declarations s refers to
  Fits,          \* Fits[s]: the functions in which s is valid code
  Parses,        \* Parses[s]: the functions in which the parsers accept s
  HelperParses   \* the operations whose fragments parse in their helper function

Decl == Global \cup Memory \cup Segment
Item == Func \cup Decl

ASSUME ModuleConstants ==
  /\ FEATURE_SPEC \subseteq Feature
  /\ BulkMemory \in FEATURE_SPEC
  /\ Op \subseteq Snippet
  /\ HelperParses \subseteq Op
  /\ KindsOf \in [Snippet -> SUBSET Kind]
  /\ Targets \in [Op -> SUBSET Kind]
  /\ Needs \in [Snippet -> SUBSET Item]
  /\ Fits \in [Snippet -> SUBSET Func]
  /\ Parses \in [Snippet -> SUBSET Func]
  /\ \A s \in Snippet : Fits[s] \subseteq Parses[s]
  /\ Func \cap Decl = {} /\ Memory \cap (Global \cup Segment) = {}

Code == [Func -> SUBSET Snippet]

NoCode == [f \in Func |-> {}]

WasmModules ==
  [ funcs    : SUBSET Func,                  \* declared functions
    imports  : SUBSET Item,                  \* functions and declarations that are imports
    body     : Code,                         \* func->body
    emitted  : SUBSET Func,                  \* functions with func->stackIR # nullptr
    stackIR  : Code,                         \* *func->stackIR
    decls    : SUBSET Decl,
    exports  : SUBSET (ExportName \X Item),
    features : SUBSET Feature,               \* module->features
    uses     : SUBSET Feature ]              \* features its original code needs

\* new wasm::Module()
NewModule ==
  [ funcs |-> {}, imports |-> {}, body |-> NoCode, emitted |-> {},
    stackIR |-> NoCode, decls |-> {}, exports |-> {}, features |-> {},
    uses |-> {} ]

\* The functions iterDefinedFunctions() visits.
Defined(m) == m.funcs \ m.imports

Declared(m) == m.funcs \cup m.decls

(***************************************************************************)
(* Text.  _out_stackir_module() prints the Stack IR where there is one.    *)
(***************************************************************************)
Text(m) ==
  [f \in Func |-> IF f \notin Defined(m) THEN {}
                  ELSE IF f \in m.emitted THEN m.stackIR[f]
                  ELSE m.body[f]]

\* In m every piece of code stands where it may and every name resolves.
Sound(m, code, Stands) ==
  /\ \A f \in Defined(m) : \A s \in code[f] :
        f \in Stands[s] /\ Needs[s] \subseteq Declared(m)
  /\ \A e \in m.exports : e[2] \in Declared(m)

\* _readTextData() accepts the text of m.  The parser follows the height of the
\* stack and resolves names; the types are left to the validator.
TextParses(m) == Sound(m, Text(m), Parses)

\* _readTextData() accepts the text of m with a helper function per fragment.
ParsesWith(m, ops) ==
  /\ TextParses(m)
  /\ \A i \in DOMAIN ops : ops[i] \in HelperParses /\ Needs[ops[i]] \subseteq Declared(m)

\* Mutant: the module is printed without its Stack IR.
Reparsed_Bodies(m) == [m EXCEPT !.emitted = {}, !.stackIR = NoCode]

\* The module parsed from the text of m: bodies only, no Stack IR.
Reparsed(m) == [m EXCEPT !.body = Text(m), !.emitted = {}, !.stackIR = NoCode]

\* The passes "generate-stack-ir" and "optimize-stack-ir".
EmitStackIR(m) == [m EXCEPT !.emitted = Defined(m), !.stackIR = m.body]

(***************************************************************************)
(* What a failed parse leaves.  The code parses backup_str into a new      *)
(* module whose features it does not set; no pass is run on the result.    *)
(* When the backup does not parse either, the module keeps what the parser *)
(* had built when it met the error.                                        *)
(***************************************************************************)
\* Mutants: the backup is printed without Stack IR; its features are set.
Recovered_Bodies(m) == [m EXCEPT !.emitted = {}, !.stackIR = NoCode, !.features = {}]
Recovered_Features(m) == Reparsed(m)

Recovered(m) == [Reparsed(m) EXCEPT !.features = {}]

\* m with the functions in kept only
Keep(m, kept) ==
  [m EXCEPT !.funcs = kept,
            !.imports = @ \ (Func \ kept),
            !.body = [f \in Func |-> IF f \in kept THEN @[f] ELSE {}]]

PartsOf(m) ==
  {[Keep(Recovered(m), kept) EXCEPT !.exports = {}] : kept \in SUBSET m.funcs}

\* Mutant: the backup is not parsed.
AfterFailedParse_NoBackup(m) == PartsOf(m)

AfterFailedParse(m) == IF TextParses(m) THEN {Recovered(m)} ELSE PartsOf(m)

(***************************************************************************)
(* BinaryenModuleValidate() walks the bodies and the module's declarations *)
(* and checks them against module->features.                               *)
(***************************************************************************)
UsedFeatures(m) ==
  m.uses \cup (IF m.decls \cap Segment = {} THEN {} ELSE {BulkMemory})

Validates(m) == Sound(m, m.body, Fits) /\ UsedFeatures(m) \subseteq m.features

(***************************************************************************)
(* Inserting.  Every instruction of a function is given to the first       *)
(* operation of the list with a matching target.                           *)
(***************************************************************************)
Hit(ops, code) ==
  LET kinds == UNION {KindsOf[s] : s \in code}
  IN  {ops[i] : i \in {j \in DOMAIN ops : \E k \in kinds :
                          /\ k \in Targets[ops[j]]
                          /\ \A h \in 1..(j - 1) : k \notin Targets[ops[h]]}}

\* Mutant: the scope is not asked.
Instrumented_Everywhere(m, scope, ops) ==
  [m EXCEPT !.stackIR = [f \in Func |->
     IF f \in Defined(m) THEN @[f] \cup Hit(ops, @[f]) ELSE @[f]]]

\* instrument()'s visitor, on every defined function in the scope
Instrumented(m, scope, ops) ==
  [m EXCEPT !.stackIR = [f \in Func |->
     IF f \in scope \cap Defined(m) THEN @[f] \cup Hit(ops, @[f]) ELSE @[f]]]

\* A fragment spliced into one function
Inserted(m, f, p) == [m EXCEPT !.stackIR[f] = @ \cup {p}]
=============================================================================
