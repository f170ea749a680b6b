---------------------------- MODULE Instrumenter ----------------------------
(***************************************************************************)
(* Class Instrumenter: a module is read, declarations are added to it,     *)
(* instructions are inserted, and it is written back.                      *)
(*                                                                         *)
(* One caller drives one instrumenter.  Every public operation is one      *)
(* action, since the library is single-threaded and does not call back;    *)
(* the difficulty is in the order of the calls, in what a failed call      *)
(* leaves behind, and in the module being deleted and parsed again from    *)
(* its own text by every call that adds code.                              *)
(*                                                                         *)
(* Careful = TRUE restricts the caller to the rules the README and the     *)
(* comments state; Careful = FALSE lets it make any call at any time.      *)
(***************************************************************************)
EXTENDS WasmModule, FiniteSets

CONSTANTS
  File,        \* file names
  NoName,      \* the empty file name
  InitialDisk, \* InitialDisk[n]: the binary in file n, for the files there are at the start
  Body,        \* the snippets that are texts for addFunctions()
  BodyName,    \* BodyName[b]: the name that text b declares
  Additions,   \* the argument lists for addFunctions(), as sets of [name, body]
  Operations,  \* the argument lists for instrument()
  MultiMemory, \* the multi-memory feature
  Careful      \* the caller obeys the calling rules

\* A module as a file holds it
IsBinary(b) ==
  /\ b \in WasmModules
  /\ b.imports \subseteq Declared(b)
  /\ b.body = Text(b)
  /\ b.emitted = {} /\ b.stackIR = NoCode /\ b.features = {}

ASSUME InstrumenterConstants ==
  /\ NoName \notin File
  /\ DOMAIN InitialDisk \subseteq File
  /\ InitialDisk \in [DOMAIN InitialDisk -> WasmModules]
  /\ \A n \in DOMAIN InitialDisk : IsBinary(InitialDisk[n])
  /\ Body \subseteq Snippet
  /\ BodyName \in [Body -> Func]
  /\ Additions \subseteq SUBSET [name : Func, body : Body]
  /\ Operations \subseteq Seq(Op)
  /\ MultiMemory \in Feature
  /\ Careful \in BOOLEAN

VARIABLES
  state_,           \* InstrumentState
  config_,          \* InstrumentConfig
  module_,          \* *module_
  function_scope_,  \* names of the functions instrument() may touch
  disk,             \* the file system: disk[n] is the binary in file n
  reply,            \* the last call, what it returned, the features it asked for, and whether
                    \* clear() is due: a setConfig() could not read its file and no clear()
                    \* has been made after it
  process           \* "running", or "exited" after an assert or a Binaryen Fatal()

vars == <<state_, config_, module_, function_scope_, disk, reply, process>>

InstrumentState == {"idle", "valid", "written"}

\* Booleans and pointers are reported as "ok" and "failed".
Result ==
  {"success", "config_error", "open_module_error", "instrument_error",
   "validate_error", "generation_error", "invalid_state", "ok", "failed"}

Call ==
  {"none", "setConfig", "instrument", "instrumentFunction", "writeBinary", "clear",
   "addGlobal", "addFunctions", "addMemory", "addPassiveDateSegment",
   "addImportFunction", "addImportGlobal", "addImportMemory", "addExport",
   "scope", "iterInstructions"}

\* The calls that test state_ = valid, and what they return when it is not
GatedCall ==
  Call \ {"none", "setConfig", "writeBinary", "clear", "scope", "iterInstructions"}

Refusal(call) ==
  IF call \in {"instrument", "instrumentFunction"} THEN "invalid_state" ELSE "failed"

InstrumentConfig == [filename   : File \cup {NoName},
                     targetname : File \cup {NoName},
                     feature    : SUBSET Feature]

\* The type invariant: no call leaves a state the class does not have.
TypeOK ==
  /\ state_ \in InstrumentState
  /\ config_ \in InstrumentConfig
  /\ module_ \in WasmModules
  /\ function_scope_ \subseteq Func
  /\ DOMAIN disk \subseteq File
  /\ disk \in [DOMAIN disk -> WasmModules]
  /\ reply \in [call : Call, ret : Result, feature : SUBSET Feature, clear_due : BOOLEAN]
  /\ process \in {"running", "exited"}

Init ==
  /\ state_ = "idle"
  /\ config_ = [filename |-> NoName, targetname |-> NoName, feature |-> FEATURE_SPEC]
  /\ module_ = NewModule
  /\ function_scope_ = {}
  /\ disk = InitialDisk
  /\ reply = [call |-> "none", ret |-> "ok", feature |-> {}, clear_due |-> FALSE]
  /\ process = "running"

Reply(call, ret) ==
  reply' = [call |-> call, ret |-> ret, feature |-> {}, clear_due |-> reply.clear_due]

\* An assert fails or Binaryen calls Fatal(): nothing else happens.
Exit == /\ process' = "exited"
        /\ UNCHANGED <<state_, config_, module_, function_scope_, disk, reply>>

\* A call made while state_ = valid that leaves the session's other state alone
\* Mutant: the calls are also accepted after writeBinary().
InValid_Written == state_ # "idle" /\ process = "running"

InValid == state_ = "valid" /\ process = "running"

OnModule == UNCHANGED <<state_, config_, function_scope_, disk, process>>

(***************************************************************************)
(* setConfig().  The reader adds to module_ what it finds in the file, so  *)
(* a module that is not empty must not have a name in common with it.      *)
(*                                                                         *)
(* A careful caller answers open_module_error with clear() before the next *)
(* setConfig().  The rule is about its calls and not about module_: that   *)
(* the module and the scope are empty when it calls is for clear() to see  *)
(* to, and after config_error, which reads nothing, it may just call again.*)
(***************************************************************************)
\* The reader accepts b.
Readable(b) == Sound(b, b.body, Parses)

\* Binaryen exits when an element with the name exists already.
Clash(m, b) ==
  \/ m.funcs \cap b.funcs # {}
  \/ m.decls \cap b.decls # {}
  \/ \E x \in m.exports, y \in b.exports : x[1] = y[1]

\* _read_file(): the module after module_->features.enable() and reader.read()
ReadInto(m, b, feature) ==
  [ funcs    |-> m.funcs \cup b.funcs,
    imports  |-> m.imports \cup b.imports,
    body     |-> [f \in Func |-> m.body[f] \cup b.body[f]],
    emitted  |-> m.emitted,
    stackIR  |-> m.stackIR,
    decls    |-> m.decls \cup b.decls,
    exports  |-> m.exports \cup b.exports,
    features |-> m.features \cup feature,
    uses     |-> m.uses \cup b.uses ]

\* What the reader has built of b when it throws
PartsRead(m, b, feature) ==
  {ReadInto(m, Keep(b, read), feature) : read \in SUBSET b.funcs}

SetConfigReply(ret, feature) ==
  reply' = [call |-> "setConfig", ret |-> ret, feature |-> feature,
            clear_due |-> reply.clear_due \/ ret = "open_module_error"]

SetConfig(filename, targetname, feature) ==
  LET b == disk[filename]
      read == ReadInto(module_, b, config_.feature)
  IN
  /\ process = "running"
  /\ state_ = "idle"
  /\ Careful => ~reply.clear_due
  /\ config_' = [config_ EXCEPT !.filename = filename, !.targetname = targetname]
  /\ IF filename = NoName \/ targetname = NoName
     THEN /\ SetConfigReply("config_error", feature)
          /\ UNCHANGED <<state_, module_, function_scope_, disk, process>>
     ELSE IF filename \notin DOMAIN disk \/ Clash(module_, b)
     THEN /\ process' = "exited"
          /\ UNCHANGED <<state_, module_, function_scope_, disk, reply>>
     ELSE IF ~Readable(b) \/ read.funcs = {}
     THEN /\ module_' \in IF Readable(b) THEN {read}
                          ELSE PartsRead(module_, b, config_.feature)
          /\ SetConfigReply("open_module_error", feature)
          /\ UNCHANGED <<state_, function_scope_, disk, process>>
     ELSE /\ module_' = EmitStackIR(read)
          /\ function_scope_' = function_scope_ \cup Defined(read)
          /\ state_' = "valid"
          /\ SetConfigReply("success", feature)
          /\ UNCHANGED <<disk, process>>

SetConfigRefused ==
  /\ process = "running"
  /\ state_ # "idle"
  /\ SetConfigReply("invalid_state", {})
  /\ UNCHANGED <<state_, config_, module_, function_scope_, disk, process>>

(***************************************************************************)
(* A gated call made in another state is refused and changes nothing.      *)
(***************************************************************************)
Refused(call) ==
  /\ process = "running"
  /\ state_ # "valid"
  /\ Reply(call, Refusal(call))
  /\ UNCHANGED module_
  /\ OnModule

(***************************************************************************)
(* makeOperations() replaces the module by its own text parsed again, with *)
(* the fragments beside it in helper functions that it then removes.       *)
(***************************************************************************)
Parsed(m) == EmitStackIR(Reparsed(m))

MakeOperationsFails(call, ops) ==
  /\ ~ParsesWith(module_, ops)
  /\ module_' \in AfterFailedParse(module_)
  /\ Reply(call, "instrument_error")

ValidateReply(call, m) == Reply(call, IF Validates(m) THEN "success" ELSE "validate_error")

\* README: "carefully designed to maintain a still balanced stack"
FragmentsFit(m, scope, ops) ==
  \A f \in scope \cap Defined(m) : \A p \in Hit(ops, Text(m)[f]) : f \in Fits[p]

Instrument(ops) ==
  LET woven == Instrumented(Parsed(module_), function_scope_, ops)
  IN
  /\ InValid
  /\ Careful => FragmentsFit(module_, function_scope_, ops)
  /\ \/ MakeOperationsFails("instrument", ops)
     \/ /\ ParsesWith(module_, ops)
        /\ module_' = woven
        /\ ValidateReply("instrument", woven)
  /\ OnModule

\* inside: pos is at most the length of the function's Stack IR.  The name and
\* the position are tested after the module has been parsed again.
InstrumentFunction(p, f, inside) ==
  LET woven == Inserted(Parsed(module_), f, p)
  IN
  /\ InValid
  /\ Careful => f \in Fits[p]
  /\ \/ MakeOperationsFails("instrumentFunction", <<p>>)
     \/ /\ ParsesWith(module_, <<p>>)
        /\ f \notin Defined(module_) \/ ~inside
        /\ module_' = Parsed(module_)
        /\ Reply("instrumentFunction", "instrument_error")
     \/ /\ ParsesWith(module_, <<p>>)
        /\ f \in Defined(module_) /\ inside
        /\ module_' = woven
        /\ ValidateReply("instrumentFunction", woven)
  /\ OnModule

(***************************************************************************)
(* addFunctions().  The names are only tested; the texts declare the       *)
(* functions.                                                              *)
(***************************************************************************)
WithFunctions(m, added) ==
  [Reparsed(m) EXCEPT
     !.funcs = @ \cup {BodyName[a.body] : a \in added},
     !.body = [f \in Func |->
                 IF f \in m.funcs THEN @[f]
                 ELSE {b \in Body : BodyName[b] = f /\ \E a \in added : a.body = b}]]

\* Mutant: the result of the parser is not looked at.
FunctionsParse_Unchecked(m, added) == \A a \in added : BodyName[a.body] \notin m.funcs

FunctionsParse(m, added) ==
  /\ \A a \in added : BodyName[a.body] \notin m.funcs
  /\ \A a, b \in added : BodyName[a.body] = BodyName[b.body] => a = b
  /\ LET n == WithFunctions(m, added) IN Sound(n, n.body, Parses)

AddFunctions(added) ==
  /\ InValid
  /\ \/ /\ \E a \in added : a.name \in module_.funcs
        /\ UNCHANGED module_
        /\ Reply("addFunctions", "failed")
     \/ /\ \A a \in added : a.name \notin module_.funcs
        /\ ~FunctionsParse(module_, added)
        /\ module_' \in AfterFailedParse(module_)
        /\ Reply("addFunctions", "failed")
     \/ /\ \A a \in added : a.name \notin module_.funcs
        /\ FunctionsParse(module_, added)
        /\ module_' = EmitStackIR(WithFunctions(module_, added))
        /\ Reply("addFunctions", "ok")
  /\ OnModule

(***************************************************************************)
(* Declarations.  Each returns a pointer or a Boolean.                     *)
(***************************************************************************)
AddDecl(call, d, may) ==
  IF may THEN /\ module_' = [module_ EXCEPT !.decls = @ \cup {d}]
              /\ Reply(call, "ok")
         ELSE /\ UNCHANGED module_
              /\ Reply(call, "failed")

AddGlobal(g) ==
  /\ InValid
  /\ AddDecl("addGlobal", g, g \notin module_.decls)
  /\ OnModule

AddMemory(mem) ==
  /\ InValid
  /\ AddDecl("addMemory", mem,
       /\ MultiMemory \in config_.feature \/ module_.decls \cap Memory = {}
       /\ mem \notin module_.decls)
  /\ OnModule

\* There is no test that the name is new: Binaryen exits when it is not.
AddPassiveDateSegment(s) ==
  /\ InValid
  /\ Careful => s \notin module_.decls
  /\ IF s \in module_.decls THEN Exit
     ELSE AddDecl("addPassiveDateSegment", s, TRUE) /\ OnModule

\* An element with the internal name is turned into an import.
AsImport(m, x) ==
  IF x \in Func THEN [m EXCEPT !.funcs = @ \cup {x}, !.imports = @ \cup {x}]
  ELSE [m EXCEPT !.decls = @ \cup {x}, !.imports = @ \cup {x}]

AddImport(call, x) ==
  /\ InValid
  /\ module_' = AsImport(module_, x)
  /\ Reply(call, "ok")
  /\ OnModule

AddImportFunction(f) == AddImport("addImportFunction", f)

AddImportGlobal(g) == AddImport("addImportGlobal", g)

\* Mutant: without multi-memory the call is refused when the name exists.
AddImportMemory_Refuses(mem) ==
  /\ MultiMemory \in config_.feature \/ mem \notin module_.decls
  /\ AddImport("addImportMemory", mem)

\* Without multi-memory the call is refused when the name does not exist.
AddImportMemory(mem) ==
  \/ /\ MultiMemory \in config_.feature \/ mem \in module_.decls
     /\ AddImport("addImportMemory", mem)
  \/ /\ InValid
     /\ MultiMemory \notin config_.feature /\ mem \notin module_.decls
     /\ UNCHANGED module_
     /\ Reply("addImportMemory", "failed")
     /\ OnModule

\* Neither the item nor the external name is tested; only functions, globals
\* and memories can be exported.
AddExport(e, x) ==
  /\ InValid
  /\ Careful => x \in Declared(module_) /\ \A y \in module_.exports : y[1] # e
  /\ IF x \in Segment
     THEN /\ UNCHANGED module_
          /\ Reply("addExport", "failed")
          /\ OnModule
     ELSE IF \E y \in module_.exports : y[1] = e
     THEN Exit
     ELSE /\ module_' = [module_ EXCEPT !.exports = @ \cup {<<e, x>>}]
          /\ Reply("addExport", "ok")
          /\ OnModule

(***************************************************************************)
(* writeBinary() has no state check.  The writer may throw before it       *)
(* opens the file; an empty target name writes to the standard output.     *)
(***************************************************************************)
WriteImage(m) == [Reparsed(m) EXCEPT !.features = {}]

\* Mutant: the empty name is written to as well.
Output_Named(target, m) ==
  [n \in DOMAIN disk \cup {target} |-> IF n = target THEN WriteImage(m) ELSE disk[n]]

Output(target, m) ==
  IF target = NoName THEN disk
  ELSE [n \in DOMAIN disk \cup {target} |-> IF n = target THEN WriteImage(m) ELSE disk[n]]

WriteBinary ==
  /\ process = "running"
  /\ Careful => state_ # "idle"
  /\ \/ /\ Reply("writeBinary", "generation_error")
        /\ UNCHANGED <<state_, disk>>
     \/ /\ disk' = Output(config_.targetname, module_)
        /\ state_' = "written"
        /\ Reply("writeBinary", "success")
  /\ UNCHANGED <<config_, module_, function_scope_, process>>

\* Binaryen exits when the file cannot be opened.
WriteBinaryExits ==
  /\ process = "running"
  /\ Careful => state_ # "idle"
  /\ config_.targetname # NoName
  /\ Exit

\* Mutant: the module is kept.
Clear_KeepsModule ==
  /\ process = "running"
  /\ state_' = "idle"
  /\ function_scope_' = {}
  /\ reply' = [call |-> "clear", ret |-> "ok", feature |-> {}, clear_due |-> FALSE]
  /\ UNCHANGED <<config_, module_, disk, process>>

\* The configuration is kept.
Clear ==
  /\ process = "running"
  /\ state_' = "idle"
  /\ module_' = NewModule
  /\ function_scope_' = {}
  /\ reply' = [call |-> "clear", ret |-> "ok", feature |-> {}, clear_due |-> FALSE]
  /\ UNCHANGED <<config_, disk, process>>

(***************************************************************************)
(* Operations with no state check that the caller reaches the session's    *)
(* state with: the scope, and getModule() with iterInstructions().         *)
(***************************************************************************)
ScopeCall(scope, ret) ==
  /\ process = "running"
  /\ Careful => state_ = "valid"
  /\ function_scope_' = scope
  /\ Reply("scope", ret)
  /\ UNCHANGED <<state_, config_, module_, disk, process>>

ScopeAdd(f) ==
  ScopeCall(function_scope_ \cup {f}, IF f \in function_scope_ THEN "failed" ELSE "ok")

ScopeRemove(f) ==
  ScopeCall(function_scope_ \ {f}, IF f \in function_scope_ THEN "ok" ELSE "failed")

ScopeClear == ScopeCall({}, "ok")

\* A visitor that inserts p somewhere in f; iterInstructions() asserts that the
\* function has Stack IR.
IterInstructions(f, p) ==
  /\ process = "running"
  /\ f \in Defined(module_)
  /\ Careful => /\ state_ = "valid"
                /\ f \in Fits[p] /\ Needs[p] \subseteq Declared(module_)
  /\ IF f \notin module_.emitted THEN Exit
     ELSE /\ module_' = Inserted(module_, f, p)
          /\ Reply("iterInstructions", "ok")
          /\ OnModule

-----------------------------------------------------------------------------
Next ==
  \/ \E filename, targetname \in File \cup {NoName} :
        \E feature \in {FEATURE_SPEC, FEATURE_SPEC \cup {MultiMemory}} :
           SetConfig(filename, targetname, feature)
  \/ SetConfigRefused
  \/ \E call \in GatedCall : Refused(call)
  \/ \E ops \in Operations : Instrument(ops)
  \/ \E p \in Op, f \in Func, inside \in BOOLEAN : InstrumentFunction(p, f, inside)
  \/ \E added \in Additions : AddFunctions(added)
  \/ \E g \in Global : AddGlobal(g) \/ AddImportGlobal(g)
  \/ \E mem \in Memory : AddMemory(mem) \/ AddImportMemory(mem)
  \/ \E s \in Segment : AddPassiveDateSegment(s)
  \/ \E e \in ExportName, x \in Item : AddExport(e, x)
  \/ \E f \in Func : AddImportFunction(f) \/ ScopeAdd(f) \/ ScopeRemove(f)
  \/ \E f \in Func, p \in Op : IterInstructions(f, p)
  \/ WriteBinary \/ WriteBinaryExits
  \/ Clear
  \/ ScopeClear

Spec == Init /\ [][Next]_vars

-----------------------------------------------------------------------------
Valid == state_ = "valid" /\ process = "running"

(***************************************************************************)
(* The text of the module parses whenever a call may delete the module and *)
(* parse its text again, so "cannot recover module!" is never reached.     *)
(***************************************************************************)
TextResolves == Valid => TextParses(module_)

(***************************************************************************)
(* Everything the input file has is still in the module: its functions,    *)
(* its exports, and its original code in every function that has not been  *)
(* turned into an import.  Calls that delete and parse the module again    *)
(* must bring all of it back, whether they succeed or fail.                *)
(***************************************************************************)
OriginalKept ==
  Valid =>
    LET b == disk[config_.filename]
    IN  /\ b.funcs \subseteq module_.funcs
        /\ b.exports \subseteq module_.exports
        /\ \A f \in b.funcs \cap Defined(module_) : b.body[f] \subseteq Text(module_)[f]

(***************************************************************************)
(* After writeBinary() has returned success the target file is what the    *)
(* module prints as, and a later setConfig() can read it.                  *)
(***************************************************************************)
WrittenIsReadable ==
  state_ = "written" =>
    LET b == disk[config_.targetname]
    IN  b = WriteImage(module_) /\ Readable(b) /\ b.funcs # {}

(***************************************************************************)
(* Features and Stack IR are lost together: as long as no failed parse has *)
(* dropped the module's features, every defined function has Stack IR, so  *)
(* the assertions on func->stackIR hold.                                   *)
(***************************************************************************)
StackIRUnlessRecovered ==
  Valid /\ FEATURE_SPEC \subseteq module_.features => Defined(module_) \subseteq module_.emitted

(***************************************************************************)
(* Without the multi-memory feature the module has at most one memory,     *)
(* whichever of addMemory() and addImportMemory() are called.              *)
(***************************************************************************)
OneMemory ==
  Valid /\ MultiMemory \notin config_.feature =>
    \A x, y \in module_.decls \cap Memory : x = y

(***************************************************************************)
(* "instrumenter can be re-used after call clear()": a successful          *)
(* setConfig() leaves exactly the content of the file, with nothing of an  *)
(* earlier session, nor of a setConfig() that had read a part of its file  *)
(* when it failed and was answered with clear().                           *)
(***************************************************************************)
FreshRead ==
  reply.call = "setConfig" /\ reply.ret = "success" =>
    LET b == disk[config_.filename]
    IN  /\ module_ = EmitStackIR([b EXCEPT !.features = FEATURE_SPEC])
        /\ function_scope_ = Defined(b)

\* The two states of a step have the same module session open.
SameSession == Valid /\ Valid'

(***************************************************************************)
(* A call that answers instrument_error, false or nullptr leaves the code  *)
(* of every function as it was, though the module object may be another.   *)
(***************************************************************************)
FailedCallKeepsCode ==
  [][SameSession /\ reply'.ret \in {"instrument_error", "failed"}
       => Text(module_') = Text(module_) /\ Declared(module_') = Declared(module_)]_vars

(***************************************************************************)
(* Code that has been inserted stays: no call removes instructions from a  *)
(* function that is still defined after it.                                *)
(***************************************************************************)
CodeOnlyGrows ==
  [][SameSession =>
       \A f \in Defined(module_) \cap Defined(module_') :
          Text(module_)[f] \subseteq Text(module_')[f]]_vars

(***************************************************************************)
(* instrument() inserts nothing in a function outside the scope.           *)
(***************************************************************************)
ScopeRespected ==
  [][SameSession /\ reply'.call = "instrument" =>
       \A f \in Declared(module_') \cap (Func \ function_scope_) :
          Text(module_')[f] = Text(module_)[f]]_vars

(***************************************************************************)
(* A function disappears from the module only when the text of the module  *)
(* did not parse any more before the call.                                 *)
(***************************************************************************)
LossOnlyFromBrokenText ==
  [][SameSession /\ TextParses(module_) => module_.funcs \subseteq module_'.funcs]_vars

-----------------------------------------------------------------------------
(***************************************************************************)
(* What the comments and the README say and the code does not do.          *)
(***************************************************************************)

(***************************************************************************)
(* instrumenter.hpp says that "all further instrumentations can be done at *)
(* this state".  After a failed call has dropped the module's features a   *)
(* correct operation on a sound module is answered with validate_error.    *)
(***************************************************************************)
SoundMeansValidated ==
  Valid /\ reply.ret = "validate_error" => ~Sound(module_, Text(module_), Fits)

(***************************************************************************)
(* instrumenter.hpp says that instrument() will "validate the modified     *)
(* module", and to make the stack balanced "to pass the validation".  The  *)
(* validator walks the bodies, and the insertions are in the Stack IR.     *)
(***************************************************************************)
SuccessMeansSound ==
  Valid /\ reply.call \in {"instrument", "instrumentFunction"} /\ reply.ret = "success"
    => Sound(module_, Text(module_), Fits)

(***************************************************************************)
(* The README says that features outside the specification "can be easily  *)
(* set", and InstrumentConfig has a field for them.  setConfig() does not  *)
(* copy it.                                                                *)
(***************************************************************************)
FeaturesAsConfigured ==
  reply.call = "setConfig" /\ reply.ret = "success" => reply.feature \subseteq module_.features
=============================================================================
