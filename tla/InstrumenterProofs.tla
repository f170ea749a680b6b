------------------------- MODULE InstrumenterProofs -------------------------
(***************************************************************************)
(* Theorems about Instrumenter.                                            *)
(***************************************************************************)
EXTENDS Instrumenter, TLAPS

-----------------------------------------------------------------------------
(* Lemmas about the operators of WasmModule. *)

\* What a module prints as is code.
LEMMA TextType ==
  ASSUME NEW m \in WasmModules
  PROVE  Text(m) \in Code
BY DEF Text, WasmModules, Code

\* Printing and parsing again gives a module.
LEMMA ReparsedType ==
  ASSUME NEW m \in WasmModules
  PROVE  Reparsed(m) \in WasmModules
BY TextType DEF Reparsed, WasmModules, Code, NoCode

LEMMA EmitStackIRType ==
  ASSUME NEW m \in WasmModules
  PROVE  EmitStackIR(m) \in WasmModules
BY DEF EmitStackIR, WasmModules, Defined

LEMMA RecoveredType ==
  ASSUME NEW m \in WasmModules
  PROVE  Recovered(m) \in WasmModules
BY ReparsedType DEF Recovered, WasmModules

LEMMA KeepType ==
  ASSUME NEW m \in WasmModules, NEW kept \in SUBSET Func
  PROVE  Keep(m, kept) \in WasmModules
BY DEF Keep, WasmModules, Code

LEMMA KeepFields ==
  ASSUME NEW m \in WasmModules, NEW kept \in SUBSET Func
  PROVE  /\ Keep(m, kept).funcs = kept
         /\ Keep(m, kept).imports = m.imports \ (Func \ kept)
         /\ Keep(m, kept).body = [f \in Func |-> IF f \in kept THEN m.body[f] ELSE {}]
         /\ Keep(m, kept).emitted = m.emitted
         /\ Keep(m, kept).decls = m.decls
<1> DEFINE imports == m.imports \ (Func \ kept)
           body == [f \in Func |-> IF f \in kept THEN m.body[f] ELSE {}]
<1>1. Keep(m, kept) = [m EXCEPT !.funcs = kept, !.imports = imports, !.body = body]
  BY DEF Keep
<1> HIDE DEF imports, body
<1>2. /\ Keep(m, kept).funcs = kept
      /\ Keep(m, kept).imports = imports
      /\ Keep(m, kept).body = body
      /\ Keep(m, kept).emitted = m.emitted
      /\ Keep(m, kept).decls = m.decls
  BY <1>1 DEF WasmModules
<1>3. QED
  BY <1>2 DEF imports, body

LEMMA AfterFailedParseType ==
  ASSUME NEW m \in WasmModules, NEW n \in AfterFailedParse(m)
  PROVE  n \in WasmModules
<1>1. CASE TextParses(m)
  BY <1>1, RecoveredType DEF AfterFailedParse
<1>2. CASE ~TextParses(m)
  <2>1. PICK kept \in SUBSET m.funcs : n = [Keep(Recovered(m), kept) EXCEPT !.exports = {}]
    BY <1>2 DEF AfterFailedParse, PartsOf
  <2>2. kept \in SUBSET Func
    BY <2>1 DEF WasmModules
  <2>3. Keep(Recovered(m), kept) \in WasmModules
    BY <2>2, RecoveredType, KeepType
  <2>4. QED
    BY <2>1, <2>3 DEF WasmModules
<1>3. QED
  BY <1>1, <1>2

LEMMA HitType ==
  ASSUME NEW ops \in Seq(Op), NEW code
  PROVE  Hit(ops, code) \subseteq Op
BY DEF Hit

LEMMA InstrumentedType ==
  ASSUME NEW m \in WasmModules, NEW scope, NEW ops \in Seq(Op)
  PROVE  Instrumented(m, scope, ops) \in WasmModules
<1>1. Op \subseteq Snippet
  BY ModuleConstants
<1>2. ASSUME NEW f \in Func
      PROVE  (IF f \in scope \cap Defined(m) THEN m.stackIR[f] \cup Hit(ops, m.stackIR[f])
              ELSE m.stackIR[f]) \in SUBSET Snippet
  BY <1>1, HitType DEF WasmModules, Code
<1>3. QED
  BY <1>2 DEF Instrumented, WasmModules, Code

LEMMA InsertedType ==
  ASSUME NEW m \in WasmModules, NEW f \in Func, NEW p \in Op
  PROVE  Inserted(m, f, p) \in WasmModules
BY ModuleConstants DEF Inserted, WasmModules, Code

-----------------------------------------------------------------------------
(* What a module prints as, through the operations on it. *)

\* Parsing the text of a module and printing the result gives the same text.
LEMMA TextReparsed ==
  ASSUME NEW m \in WasmModules
  PROVE  /\ Text(Reparsed(m)) = Text(m)
         /\ Defined(Reparsed(m)) = Defined(m)
         /\ Declared(Reparsed(m)) = Declared(m)
BY DEF Text, Reparsed, Defined, Declared, WasmModules

\* The passes do not change what a parsed module prints as.
LEMMA TextEmitted ==
  ASSUME NEW m \in WasmModules, m.emitted = {}
  PROVE  /\ Text(EmitStackIR(m)) = Text(m)
         /\ Defined(EmitStackIR(m)) = Defined(m)
         /\ Declared(EmitStackIR(m)) = Declared(m)
BY DEF Text, EmitStackIR, Defined, Declared, WasmModules

LEMMA TextRecovered ==
  ASSUME NEW m \in WasmModules
  PROVE  /\ Text(Recovered(m)) = Text(m)
         /\ Defined(Recovered(m)) = Defined(m)
         /\ Declared(Recovered(m)) = Declared(m)
<1>1. /\ Reparsed(m) \in WasmModules
      /\ Text(Recovered(m)) = Text(Reparsed(m))
      /\ Defined(Recovered(m)) = Defined(Reparsed(m))
      /\ Declared(Recovered(m)) = Declared(Reparsed(m))
  BY ReparsedType DEF Recovered, Text, Defined, Declared, WasmModules
<1>2. QED
  BY <1>1, TextReparsed

LEMMA TextInserted ==
  ASSUME NEW m \in WasmModules, NEW f \in m.emitted, NEW p, NEW g \in Func
  PROVE  /\ Defined(Inserted(m, f, p)) = Defined(m)
         /\ Declared(Inserted(m, f, p)) = Declared(m)
         /\ Text(Inserted(m, f, p))[g] =
              Text(m)[g] \cup (IF g = f /\ f \in Defined(m) THEN {p} ELSE {})
<1>1. /\ Defined(Inserted(m, f, p)) = Defined(m)
      /\ Declared(Inserted(m, f, p)) = Declared(m)
  BY DEF Inserted, Defined, Declared, WasmModules
<1>2. /\ Inserted(m, f, p).emitted = m.emitted
      /\ Inserted(m, f, p).body = m.body
      /\ Inserted(m, f, p).stackIR[g] = m.stackIR[g] \cup (IF g = f THEN {p} ELSE {})
  BY DEF Inserted, WasmModules, Code
<1>3. QED
  BY <1>1, <1>2 DEF Text

LEMMA TextInstrumented ==
  ASSUME NEW m \in WasmModules, m.emitted = Defined(m), NEW scope, NEW ops, NEW f \in Func
  PROVE  /\ Defined(Instrumented(m, scope, ops)) = Defined(m)
         /\ Declared(Instrumented(m, scope, ops)) = Declared(m)
         /\ Text(Instrumented(m, scope, ops))[f] =
              Text(m)[f] \cup (IF f \in scope \cap Defined(m) THEN Hit(ops, Text(m)[f]) ELSE {})
<1>1. /\ Defined(Instrumented(m, scope, ops)) = Defined(m)
      /\ Declared(Instrumented(m, scope, ops)) = Declared(m)
  BY DEF Instrumented, Defined, Declared, WasmModules
<1>2. /\ Instrumented(m, scope, ops).emitted = m.emitted
      /\ Instrumented(m, scope, ops).body = m.body
      /\ Instrumented(m, scope, ops).stackIR[f] =
           IF f \in scope \cap Defined(m) THEN m.stackIR[f] \cup Hit(ops, m.stackIR[f])
           ELSE m.stackIR[f]
  BY DEF Instrumented, WasmModules
<1>3. QED
  BY <1>1, <1>2 DEF Text

\* An instruction is given to an operation of the list.
LEMMA HitInOperations ==
  ASSUME NEW ops, NEW code, NEW p \in Hit(ops, code)
  PROVE  \E i \in DOMAIN ops : ops[i] = p
BY DEF Hit

-----------------------------------------------------------------------------
(* Types. *)

LEMMA NewModuleType == NewModule \in WasmModules
BY DEF NewModule, WasmModules, Code, NoCode

LEMMA ReadIntoType ==
  ASSUME NEW m \in WasmModules, NEW b \in WasmModules, NEW feature \in SUBSET Feature
  PROVE  ReadInto(m, b, feature) \in WasmModules
BY DEF ReadInto, WasmModules, Code

LEMMA PartsReadType ==
  ASSUME NEW m \in WasmModules, NEW b \in WasmModules, NEW feature \in SUBSET Feature,
         NEW n \in PartsRead(m, b, feature)
  PROVE  n \in WasmModules
<1>1. PICK read \in SUBSET b.funcs : n = ReadInto(m, Keep(b, read), feature)
  BY DEF PartsRead
<1>2. read \in SUBSET Func
  BY <1>1 DEF WasmModules
<1>3. QED
  BY <1>1, <1>2, KeepType, ReadIntoType

LEMMA WriteImageType ==
  ASSUME NEW m \in WasmModules
  PROVE  WriteImage(m) \in WasmModules
BY ReparsedType DEF WriteImage, WasmModules

LEMMA OutputType ==
  ASSUME TypeOK, NEW target \in File \cup {NoName}, NEW m \in WasmModules
  PROVE  /\ DOMAIN Output(target, m) \subseteq File
         /\ Output(target, m) \in [DOMAIN Output(target, m) -> WasmModules]
<1>1. CASE target = NoName
  BY <1>1 DEF Output, TypeOK
<1>2. CASE target # NoName
  <2>1. \A n \in DOMAIN disk : disk[n] \in WasmModules
    BY DEF TypeOK
  <2>2. QED
    BY <1>2, <2>1, WriteImageType DEF Output, TypeOK
<1>3. QED
  BY <1>1, <1>2

LEMMA WithFunctionsType ==
  ASSUME NEW m \in WasmModules, NEW added \in Additions
  PROVE  WithFunctions(m, added) \in WasmModules
<1>1. \A a \in added : BodyName[a.body] \in Func
  BY InstrumenterConstants
<1>2. Body \subseteq Snippet
  BY InstrumenterConstants
<1> DEFINE funcs == Reparsed(m).funcs \cup {BodyName[a.body] : a \in added}
           body == [f \in Func |->
                      IF f \in m.funcs THEN Reparsed(m).body[f]
                      ELSE {b \in Body : BodyName[b] = f /\ \E a \in added : a.body = b}]
<1>3. Reparsed(m) \in WasmModules
  BY ReparsedType
<1>4. funcs \in SUBSET Func
  BY <1>1, <1>3 DEF WasmModules
<1>5. body \in Code
  BY <1>2, <1>3 DEF WasmModules, Code
<1>6. WithFunctions(m, added) = [Reparsed(m) EXCEPT !.funcs = funcs, !.body = body]
  BY DEF WithFunctions
<1> HIDE DEF funcs, body
<1>7. QED
  BY <1>3, <1>4, <1>5, <1>6 DEF WasmModules

LEMMA AsImportType ==
  ASSUME NEW m \in WasmModules, NEW x \in Item
  PROVE  AsImport(m, x) \in WasmModules
BY DEF AsImport, WasmModules, Item, Decl

LEMMA ReplyType ==
  ASSUME reply.clear_due \in BOOLEAN, NEW call \in Call, NEW ret \in Result, Reply(call, ret)
  PROVE  reply' \in [call : Call, ret : Result, feature : SUBSET Feature, clear_due : BOOLEAN]
BY DEF Reply

\* A step that only replaces the module
LEMMA OnModuleType ==
  ASSUME TypeOK, OnModule, module_' \in WasmModules,
         NEW call \in Call, NEW ret \in Result, Reply(call, ret)
  PROVE  TypeOK'
BY ReplyType DEF TypeOK, OnModule

LEMMA SetConfigType ==
  ASSUME TypeOK, NEW filename \in File \cup {NoName}, NEW targetname \in File \cup {NoName},
         NEW feature \in SUBSET Feature, SetConfig(filename, targetname, feature)
  PROVE  TypeOK'
<1> DEFINE b == disk[filename]
           read == ReadInto(module_, b, config_.feature)
<1>1. config_' \in InstrumentConfig
  BY DEF SetConfig, TypeOK, InstrumentConfig
<1>2. ASSUME NEW ret \in Result, SetConfigReply(ret, feature)
      PROVE  reply' \in [call : Call, ret : Result, feature : SUBSET Feature, clear_due : BOOLEAN]
  BY <1>2 DEF SetConfigReply, Call, TypeOK
<1>3. CASE filename = NoName \/ targetname = NoName
  BY <1>1, <1>2, <1>3 DEF SetConfig, TypeOK, Result
<1>4. CASE ~(filename = NoName \/ targetname = NoName)
  <2>1. CASE filename \notin DOMAIN disk \/ Clash(module_, b)
    BY <1>1, <1>4, <2>1 DEF SetConfig, TypeOK
  <2>2. CASE ~(filename \notin DOMAIN disk \/ Clash(module_, b))
    <3>1. b \in WasmModules
      BY <2>2 DEF TypeOK
    <3>2. config_.feature \in SUBSET Feature /\ module_ \in WasmModules
      BY DEF TypeOK, InstrumentConfig
    <3>3. read \in WasmModules
      BY <3>1, <3>2, ReadIntoType
    <3>4. CASE ~Readable(b) \/ read.funcs = {}
      <4>1. module_' \in WasmModules
        BY <1>4, <2>2, <3>1, <3>2, <3>3, <3>4, PartsReadType DEF SetConfig
      <4>2. /\ SetConfigReply("open_module_error", feature)
            /\ UNCHANGED <<state_, function_scope_, disk, process>>
        BY <1>4, <2>2, <3>4 DEF SetConfig
      <4>3. QED
        BY <1>1, <1>2, <4>1, <4>2 DEF TypeOK, Result
    <3>5. CASE ~(~Readable(b) \/ read.funcs = {})
      <4>1. /\ module_' = EmitStackIR(read)
            /\ function_scope_' = function_scope_ \cup Defined(read)
            /\ state_' = "valid"
            /\ SetConfigReply("success", feature)
            /\ UNCHANGED <<disk, process>>
        BY <1>4, <2>2, <3>5 DEF SetConfig
      <4>2. module_' \in WasmModules
        BY <3>3, <4>1, EmitStackIRType
      <4>3. function_scope_' \subseteq Func
        BY <3>3, <4>1 DEF TypeOK, Defined, WasmModules
      <4>4. QED
        BY <1>1, <1>2, <4>1, <4>2, <4>3 DEF TypeOK, Result, InstrumentState
    <3>6. QED
      BY <3>4, <3>5
  <2>3. QED
    BY <2>1, <2>2
<1>5. QED
  BY <1>3, <1>4

LEMMA TypeCorrectInit == Init => TypeOK
BY InstrumenterConstants, ModuleConstants, NewModuleType
   DEF Init, TypeOK, InstrumentState, InstrumentConfig, Result, Call

LEMMA TypeCorrectStep ==
  ASSUME TypeOK, Next PROVE TypeOK'
<1>0. /\ module_ \in WasmModules
      /\ Call = {"none", "setConfig", "instrument", "instrumentFunction", "writeBinary",
                 "clear", "addGlobal", "addFunctions", "addMemory", "addPassiveDateSegment",
                 "addImportFunction", "addImportGlobal", "addImportMemory", "addExport",
                 "scope", "iterInstructions"}
      /\ Result = {"success", "config_error", "open_module_error", "instrument_error",
                   "validate_error", "generation_error", "invalid_state", "ok", "failed"}
  BY DEF TypeOK, Call, Result
<1>1. ASSUME NEW filename \in File \cup {NoName}, NEW targetname \in File \cup {NoName},
             NEW feature \in {FEATURE_SPEC, FEATURE_SPEC \cup {MultiMemory}},
             SetConfig(filename, targetname, feature)
      PROVE  TypeOK'
  <2>1. feature \in SUBSET Feature
    BY InstrumenterConstants, ModuleConstants
  <2>2. QED
    BY <1>1, <2>1, SetConfigType
<1>2. CASE SetConfigRefused
  BY <1>2, <1>0 DEF SetConfigRefused, SetConfigReply, TypeOK
<1>3. ASSUME NEW call \in GatedCall, Refused(call) PROVE TypeOK'
  <2>1. call \in Call /\ Refusal(call) \in Result
    BY <1>0 DEF GatedCall, Refusal
  <2>2. QED
    BY <1>0, <1>3, <2>1, OnModuleType DEF Refused
<1>4. ASSUME NEW ops \in Operations, Instrument(ops) PROVE TypeOK'
  <2>1. ops \in Seq(Op)
    BY InstrumenterConstants
  <2>2. Parsed(module_) \in WasmModules
    BY <1>0, ReparsedType, EmitStackIRType DEF Parsed
  <2>3. CASE MakeOperationsFails("instrument", ops)
    BY <1>0, <1>4, <2>3, AfterFailedParseType, OnModuleType
       DEF Instrument, MakeOperationsFails
  <2>4. CASE /\ module_' = Instrumented(Parsed(module_), function_scope_, ops)
             /\ ValidateReply("instrument", module_')
    <3>1. module_' \in WasmModules
      BY <2>1, <2>2, <2>4, InstrumentedType
    <3>2. \E ret \in Result : Reply("instrument", ret)
      BY <1>0, <2>4 DEF ValidateReply
    <3>3. QED
      BY <1>0, <1>4, <3>1, <3>2, OnModuleType DEF Instrument
  <2>5. QED
    BY <1>4, <2>3, <2>4 DEF Instrument
<1>5. ASSUME NEW p \in Op, NEW f \in Func, NEW inside \in BOOLEAN,
             InstrumentFunction(p, f, inside)
      PROVE  TypeOK'
  <2>1. Parsed(module_) \in WasmModules
    BY <1>0, ReparsedType, EmitStackIRType DEF Parsed
  <2>2. CASE MakeOperationsFails("instrumentFunction", <<p>>)
    BY <1>0, <1>5, <2>2, AfterFailedParseType, OnModuleType
       DEF InstrumentFunction, MakeOperationsFails
  <2>3. CASE module_' = Parsed(module_) /\ Reply("instrumentFunction", "instrument_error")
    BY <1>0, <1>5, <2>1, <2>3, OnModuleType DEF InstrumentFunction
  <2>4. CASE /\ module_' = Inserted(Parsed(module_), f, p)
             /\ ValidateReply("instrumentFunction", module_')
    <3>1. module_' \in WasmModules
      BY <2>1, <2>4, InsertedType
    <3>2. \E ret \in Result : Reply("instrumentFunction", ret)
      BY <1>0, <2>4 DEF ValidateReply
    <3>3. QED
      BY <1>0, <1>5, <3>1, <3>2, OnModuleType DEF InstrumentFunction
  <2>5. QED
    BY <1>5, <2>2, <2>3, <2>4 DEF InstrumentFunction
<1>6. ASSUME NEW added \in Additions, AddFunctions(added) PROVE TypeOK'
  <2>1. WithFunctions(module_, added) \in WasmModules
    BY <1>0, WithFunctionsType
  <2>2. module_' \in WasmModules
    BY <1>0, <1>6, <2>1, AfterFailedParseType, EmitStackIRType DEF AddFunctions
  <2>3. Reply("addFunctions", "failed") \/ Reply("addFunctions", "ok")
    BY <1>6 DEF AddFunctions
  <2>4. QED
    BY <1>0, <1>6, <2>2, <2>3, OnModuleType DEF AddFunctions
<1>7. ASSUME NEW call \in Call, NEW d \in Decl, NEW may, AddDecl(call, d, may), OnModule
      PROVE  TypeOK'
  <2>1. module_' \in WasmModules
    BY <1>0, <1>7 DEF AddDecl, WasmModules
  <2>2. Reply(call, "ok") \/ Reply(call, "failed")
    BY <1>7 DEF AddDecl
  <2>3. QED
    BY <1>0, <1>7, <2>1, <2>2, OnModuleType
<1>8. ASSUME NEW call \in Call, NEW x \in Item, AddImport(call, x) PROVE TypeOK'
  <2>1. module_' \in WasmModules
    BY <1>0, <1>8, AsImportType DEF AddImport
  <2>2. QED
    BY <1>0, <1>8, <2>1, OnModuleType DEF AddImport
<1>9. ASSUME NEW g \in Global, AddGlobal(g) \/ AddImportGlobal(g) PROVE TypeOK'
  BY <1>0, <1>7, <1>8, <1>9 DEF AddGlobal, AddImportGlobal, Decl, Item
<1>10. ASSUME NEW mem \in Memory, AddMemory(mem) \/ AddImportMemory(mem) PROVE TypeOK'
  <2>1. CASE AddMemory(mem)
    BY <1>0, <1>7, <2>1 DEF AddMemory, Decl
  <2>2. CASE AddImport("addImportMemory", mem)
    BY <1>0, <1>8, <2>2 DEF Item, Decl
  <2>3. CASE /\ UNCHANGED module_
             /\ Reply("addImportMemory", "failed")
             /\ OnModule
    BY <1>0, <2>3, OnModuleType
  <2>4. QED
    BY <1>10, <2>1, <2>2, <2>3 DEF AddImportMemory
<1>11. ASSUME Exit PROVE TypeOK'
  BY <1>11 DEF Exit, TypeOK
<1>12. ASSUME NEW s \in Segment, AddPassiveDateSegment(s) PROVE TypeOK'
  BY <1>0, <1>7, <1>11, <1>12 DEF AddPassiveDateSegment, Decl
<1>13. ASSUME NEW e \in ExportName, NEW x \in Item, AddExport(e, x) PROVE TypeOK'
  <2>1. CASE UNCHANGED module_ /\ Reply("addExport", "failed") /\ OnModule
    BY <1>0, <2>1, OnModuleType
  <2>2. CASE /\ module_' = [module_ EXCEPT !.exports = @ \cup {<<e, x>>}]
             /\ Reply("addExport", "ok")
             /\ OnModule
    <3>1. module_' \in WasmModules
      BY <1>0, <1>13, <2>2 DEF WasmModules
    <3>2. QED
      BY <1>0, <2>2, <3>1, OnModuleType
  <2>3. QED
    BY <1>11, <1>13, <2>1, <2>2 DEF AddExport
<1>14. CASE WriteBinary
  <2>1. config_.targetname \in File \cup {NoName}
    BY DEF TypeOK, InstrumentConfig
  <2>2. CASE Reply("writeBinary", "generation_error") /\ UNCHANGED <<state_, disk>>
    BY <1>0, <1>14, <2>2, ReplyType DEF WriteBinary, TypeOK
  <2>3. CASE /\ disk' = Output(config_.targetname, module_)
             /\ state_' = "written"
             /\ Reply("writeBinary", "success")
    <3>1. DOMAIN disk' \subseteq File /\ disk' \in [DOMAIN disk' -> WasmModules]
      BY <1>0, <2>1, <2>3, OutputType
    <3>2. QED
      BY <1>0, <1>14, <2>3, <3>1, ReplyType DEF WriteBinary, TypeOK, InstrumentState
  <2>4. QED
    BY <1>14, <2>2, <2>3 DEF WriteBinary
<1>15. CASE Clear
  BY <1>0, <1>15, NewModuleType DEF Clear, TypeOK, InstrumentState
<1>16. ASSUME NEW scope \in SUBSET Func, NEW ret \in {"ok", "failed"}, ScopeCall(scope, ret)
       PROVE  TypeOK'
  BY <1>0, <1>16, ReplyType DEF ScopeCall, TypeOK
<1>17. ASSUME NEW f \in Func,
              AddImportFunction(f) \/ ScopeAdd(f) \/ ScopeRemove(f)
       PROVE  TypeOK'
  <2>1. function_scope_ \subseteq Func
    BY DEF TypeOK
  <2>2. QED
    BY <1>0, <1>8, <1>16, <1>17, <2>1 DEF AddImportFunction, ScopeAdd, ScopeRemove, Item
<1>18. ASSUME NEW f \in Func, NEW p \in Op, IterInstructions(f, p) PROVE TypeOK'
  BY <1>0, <1>11, <1>18, InsertedType, OnModuleType DEF IterInstructions
<1>19. CASE ScopeClear
  BY <1>16, <1>19 DEF ScopeClear
<1>20. CASE WriteBinaryExits
  BY <1>11, <1>20 DEF WriteBinaryExits
<1>21. QED
  BY <1>1, <1>2, <1>3, <1>4, <1>5, <1>6, <1>9, <1>10, <1>12, <1>13, <1>14,
     <1>15, <1>17, <1>18, <1>19, <1>20 DEF Next

(***************************************************************************)
(* Every variable keeps its type under any sequence of calls.              *)
(***************************************************************************)
THEOREM TypeCorrect == Spec => []TypeOK
<1>1. ASSUME TypeOK, UNCHANGED vars PROVE TypeOK'
  BY <1>1 DEF TypeOK, vars
<1>2. QED
  BY <1>1, TypeCorrectInit, TypeCorrectStep, PTL DEF Spec

-----------------------------------------------------------------------------
(***************************************************************************)
(* Safety.  The argument: as long as the text of the module parses, every  *)
(* call replaces the module by one that extends it; and a careful caller   *)
(* never inserts what would make the text unparseable.                     *)
(***************************************************************************)
\* n has everything m has, and the code of m in every function still defined.
Extends(m, n) ==
  /\ m.funcs \subseteq n.funcs
  /\ m.decls \subseteq n.decls
  /\ m.exports \subseteq n.exports
  /\ Defined(n) \cap m.funcs \subseteq Defined(m)
  /\ \A f \in Defined(n) \cap Defined(m) : Text(m)[f] \subseteq Text(n)[f]

LEMMA SameTextExtends ==
  ASSUME NEW m \in WasmModules, NEW n \in WasmModules,
         n.funcs = m.funcs, n.imports = m.imports, m.decls \subseteq n.decls,
         m.exports \subseteq n.exports, Text(n) = Text(m)
  PROVE  Extends(m, n)
BY DEF Extends, Defined

LEMMA ParsedFacts ==
  ASSUME NEW m \in WasmModules
  PROVE  /\ Parsed(m) \in WasmModules
         /\ Text(Parsed(m)) = Text(m)
         /\ Defined(Parsed(m)) = Defined(m)
         /\ Declared(Parsed(m)) = Declared(m)
         /\ Parsed(m).funcs = m.funcs
         /\ Parsed(m).imports = m.imports
         /\ Parsed(m).decls = m.decls
         /\ Parsed(m).exports = m.exports
         /\ Parsed(m).emitted = Defined(m)
<1>1. Reparsed(m) \in WasmModules /\ Reparsed(m).emitted = {}
  BY ReparsedType DEF Reparsed, WasmModules
<1>2. /\ Parsed(m) \in WasmModules
      /\ Text(Parsed(m)) = Text(m)
      /\ Defined(Parsed(m)) = Defined(m)
      /\ Declared(Parsed(m)) = Declared(m)
  BY <1>1, EmitStackIRType, TextEmitted, TextReparsed DEF Parsed
<1>3. /\ Parsed(m).funcs = m.funcs
      /\ Parsed(m).imports = m.imports
      /\ Parsed(m).decls = m.decls
      /\ Parsed(m).exports = m.exports
      /\ Parsed(m).emitted = Defined(Reparsed(m))
  BY DEF Parsed, EmitStackIR, Reparsed, WasmModules
<1>4. QED
  BY <1>2, <1>3, TextReparsed

LEMMA RecoveredFacts ==
  ASSUME NEW m \in WasmModules
  PROVE  /\ Extends(m, Recovered(m))
         /\ TextParses(m) => TextParses(Recovered(m))
<1>1. /\ Recovered(m) \in WasmModules
      /\ Recovered(m).funcs = m.funcs
      /\ Recovered(m).imports = m.imports
      /\ Recovered(m).decls = m.decls
      /\ Recovered(m).exports = m.exports
  BY RecoveredType DEF Recovered, Reparsed, WasmModules
<1>2. QED
  BY <1>1, SameTextExtends, TextRecovered DEF TextParses, Sound

\* A module with the same declarations and, in every function, more code that
\* may stand there
LEMMA MoreCode ==
  ASSUME NEW m \in WasmModules, NEW n \in WasmModules, NEW extra,
         n.funcs = m.funcs, n.imports = m.imports, n.decls = m.decls, n.exports = m.exports,
         \A f \in Func : Text(n)[f] = Text(m)[f] \cup extra[f]
  PROVE  /\ Extends(m, n)
         /\ TextParses(m) /\ (\A f \in Defined(m) : \A s \in extra[f] :
                                 f \in Parses[s] /\ Needs[s] \subseteq Declared(m))
              => TextParses(n)
<1>1. Defined(n) = Defined(m) /\ Declared(n) = Declared(m) /\ Defined(m) \subseteq Func
  BY DEF Defined, Declared, WasmModules
<1>2. QED
  BY <1>1 DEF Extends, TextParses, Sound

LEMMA InstrumentedFacts ==
  ASSUME NEW m \in WasmModules, NEW scope, NEW ops \in Seq(Op)
  PROVE  LET n == Instrumented(Parsed(m), scope, ops)
         IN  /\ Extends(m, n)
             /\ \A f \in Func : f \notin scope => Text(n)[f] = Text(m)[f]
             /\ TextParses(m) /\ ParsesWith(m, ops) /\ FragmentsFit(m, scope, ops)
                  => TextParses(n)
<1> DEFINE n == Instrumented(Parsed(m), scope, ops)
           extra == [f \in Func |-> IF f \in scope \cap Defined(m) THEN Hit(ops, Text(m)[f])
                                    ELSE {}]
<1>1. \A f \in Func : Text(n)[f] = Text(m)[f] \cup extra[f]
  BY ParsedFacts, TextInstrumented
<1>2. n.funcs = m.funcs /\ n.imports = m.imports /\ n.decls = m.decls /\ n.exports = m.exports
  BY ParsedFacts DEF Instrumented, WasmModules
<1>3. n \in WasmModules
  BY ParsedFacts, InstrumentedType
<1>4. \A f \in Func : f \notin scope => Text(n)[f] = Text(m)[f]
  BY <1>1
<1>5. ASSUME ParsesWith(m, ops), FragmentsFit(m, scope, ops),
             NEW f \in Defined(m), NEW s \in extra[f]
      PROVE  f \in Parses[s] /\ Needs[s] \subseteq Declared(m)
  <2>1. f \in Func
    BY DEF Defined, WasmModules
  <2>2. f \in scope /\ s \in Hit(ops, Text(m)[f])
    BY <1>5, <2>1
  <2>3. PICK i \in DOMAIN ops : ops[i] = s
    BY <2>2, HitInOperations
  <2>4. s \in Op /\ s \in Snippet
    BY <2>3, ModuleConstants
  <2>5. f \in Fits[s]
    BY <1>5, <2>2 DEF FragmentsFit
  <2>6. QED
    BY <1>5, <2>3, <2>4, <2>5, ModuleConstants DEF ParsesWith
<1> HIDE DEF n, extra
<1>6. QED
  BY <1>1, <1>2, <1>3, <1>4, <1>5, MoreCode DEF n

LEMMA InsertedFacts ==
  ASSUME NEW m \in WasmModules, NEW f \in m.emitted, NEW p \in Op
  PROVE  /\ Extends(m, Inserted(m, f, p))
         /\ TextParses(m) /\ f \in Fits[p] /\ Needs[p] \subseteq Declared(m)
              => TextParses(Inserted(m, f, p))
<1> DEFINE n == Inserted(m, f, p)
           extra == [g \in Func |-> IF g = f /\ f \in Defined(m) THEN {p} ELSE {}]
<1>1. \A g \in Func : Text(n)[g] = Text(m)[g] \cup extra[g]
  BY TextInserted
<1>2. n.funcs = m.funcs /\ n.imports = m.imports /\ n.decls = m.decls /\ n.exports = m.exports
  BY DEF Inserted, WasmModules
<1>3. n \in WasmModules /\ f \in Func /\ p \in Snippet
  BY InsertedType, ModuleConstants DEF WasmModules
<1>4. ASSUME f \in Fits[p], Needs[p] \subseteq Declared(m),
             NEW g \in Defined(m), NEW s \in extra[g]
      PROVE  g \in Parses[s] /\ Needs[s] \subseteq Declared(m)
  BY <1>3, <1>4, ModuleConstants DEF Defined, WasmModules
<1> HIDE DEF n, extra
<1>5. QED
  BY <1>1, <1>2, <1>3, <1>4, MoreCode DEF n

LEMMA WithFunctionsFacts ==
  ASSUME NEW m \in WasmModules, NEW added \in Additions, FunctionsParse(m, added)
  PROVE  LET n == EmitStackIR(WithFunctions(m, added))
         IN  /\ n \in WasmModules
             /\ Extends(m, n)
             /\ TextParses(n)
<1> DEFINE w == WithFunctions(m, added)
           n == EmitStackIR(w)
<1>1. w \in WasmModules /\ n \in WasmModules
  BY WithFunctionsType, EmitStackIRType
<1>2. /\ w.funcs = m.funcs \cup {BodyName[a.body] : a \in added}
      /\ w.imports = m.imports
      /\ w.decls = m.decls
      /\ w.exports = m.exports
      /\ w.emitted = {}
      /\ \A f \in m.funcs : w.body[f] = Text(m)[f]
  <2> DEFINE funcs == Reparsed(m).funcs \cup {BodyName[a.body] : a \in added}
             body == [f \in Func |->
                        IF f \in m.funcs THEN Reparsed(m).body[f]
                        ELSE {b \in Body : BodyName[b] = f /\ \E a \in added : a.body = b}]
  <2>1. Reparsed(m) \in WasmModules
    BY ReparsedType
  <2>2. w = [Reparsed(m) EXCEPT !.funcs = funcs, !.body = body]
    BY DEF WithFunctions
  <2>3. /\ Reparsed(m).funcs = m.funcs /\ Reparsed(m).imports = m.imports
        /\ Reparsed(m).decls = m.decls /\ Reparsed(m).exports = m.exports
        /\ Reparsed(m).emitted = {} /\ Reparsed(m).body = Text(m)
    BY DEF Reparsed, WasmModules
  <2>4. \A f \in m.funcs : f \in Func /\ body[f] = Text(m)[f]
    BY <2>3 DEF WasmModules
  <2> HIDE DEF body
  <2>5. QED
    BY <2>1, <2>2, <2>3, <2>4 DEF WasmModules
<1>3. /\ Text(n) = Text(w)
      /\ Defined(n) = Defined(w)
      /\ Declared(n) = Declared(w)
      /\ n.funcs = w.funcs /\ n.decls = w.decls /\ n.exports = w.exports
  <2>1. n.funcs = w.funcs /\ n.decls = w.decls /\ n.exports = w.exports
    BY <1>1 DEF EmitStackIR, WasmModules
  <2>2. QED
    BY <1>1, <1>2, <2>1, TextEmitted
<1>4. \A f \in Defined(w) : Text(w)[f] = w.body[f]
  BY <1>1, <1>2 DEF Text, Defined, WasmModules
<1>5. Extends(m, n)
  <2>1. m.funcs \subseteq n.funcs /\ m.decls \subseteq n.decls /\ m.exports \subseteq n.exports
    BY <1>2, <1>3
  <2>2. Defined(n) \cap m.funcs \subseteq Defined(m)
    BY <1>2, <1>3 DEF Defined
  <2>3. \A f \in Defined(n) \cap Defined(m) : Text(m)[f] \subseteq Text(n)[f]
    BY <1>2, <1>3, <1>4 DEF Defined
  <2>4. QED
    BY <2>1, <2>2, <2>3 DEF Extends
<1>6. TextParses(n)
  BY <1>3, <1>4 DEF FunctionsParse, TextParses, Sound
<1>7. QED
  BY <1>1, <1>5, <1>6

LEMMA AsImportFacts ==
  ASSUME NEW m \in WasmModules, NEW x \in Item
  PROVE  /\ Extends(m, AsImport(m, x))
         /\ TextParses(m) => TextParses(AsImport(m, x))
<1> DEFINE n == AsImport(m, x)
<1>1. /\ m.funcs \subseteq n.funcs /\ m.decls \subseteq n.decls /\ n.exports = m.exports
      /\ n.imports = m.imports \cup {x}
      /\ n.funcs \subseteq m.funcs \cup {x}
      /\ n.emitted = m.emitted /\ n.stackIR = m.stackIR /\ n.body = m.body
  BY DEF AsImport, WasmModules
<1>2. Defined(n) \subseteq Defined(m) /\ Declared(m) \subseteq Declared(n)
  BY <1>1 DEF Defined, Declared
<1>3. \A f \in Defined(n) : Text(n)[f] = Text(m)[f]
  BY <1>1, <1>2 DEF Text, Defined, WasmModules
<1> HIDE DEF n
<1>4. QED
  BY <1>1, <1>2, <1>3 DEF n, Extends, TextParses, Sound

\* More declarations, same code
LEMMA MoreDeclarations ==
  ASSUME NEW m \in WasmModules, NEW n \in WasmModules,
         n.funcs = m.funcs, n.imports = m.imports, m.decls \subseteq n.decls,
         m.exports \subseteq n.exports,
         n.emitted = m.emitted, n.body = m.body, n.stackIR = m.stackIR
  PROVE  /\ Extends(m, n)
         /\ TextParses(m) /\ (\A e \in n.exports : e[2] \in Declared(n)) => TextParses(n)
<1>1. Text(n) = Text(m) /\ Defined(n) = Defined(m) /\ Declared(m) \subseteq Declared(n)
  BY DEF Text, Defined, Declared
<1>2. Extends(m, n)
  BY <1>1, SameTextExtends
<1>3. QED
  BY <1>1, <1>2 DEF TextParses, Sound

-----------------------------------------------------------------------------
(* The steps of a session. *)

\* What a failed parse leaves when the text of the module still parses
LEMMA FailedParseFacts ==
  ASSUME NEW m \in WasmModules, TextParses(m), NEW n \in AfterFailedParse(m)
  PROVE  n = Recovered(m)
BY DEF AfterFailedParse

LEMMA InstrumentStep ==
  ASSUME TypeOK, TextParses(module_), NEW ops \in Operations, Instrument(ops)
  PROVE  /\ Extends(module_, module_')
         /\ Careful => TextParses(module_')
         /\ reply'.ret = "instrument_error" => Text(module_') = Text(module_)
                                                /\ Declared(module_') = Declared(module_)
<1>1. module_ \in WasmModules /\ ops \in Seq(Op)
  BY InstrumenterConstants DEF TypeOK
<1>2. CASE MakeOperationsFails("instrument", ops)
  <2>1. module_' = Recovered(module_)
    BY <1>1, <1>2, FailedParseFacts DEF MakeOperationsFails
  <2>2. QED
    BY <1>1, <2>1, RecoveredFacts, TextRecovered
<1>3. CASE /\ ParsesWith(module_, ops)
           /\ module_' = Instrumented(Parsed(module_), function_scope_, ops)
           /\ ValidateReply("instrument", module_')
  <2>1. Careful => FragmentsFit(module_, function_scope_, ops)
    BY DEF Instrument
  <2>2. reply'.ret # "instrument_error"
    BY <1>3 DEF ValidateReply, Reply
  <2>3. QED
    BY <1>1, <1>3, <2>1, <2>2, InstrumentedFacts
<1>4. QED
  BY <1>2, <1>3 DEF Instrument

LEMMA InstrumentFunctionStep ==
  ASSUME TypeOK, TextParses(module_), NEW p \in Op, NEW f \in Func, NEW inside \in BOOLEAN,
         InstrumentFunction(p, f, inside)
  PROVE  /\ Extends(module_, module_')
         /\ Careful => TextParses(module_')
         /\ reply'.ret = "instrument_error" => Text(module_') = Text(module_)
                                                /\ Declared(module_') = Declared(module_)
<1>1. module_ \in WasmModules
  BY DEF TypeOK
<1>2. CASE MakeOperationsFails("instrumentFunction", <<p>>)
  <2>1. module_' = Recovered(module_)
    BY <1>1, <1>2, FailedParseFacts DEF MakeOperationsFails
  <2>2. QED
    BY <1>1, <2>1, RecoveredFacts, TextRecovered
<1>3. CASE module_' = Parsed(module_)
  <2>1. Extends(module_, module_')
    BY <1>1, <1>3, ParsedFacts, SameTextExtends
  <2>2. TextParses(module_')
    BY <1>1, <1>3, ParsedFacts DEF TextParses, Sound
  <2>3. QED
    BY <1>1, <1>3, <2>1, <2>2, ParsedFacts
<1>4. CASE /\ ParsesWith(module_, <<p>>)
           /\ f \in Defined(module_)
           /\ module_' = Inserted(Parsed(module_), f, p)
           /\ ValidateReply("instrumentFunction", module_')
  <2>1. f \in Parsed(module_).emitted
    BY <1>1, <1>4, ParsedFacts
  <2>2. Extends(Parsed(module_), module_')
    BY <1>1, <1>4, <2>1, ParsedFacts, InsertedFacts
  <2>3. Extends(module_, module_')
    BY <1>1, <2>2, ParsedFacts DEF Extends
  <2>4. Needs[p] \subseteq Declared(Parsed(module_))
    BY <1>1, <1>4, ParsedFacts DEF ParsesWith
  <2>5. TextParses(Parsed(module_))
    BY <1>1, ParsedFacts DEF TextParses, Sound
  <2>6. Careful => TextParses(module_')
    BY <1>1, <1>4, <2>1, <2>4, <2>5, ParsedFacts, InsertedFacts DEF InstrumentFunction
  <2>7. reply'.ret # "instrument_error"
    BY <1>4 DEF ValidateReply, Reply
  <2>8. QED
    BY <2>3, <2>6, <2>7
<1>5. QED
  BY <1>2, <1>3, <1>4 DEF InstrumentFunction

LEMMA AddFunctionsStep ==
  ASSUME TypeOK, TextParses(module_), NEW added \in Additions, AddFunctions(added)
  PROVE  /\ Extends(module_, module_')
         /\ TextParses(module_')
         /\ reply'.ret = "failed" => Text(module_') = Text(module_)
                                      /\ Declared(module_') = Declared(module_)
<1>1. module_ \in WasmModules
  BY DEF TypeOK
<1>2. CASE UNCHANGED module_
  BY <1>1, <1>2, SameTextExtends
<1>3. CASE module_' \in AfterFailedParse(module_)
  BY <1>1, <1>3, FailedParseFacts, RecoveredFacts, TextRecovered
<1>4. CASE /\ FunctionsParse(module_, added)
           /\ module_' = EmitStackIR(WithFunctions(module_, added))
           /\ Reply("addFunctions", "ok")
  BY <1>1, <1>4, WithFunctionsFacts DEF Reply
<1>5. QED
  BY <1>2, <1>3, <1>4 DEF AddFunctions

\* A failed call of the other kinds leaves the module alone.
LEMMA DeclarationStep ==
  ASSUME TypeOK, TextParses(module_), NEW call, NEW d \in Decl, NEW may,
         AddDecl(call, d, may)
  PROVE  /\ Extends(module_, module_')
         /\ TextParses(module_')
         /\ reply'.ret = "failed" => module_' = module_
<1>1. module_ \in WasmModules
  BY DEF TypeOK
<1>2. CASE UNCHANGED module_
  BY <1>1, <1>2, SameTextExtends
<1>3. CASE module_' = [module_ EXCEPT !.decls = @ \cup {d}] /\ Reply(call, "ok")
  <2>1. module_' \in WasmModules
    BY <1>1, <1>3 DEF WasmModules
  <2>2. /\ module_'.funcs = module_.funcs /\ module_'.imports = module_.imports
        /\ module_'.decls = module_.decls \cup {d} /\ module_'.exports = module_.exports
        /\ module_'.emitted = module_.emitted /\ module_'.body = module_.body
        /\ module_'.stackIR = module_.stackIR
    BY <1>1, <1>3 DEF WasmModules
  <2>3. \A e \in module_'.exports : e[2] \in Declared(module_')
    BY <2>2 DEF TextParses, Sound, Declared
  <2>4. QED
    BY <1>1, <1>3, <2>1, <2>2, <2>3, MoreDeclarations DEF Reply
<1>4. QED
  BY <1>2, <1>3 DEF AddDecl

LEMMA AddExportStep ==
  ASSUME TypeOK, TextParses(module_), NEW e \in ExportName, NEW x \in Item,
         AddExport(e, x)
  PROVE  /\ Extends(module_, module_')
         /\ Careful => TextParses(module_')
         /\ ~UNCHANGED reply /\ reply'.ret = "failed" => module_' = module_
<1>1. module_ \in WasmModules
  BY DEF TypeOK
<1>2. CASE UNCHANGED module_
  BY <1>1, <1>2, SameTextExtends
<1>3. CASE /\ module_' = [module_ EXCEPT !.exports = @ \cup {<<e, x>>}]
           /\ Reply("addExport", "ok")
  <2>1. module_' \in WasmModules
    BY <1>1, <1>3 DEF WasmModules
  <2>2. /\ module_'.funcs = module_.funcs /\ module_'.imports = module_.imports
        /\ module_'.decls = module_.decls
        /\ module_'.exports = module_.exports \cup {<<e, x>>}
        /\ module_'.emitted = module_.emitted /\ module_'.body = module_.body
        /\ module_'.stackIR = module_.stackIR
    BY <1>1, <1>3 DEF WasmModules
  <2>3. Careful => \A y \in module_'.exports : y[2] \in Declared(module_')
    BY <2>2 DEF AddExport, TextParses, Sound, Declared
  <2>4. QED
    BY <1>1, <1>3, <2>1, <2>2, <2>3, MoreDeclarations DEF Reply
<1>4. QED
  BY <1>2, <1>3 DEF AddExport, Exit

\* What every step of a session does
SessionKept ==
  /\ Extends(module_, module_')
  /\ Careful => TextParses(module_')
  /\ reply'.ret \in {"instrument_error", "failed"}
       => Text(module_') = Text(module_) /\ Declared(module_') = Declared(module_)
  /\ UNCHANGED <<config_, disk>>

LEMMA SessionStep ==
  ASSUME TypeOK, Next, Valid, Valid', TextParses(module_)
  PROVE  SessionKept
<1>0. module_ \in WasmModules /\ state_ = "valid" /\ state_' = "valid" /\ process' = "running"
  BY DEF TypeOK, Valid
<1>1. ASSUME UNCHANGED <<module_, config_, disk>> PROVE SessionKept
  BY <1>0, <1>1, SameTextExtends DEF SessionKept
<1>2. ~Exit
  BY <1>0 DEF Exit
<1>3. ASSUME NEW filename \in File \cup {NoName}, NEW targetname \in File \cup {NoName},
             NEW feature \in {FEATURE_SPEC, FEATURE_SPEC \cup {MultiMemory}},
             SetConfig(filename, targetname, feature)
      PROVE  SessionKept
  BY <1>0, <1>3 DEF SetConfig
<1>4. CASE SetConfigRefused
  BY <1>1, <1>4 DEF SetConfigRefused
<1>5. ASSUME NEW call \in GatedCall, Refused(call) PROVE SessionKept
  BY <1>0, <1>5 DEF Refused
<1>6. ASSUME NEW ops \in Operations, Instrument(ops) PROVE SessionKept
  <2>1. reply'.ret # "failed" /\ UNCHANGED <<config_, disk>>
    BY <1>6 DEF Instrument, MakeOperationsFails, ValidateReply, Reply, OnModule
  <2>2. QED
    BY <1>6, <2>1, InstrumentStep DEF SessionKept
<1>7. ASSUME NEW p \in Op, NEW f \in Func, NEW inside \in BOOLEAN,
             InstrumentFunction(p, f, inside)
      PROVE  SessionKept
  <2>1. reply'.ret # "failed" /\ UNCHANGED <<config_, disk>>
    BY <1>7 DEF InstrumentFunction, MakeOperationsFails, ValidateReply, Reply, OnModule
  <2>2. QED
    BY <1>7, <2>1, InstrumentFunctionStep DEF SessionKept
<1>8. ASSUME NEW added \in Additions, AddFunctions(added) PROVE SessionKept
  <2>1. reply'.ret # "instrument_error" /\ UNCHANGED <<config_, disk>>
    BY <1>8 DEF AddFunctions, Reply, OnModule
  <2>2. QED
    BY <1>8, <2>1, AddFunctionsStep DEF SessionKept
<1>9. ASSUME NEW call, NEW d \in Decl, NEW may, AddDecl(call, d, may), OnModule PROVE SessionKept
  <2>1. reply'.ret # "instrument_error" /\ UNCHANGED <<config_, disk>>
    BY <1>9 DEF AddDecl, Reply, OnModule
  <2>2. QED
    BY <1>9, <2>1, DeclarationStep DEF SessionKept
<1>10. ASSUME NEW call, NEW x \in Item, AddImport(call, x) PROVE SessionKept
  <2>1. reply'.ret \notin {"instrument_error", "failed"} /\ UNCHANGED <<config_, disk>>
    BY <1>10 DEF AddImport, Reply, OnModule
  <2>2. QED
    BY <1>0, <1>10, <2>1, AsImportFacts DEF AddImport, SessionKept
<1>11. ASSUME NEW g \in Global, AddGlobal(g) \/ AddImportGlobal(g) PROVE SessionKept
  BY <1>9, <1>10, <1>11 DEF AddGlobal, AddImportGlobal, Decl, Item
<1>12. ASSUME NEW mem \in Memory, AddMemory(mem) \/ AddImportMemory(mem) PROVE SessionKept
  <2>1. CASE AddMemory(mem)
    BY <1>9, <2>1 DEF AddMemory, Decl
  <2>2. CASE AddImport("addImportMemory", mem)
    BY <1>10, <2>2 DEF Decl, Item
  <2>3. CASE UNCHANGED module_ /\ OnModule
    BY <1>1, <2>3 DEF OnModule
  <2>4. QED
    BY <1>12, <2>1, <2>2, <2>3 DEF AddImportMemory
<1>13. ASSUME NEW s \in Segment, AddPassiveDateSegment(s) PROVE SessionKept
  BY <1>2, <1>9, <1>13 DEF AddPassiveDateSegment, Decl
<1>14. ASSUME NEW e \in ExportName, NEW x \in Item, AddExport(e, x) PROVE SessionKept
  <2>1. /\ UNCHANGED <<config_, disk>>
        /\ reply'.ret # "instrument_error"
        /\ reply'.ret = "failed" => UNCHANGED module_
    BY <1>2, <1>14 DEF AddExport, Reply, OnModule
  <2>2. QED
    BY <1>0, <1>14, <2>1, AddExportStep DEF SessionKept
<1>15. ASSUME NEW scope, NEW ret, ScopeCall(scope, ret) PROVE SessionKept
  BY <1>1, <1>15 DEF ScopeCall
<1>16. ASSUME NEW f \in Func, AddImportFunction(f) \/ ScopeAdd(f) \/ ScopeRemove(f) PROVE SessionKept
  BY <1>10, <1>15, <1>16 DEF AddImportFunction, ScopeAdd, ScopeRemove, Item
<1>17. ASSUME NEW f \in Func, NEW p \in Op, IterInstructions(f, p) PROVE SessionKept
  <2>1. /\ f \in module_.emitted
        /\ module_' = Inserted(module_, f, p)
        /\ Reply("iterInstructions", "ok")
        /\ UNCHANGED <<config_, disk>>
        /\ Careful => f \in Fits[p] /\ Needs[p] \subseteq Declared(module_)
    BY <1>2, <1>17 DEF IterInstructions, OnModule
  <2>2. reply'.ret \notin {"instrument_error", "failed"}
    BY <2>1 DEF Reply
  <2>3. QED
    BY <1>0, <2>1, <2>2, InsertedFacts DEF SessionKept
<1>18. CASE WriteBinary
  BY <1>0, <1>1, <1>18 DEF WriteBinary
<1>19. CASE Clear
  BY <1>0, <1>19 DEF Clear
<1>20. CASE ScopeClear
  BY <1>15, <1>20 DEF ScopeClear
<1>21. ~WriteBinaryExits
  BY <1>2 DEF WriteBinaryExits
<1>22. QED
  BY <1>3, <1>4, <1>5, <1>6, <1>7, <1>8, <1>11, <1>12, <1>13, <1>14, <1>16, <1>17,
     <1>18, <1>19, <1>20, <1>21 DEF Next

-----------------------------------------------------------------------------
(* The beginning of a session. *)

\* Reading a binary into an empty module and running the passes
LEMMA ReadFacts ==
  ASSUME NEW b \in WasmModules, NEW feature \in SUBSET Feature
  PROVE  LET n == EmitStackIR(ReadInto(NewModule, b, feature))
         IN  /\ n \in WasmModules
             /\ n = EmitStackIR([b EXCEPT !.features = feature])
             /\ n.funcs = b.funcs /\ n.exports = b.exports
             /\ Defined(n) = Defined(b) /\ Defined(ReadInto(NewModule, b, feature)) = Defined(b)
             /\ \A f \in Defined(b) : Text(n)[f] = b.body[f]
             /\ Readable(b) => TextParses(n)
<1> DEFINE r == ReadInto(NewModule, b, feature)
           n == EmitStackIR(r)
<1>1. /\ r.funcs = b.funcs /\ r.imports = b.imports /\ r.body = b.body
      /\ r.decls = b.decls /\ r.exports = b.exports /\ r.features = feature
      /\ r.uses = b.uses /\ r.emitted = {}
  BY DEF ReadInto, NewModule, NoCode, WasmModules, Code
<1>2. r \in WasmModules /\ n \in WasmModules
  BY NewModuleType, ReadIntoType, EmitStackIRType
<1>3. n = EmitStackIR([b EXCEPT !.features = feature])
  <2> DEFINE c == [b EXCEPT !.features = feature]
  <2>1. /\ c.funcs = b.funcs /\ c.imports = b.imports /\ c.body = b.body
        /\ c.decls = b.decls /\ c.exports = b.exports /\ c.features = feature
        /\ c.uses = b.uses /\ c \in WasmModules
    BY DEF WasmModules
  <2> HIDE DEF c
  <2>2. n = EmitStackIR(c)
    BY <1>1, <1>2, <2>1 DEF EmitStackIR, Defined, WasmModules
  <2>3. QED
    BY <2>2 DEF c
<1>4. /\ Text(n) = Text(r) /\ Defined(n) = Defined(r) /\ Declared(n) = Declared(r)
      /\ Defined(r) = Defined(b) /\ Declared(r) = Declared(b)
  BY <1>1, <1>2, TextEmitted DEF Defined, Declared
<1>5. n.funcs = b.funcs /\ n.exports = b.exports
  BY <1>1, <1>2 DEF EmitStackIR, WasmModules
<1>6. \A f \in Defined(b) : Text(n)[f] = b.body[f]
  BY <1>1, <1>2, <1>4 DEF Text, Defined, WasmModules
<1>7. Readable(b) => TextParses(n)
  BY <1>4, <1>5, <1>6 DEF Readable, TextParses, Sound
<1>8. QED
  BY <1>2, <1>3, <1>4, <1>5, <1>6, <1>7

\* A setConfig() that succeeds, made on an empty module
LEMMA SetConfigSucceeds ==
  ASSUME TypeOK, module_ = NewModule,
         NEW filename \in File \cup {NoName}, NEW targetname \in File \cup {NoName},
         NEW feature, SetConfig(filename, targetname, feature), state_' # "idle"
  PROVE  /\ filename \in DOMAIN disk /\ targetname # NoName
         /\ config_' = [config_ EXCEPT !.filename = filename, !.targetname = targetname]
         /\ Readable(disk[filename]) /\ disk[filename].funcs # {}
         /\ module_' = EmitStackIR(ReadInto(NewModule, disk[filename], config_.feature))
         /\ function_scope_' = function_scope_ \cup Defined(disk[filename])
         /\ state_' = "valid"
         /\ UNCHANGED <<disk, process>>
<1>1. /\ state_ = "idle" /\ module_ = NewModule
      /\ config_' = [config_ EXCEPT !.filename = filename, !.targetname = targetname]
  BY DEF SetConfig
<1>2. /\ filename \in DOMAIN disk /\ targetname # NoName
      /\ Readable(disk[filename])
      /\ ReadInto(NewModule, disk[filename], config_.feature).funcs # {}
      /\ module_' = EmitStackIR(ReadInto(NewModule, disk[filename], config_.feature))
      /\ function_scope_' = function_scope_
                              \cup Defined(ReadInto(NewModule, disk[filename], config_.feature))
      /\ state_' = "valid"
      /\ UNCHANGED <<disk, process>>
  BY <1>1 DEF SetConfig
<1>3. disk[filename] \in WasmModules /\ config_.feature \in SUBSET Feature
  BY <1>2 DEF TypeOK, InstrumentConfig
<1>4. ReadInto(NewModule, disk[filename], config_.feature).funcs = disk[filename].funcs
  BY DEF ReadInto, NewModule
<1>5. QED
  BY <1>1, <1>2, <1>3, <1>4, ReadFacts

\* The kinds of steps
SetConfigCalled ==
  \E filename, targetname \in File \cup {NoName} :
     \E feature : SetConfig(filename, targetname, feature)

ConfigAccepted == reply.call = "setConfig" /\ reply.ret = "success"

SessionCall == Valid /\ Valid' /\ ~ConfigAccepted'

NoEffect ==
  /\ UNCHANGED <<state_, config_, module_, function_scope_, disk, process>>
  /\ ~ConfigAccepted'
  /\ reply'.clear_due = reply.clear_due

LEMMA StepKinds ==
  ASSUME TypeOK, Careful, Next
  PROVE  SetConfigCalled \/ Exit \/ WriteBinary \/ Clear \/ SessionCall \/ NoEffect
<1>1. ASSUME InValid, NEW call, NEW ret, Reply(call, ret), call # "setConfig", OnModule
      PROVE  SessionCall
  BY <1>1 DEF InValid, OnModule, Reply, Valid, SessionCall, ConfigAccepted
<1>2. ASSUME SetConfigRefused PROVE NoEffect
  BY <1>2 DEF SetConfigRefused, SetConfigReply, NoEffect, ConfigAccepted, TypeOK
<1>3. ASSUME NEW call \in GatedCall, Refused(call) PROVE NoEffect
  BY <1>3 DEF Refused, GatedCall, Reply, OnModule, NoEffect, ConfigAccepted
<1>4. ASSUME NEW ops \in Operations, Instrument(ops) PROVE SessionCall
  BY <1>1, <1>4 DEF Instrument, MakeOperationsFails, ValidateReply
<1>5. ASSUME NEW p \in Op, NEW f \in Func, NEW inside \in BOOLEAN,
             InstrumentFunction(p, f, inside)
      PROVE  SessionCall
  <2>1. InValid /\ OnModule /\ \E ret : Reply("instrumentFunction", ret)
    BY <1>5 DEF InstrumentFunction, MakeOperationsFails, ValidateReply
  <2>2. QED
    BY <1>1, <2>1
<1>6. ASSUME NEW added \in Additions, AddFunctions(added) PROVE SessionCall
  BY <1>1, <1>6 DEF AddFunctions
<1>7. ASSUME NEW g \in Global, AddGlobal(g) \/ AddImportGlobal(g) PROVE SessionCall
  BY <1>1, <1>7 DEF AddGlobal, AddImportGlobal, AddDecl, AddImport
<1>8. ASSUME NEW mem \in Memory, AddMemory(mem) \/ AddImportMemory(mem) PROVE SessionCall
  BY <1>1, <1>8 DEF AddMemory, AddImportMemory, AddDecl, AddImport
<1>9. ASSUME NEW s \in Segment, AddPassiveDateSegment(s) PROVE SessionCall \/ Exit
  BY <1>1, <1>9 DEF AddPassiveDateSegment, AddDecl
<1>10. ASSUME NEW e \in ExportName, NEW x \in Item, AddExport(e, x) PROVE SessionCall \/ Exit
  BY <1>1, <1>10 DEF AddExport
<1>11. ASSUME NEW scope, NEW ret, ScopeCall(scope, ret) PROVE SessionCall
  BY <1>11 DEF ScopeCall, Reply, Valid, SessionCall, ConfigAccepted
<1>12. ASSUME NEW f \in Func, AddImportFunction(f) \/ ScopeAdd(f) \/ ScopeRemove(f)
       PROVE  SessionCall
  BY <1>1, <1>11, <1>12 DEF AddImportFunction, AddImport, ScopeAdd, ScopeRemove
<1>13. ASSUME NEW f \in Func, NEW p \in Op, IterInstructions(f, p) PROVE SessionCall \/ Exit
  BY <1>1, <1>13 DEF IterInstructions, InValid
<1>14. CASE ScopeClear
  BY <1>11, <1>14 DEF ScopeClear
<1>15. WriteBinaryExits => Exit
  BY DEF WriteBinaryExits
<1>16. QED
  BY <1>2, <1>3, <1>4, <1>5, <1>6, <1>7, <1>8, <1>9, <1>10, <1>12, <1>13, <1>14, <1>15
     DEF Next, SetConfigCalled

LEMMA WriteImageFacts ==
  ASSUME NEW m \in WasmModules
  PROVE  /\ WriteImage(m).funcs = m.funcs
         /\ TextParses(m) => Readable(WriteImage(m))
<1> DEFINE w == WriteImage(m)
<1>1. /\ w.funcs = m.funcs /\ w.imports = m.imports /\ w.decls = m.decls
      /\ w.exports = m.exports /\ w.body = Text(m)
  BY DEF WriteImage, Reparsed, WasmModules
<1>2. QED
  BY <1>1 DEF Readable, TextParses, Sound, Defined, Declared

-----------------------------------------------------------------------------
(***************************************************************************)
(* The invariant of a careful caller.  SessionInv is what the other parts  *)
(* need to be inductive: the text parses in every state after a successful *)
(* setConfig(), and nothing is left of a session when the next one starts: *)
(* in state idle something can be in the module only when the last         *)
(* setConfig() has failed to read and clear() is due.                      *)
(***************************************************************************)
SessionInv ==
  /\ config_.feature = FEATURE_SPEC
  /\ state_ = "idle" => function_scope_ = {} /\ ~ConfigAccepted
  /\ state_ = "idle" /\ ~reply.clear_due => module_ = NewModule
  /\ state_ # "idle" => /\ TextParses(module_)
                        /\ module_.funcs # {}
                        /\ config_.targetname # NoName

CarefulInv ==
  /\ TypeOK
  /\ SessionInv
  /\ OriginalKept
  /\ WrittenIsReadable
  /\ FreshRead

LEMMA SetConfigKeepsInv ==
  ASSUME Careful, CarefulInv, TypeOK', SetConfigCalled
  PROVE  CarefulInv'
<1>1. PICK filename \in File \cup {NoName}, targetname \in File \cup {NoName} :
         \E feature : SetConfig(filename, targetname, feature)
  BY DEF SetConfigCalled
<1>2. PICK feature : SetConfig(filename, targetname, feature)
  BY <1>1
<1>3. /\ state_ = "idle" /\ disk' = disk
      /\ config_' = [config_ EXCEPT !.filename = filename, !.targetname = targetname]
  BY <1>2 DEF SetConfig
<1>0. module_ = NewModule
  BY <1>2, <1>3 DEF SetConfig, CarefulInv, SessionInv
<1>4. config_'.feature = FEATURE_SPEC /\ config_'.targetname = targetname
      /\ config_'.filename = filename
  BY <1>3 DEF CarefulInv, SessionInv, TypeOK, InstrumentConfig
<1>5. CASE state_' = "idle"
  <2>1. function_scope_' = function_scope_
    BY <1>2, <1>5 DEF SetConfig
  <2>2. ~ConfigAccepted'
    BY <1>2, <1>3, <1>5 DEF SetConfig, SetConfigReply, ConfigAccepted, CarefulInv, SessionInv
  <2>3. ~reply'.clear_due => module_' = NewModule
    <3>1. CASE module_' = module_
      BY <1>0, <3>1
    <3>2. CASE SetConfigReply("open_module_error", feature)
      BY <3>2 DEF SetConfigReply
    <3>3. QED
      BY <1>2, <1>5, <3>1, <3>2 DEF SetConfig
  <2>4. QED
    BY <1>3, <1>4, <1>5, <2>1, <2>2, <2>3
       DEF CarefulInv, SessionInv, OriginalKept, WrittenIsReadable, FreshRead, Valid,
           ConfigAccepted
<1>6. CASE state_' # "idle"
  <2> DEFINE b == disk[filename]
             n == EmitStackIR(ReadInto(NewModule, b, FEATURE_SPEC))
  <2>1. /\ filename \in DOMAIN disk /\ targetname # NoName
        /\ Readable(b) /\ b.funcs # {}
        /\ module_' = n
        /\ function_scope_' = Defined(b)
        /\ state_' = "valid"
    BY <1>0, <1>2, <1>3, <1>6, SetConfigSucceeds DEF CarefulInv, SessionInv
  <2>2. b \in WasmModules /\ FEATURE_SPEC \in SUBSET Feature
    BY <2>1, ModuleConstants DEF CarefulInv, TypeOK
  <2>3. /\ n = EmitStackIR([b EXCEPT !.features = FEATURE_SPEC])
        /\ n.funcs = b.funcs /\ n.exports = b.exports
        /\ Defined(n) = Defined(b)
        /\ \A f \in Defined(b) : Text(n)[f] = b.body[f]
        /\ TextParses(n)
    BY <2>1, <2>2, ReadFacts
  <2> HIDE DEF n
  <2>4. SessionInv'
    BY <1>4, <2>1, <2>3 DEF SessionInv
  <2>5. OriginalKept'
    BY <1>3, <1>4, <2>1, <2>3 DEF OriginalKept
  <2>6. WrittenIsReadable' /\ FreshRead'
    BY <1>3, <1>4, <2>1, <2>3 DEF WrittenIsReadable, FreshRead
  <2>7. QED
    BY <2>4, <2>5, <2>6 DEF CarefulInv
<1>7. QED
  BY <1>5, <1>6

LEMMA SessionKeepsInv ==
  ASSUME Careful, CarefulInv, TypeOK', Next, SessionCall
  PROVE  CarefulInv'
<1>1. /\ state_ = "valid" /\ state_' = "valid" /\ Valid /\ Valid' /\ ~ConfigAccepted'
      /\ module_ \in WasmModules /\ module_' \in WasmModules
  BY DEF SessionCall, Valid, CarefulInv, TypeOK
<1>2. TextParses(module_) /\ module_.funcs # {} /\ config_.targetname # NoName
  BY <1>1 DEF CarefulInv, SessionInv
<1>3. SessionKept
  BY <1>1, <1>2, SessionStep DEF CarefulInv
<1>4. Extends(module_, module_') /\ TextParses(module_') /\ UNCHANGED <<config_, disk>>
  BY <1>3 DEF SessionKept
<1>5. SessionInv'
  BY <1>1, <1>2, <1>4 DEF SessionInv, CarefulInv, Extends
<1>6. OriginalKept'
  <2> DEFINE b == disk[config_.filename]
  <2>1. /\ b.funcs \subseteq module_.funcs
        /\ b.exports \subseteq module_.exports
        /\ \A f \in b.funcs \cap Defined(module_) : b.body[f] \subseteq Text(module_)[f]
    BY <1>1 DEF CarefulInv, OriginalKept
  <2>2. b.funcs \subseteq module_'.funcs /\ b.exports \subseteq module_'.exports
    BY <1>4, <2>1 DEF Extends
  <2>3. ASSUME NEW f \in b.funcs \cap Defined(module_')
        PROVE  b.body[f] \subseteq Text(module_')[f]
    <3>1. f \in Defined(module_)
      BY <1>4, <2>1, <2>3 DEF Extends
    <3>2. QED
      BY <1>4, <2>1, <2>3, <3>1 DEF Extends
  <2>4. QED
    BY <1>4, <2>2, <2>3 DEF OriginalKept
<1>7. WrittenIsReadable' /\ FreshRead'
  BY <1>1 DEF WrittenIsReadable, FreshRead, ConfigAccepted
<1>8. QED
  BY <1>5, <1>6, <1>7 DEF CarefulInv

LEMMA WriteKeepsInv ==
  ASSUME Careful, CarefulInv, TypeOK', WriteBinary
  PROVE  CarefulInv'
<1>1. /\ state_ # "idle" /\ ~ConfigAccepted'
      /\ UNCHANGED <<config_, module_, function_scope_, process>>
      /\ module_ \in WasmModules
  BY DEF WriteBinary, Reply, ConfigAccepted, CarefulInv, TypeOK
<1>2. TextParses(module_) /\ module_.funcs # {} /\ config_.targetname # NoName
  BY <1>1 DEF CarefulInv, SessionInv
<1>3. FreshRead'
  BY <1>1 DEF FreshRead, ConfigAccepted
<1>4. CASE UNCHANGED <<state_, disk>>
  <2>1. SessionInv' /\ OriginalKept' /\ WrittenIsReadable'
    BY <1>1, <1>4 DEF CarefulInv, SessionInv, OriginalKept, WrittenIsReadable, Valid
  <2>2. QED
    BY <1>3, <2>1 DEF CarefulInv
<1>5. CASE disk' = Output(config_.targetname, module_) /\ state_' = "written"
  <2>1. disk'[config_.targetname] = WriteImage(module_)
    BY <1>2, <1>5 DEF Output
  <2>2. WrittenIsReadable'
    BY <1>1, <1>2, <2>1, WriteImageFacts DEF WrittenIsReadable
  <2>3. SessionInv' /\ OriginalKept'
    BY <1>1, <1>2, <1>5 DEF CarefulInv, SessionInv, OriginalKept, Valid
  <2>4. QED
    BY <1>3, <2>2, <2>3 DEF CarefulInv
<1>6. QED
  BY <1>4, <1>5 DEF WriteBinary

(***************************************************************************)
(* A careful caller never loses its module: the invariant holds in every   *)
(* state, for any files, functions, fragments and operations.              *)
(***************************************************************************)
THEOREM CarefulInvariant ==
  ASSUME Careful PROVE Spec => []CarefulInv
<1>1. ASSUME Init PROVE CarefulInv
  <2>1. TypeOK
    BY <1>1, TypeCorrectInit
  <2>2. QED
    BY <1>1, <2>1 DEF Init, CarefulInv, SessionInv, OriginalKept, WrittenIsReadable, FreshRead,
                      Valid, ConfigAccepted
<1>2. ASSUME CarefulInv, Next PROVE CarefulInv'
  <2>1. TypeOK'
    BY <1>2, TypeCorrectStep DEF CarefulInv
  <2>2. CASE Exit
    BY <1>2, <2>1, <2>2 DEF Exit, CarefulInv, SessionInv, OriginalKept, WrittenIsReadable,
                            FreshRead, Valid, ConfigAccepted
  <2>3. CASE Clear
    BY <1>2, <2>1, <2>3 DEF Clear, Reply, CarefulInv, SessionInv, OriginalKept,
                            WrittenIsReadable, FreshRead, Valid, ConfigAccepted
  <2>4. CASE NoEffect
    BY <1>2, <2>1, <2>4 DEF NoEffect, CarefulInv, SessionInv, OriginalKept,
                            WrittenIsReadable, FreshRead, Valid, ConfigAccepted
  <2>5. QED
    BY <1>2, <2>1, <2>2, <2>3, <2>4, StepKinds, SetConfigKeepsInv, SessionKeepsInv,
       WriteKeepsInv DEF CarefulInv
<1>3. ASSUME CarefulInv, UNCHANGED vars PROVE CarefulInv'
  BY <1>3 DEF vars, CarefulInv, TypeOK, SessionInv, OriginalKept, WrittenIsReadable, FreshRead,
              Valid, ConfigAccepted
<1>4. QED
  BY <1>1, <1>2, <1>3, PTL DEF Spec

(***************************************************************************)
(* A module read and edited by a careful caller always prints as text that *)
(* the parser accepts, so it is never lost.                                *)
(***************************************************************************)
THEOREM TextAlwaysResolves ==
  ASSUME Careful PROVE Spec => []TextResolves
<1>1. CarefulInv => TextResolves
  BY DEF CarefulInv, SessionInv, TextResolves, Valid
<1>2. QED
  BY <1>1, CarefulInvariant, PTL

(***************************************************************************)
(* Whatever the calls made on it, the module keeps the functions, the      *)
(* exports and the code of the file it was read from.                      *)
(***************************************************************************)
THEOREM OriginalAlwaysKept ==
  ASSUME Careful PROVE Spec => []OriginalKept
BY CarefulInvariant, PTL DEF CarefulInv

(***************************************************************************)
(* A written file is the module as printed, and can be read again.         *)
(***************************************************************************)
THEOREM WrittenAlwaysReadable ==
  ASSUME Careful PROVE Spec => []WrittenIsReadable
BY CarefulInvariant, PTL DEF CarefulInv

(***************************************************************************)
(* A reused instrumenter starts from the content of the file alone, also   *)
(* when an earlier setConfig() has failed half way through a file: the     *)
(* module is empty when nothing is due to be cleared (SessionInv).         *)
(***************************************************************************)
THEOREM AlwaysFreshRead ==
  ASSUME Careful PROVE Spec => []FreshRead
BY CarefulInvariant, PTL DEF CarefulInv

(***************************************************************************)
(* A call that fails leaves the code of every function as it was.          *)
(***************************************************************************)
THEOREM FailedCallsKeepCode ==
  ASSUME Careful PROVE Spec => FailedCallKeepsCode
<1> DEFINE A == SameSession /\ reply'.ret \in {"instrument_error", "failed"}
                  => Text(module_') = Text(module_) /\ Declared(module_') = Declared(module_)
<1>1. ASSUME CarefulInv, [Next]_vars PROVE [A]_vars
  <2>1. ASSUME Next, SameSession PROVE SessionKept
    BY <1>1, <2>1, SessionStep DEF CarefulInv, SessionInv, SameSession, Valid
  <2>2. QED
    BY <1>1, <2>1 DEF SessionKept
<1>2. QED
  BY <1>1, CarefulInvariant, PTL DEF Spec, FailedCallKeepsCode

(***************************************************************************)
(* No call takes away code that is in a function.                          *)
(***************************************************************************)
THEOREM CodeNeverShrinks ==
  ASSUME Careful PROVE Spec => CodeOnlyGrows
<1> DEFINE A == SameSession =>
                  \A f \in Defined(module_) \cap Defined(module_') :
                     Text(module_)[f] \subseteq Text(module_')[f]
<1>1. ASSUME CarefulInv, [Next]_vars PROVE [A]_vars
  <2>1. ASSUME Next, SameSession PROVE SessionKept
    BY <1>1, <2>1, SessionStep DEF CarefulInv, SessionInv, SameSession, Valid
  <2>2. QED
    BY <1>1, <2>1 DEF SessionKept, Extends
<1>2. QED
  BY <1>1, CarefulInvariant, PTL DEF Spec, CodeOnlyGrows

-----------------------------------------------------------------------------
(* Theorems about any caller. *)

(***************************************************************************)
(* For any caller: functions are lost only when the text of the module did *)
(* not parse before the call.                                              *)
(***************************************************************************)
THEOREM LossesAreExplained == Spec => LossOnlyFromBrokenText
<1> DEFINE A == SameSession /\ TextParses(module_) => module_.funcs \subseteq module_'.funcs
<1>1. ASSUME TypeOK, [Next]_vars PROVE [A]_vars
  <2>1. ASSUME Next, SameSession, TextParses(module_) PROVE SessionKept
    BY <1>1, <2>1, SessionStep DEF SameSession
  <2>2. QED
    BY <1>1, <2>1 DEF SessionKept, Extends
<1>2. QED
  BY <1>1, TypeCorrect, PTL DEF Spec, LossOnlyFromBrokenText

\* What a failed parse leaves of a function prints as before.
LEMMA TextAfterFailedParse ==
  ASSUME NEW m \in WasmModules, NEW n \in AfterFailedParse(m),
         NEW f \in Func, f \in Declared(n)
  PROVE  Text(n)[f] = Text(m)[f]
<1>1. CASE TextParses(m)
  BY <1>1, FailedParseFacts, TextRecovered
<1>2. CASE ~TextParses(m)
  <2>1. PICK kept \in SUBSET m.funcs : n = [Keep(Recovered(m), kept) EXCEPT !.exports = {}]
    BY <1>2 DEF AfterFailedParse, PartsOf
  <2> DEFINE r == Recovered(m)
             k == Keep(r, kept)
  <2>2. /\ r \in WasmModules /\ r.funcs = m.funcs /\ r.imports = m.imports
        /\ r.body = Text(m) /\ r.emitted = {} /\ r.decls = m.decls
    BY RecoveredType DEF Recovered, Reparsed, WasmModules
  <2> HIDE DEF r
  <2>3. /\ k \in WasmModules /\ k.funcs = kept /\ k.imports = r.imports \ (Func \ kept)
        /\ k.emitted = {} /\ k.decls = m.decls
        /\ k.body = [g \in Func |-> IF g \in kept THEN Text(m)[g] ELSE {}]
    <3>1. kept \in SUBSET Func
      BY <2>1 DEF WasmModules
    <3>2. /\ k \in WasmModules /\ k.funcs = kept /\ k.imports = r.imports \ (Func \ kept)
          /\ k.emitted = r.emitted /\ k.decls = r.decls
      BY <2>2, <3>1, KeepType, KeepFields
    <3>3. k.body = [g \in Func |-> IF g \in kept THEN r.body[g] ELSE {}]
      BY <2>2, <3>1, KeepFields
    <3>4. QED
      BY <2>2, <3>2, <3>3
  <2> HIDE DEF k
  <2>4. /\ n.funcs = kept /\ n.imports = m.imports \ (Func \ kept) /\ n.emitted = {}
        /\ n.body = [g \in Func |-> IF g \in kept THEN Text(m)[g] ELSE {}]
        /\ n.decls = m.decls
    BY <2>1, <2>2, <2>3 DEF k, r, WasmModules
  <2>5. f \in kept
    BY <2>2, <2>4, ModuleConstants DEF Declared, WasmModules
  <2>6. f \in Defined(n) <=> f \in Defined(m)
    BY <2>1, <2>4, <2>5 DEF Defined
  <2>7. QED
    BY <2>4, <2>5, <2>6 DEF Text
<1>3. QED
  BY <1>1, <1>2

(***************************************************************************)
(* For any caller: instrument() inserts nothing outside the scope.         *)
(***************************************************************************)
THEOREM ScopeAlwaysRespected == Spec => ScopeRespected
<1> DEFINE A == SameSession /\ reply'.call = "instrument" =>
                  \A f \in Declared(module_') \cap (Func \ function_scope_) :
                     Text(module_')[f] = Text(module_)[f]
<1>1. ASSUME TypeOK, Next, SameSession, reply'.call = "instrument"
      PROVE  \E ops \in Operations : Instrument(ops)
  <2>1. state_ = "valid" /\ state_' = "valid" /\ process' = "running"
    BY <1>1 DEF SameSession, Valid
  <2>2. ~Exit
    BY <2>1 DEF Exit
  <2>3. ASSUME NEW call, NEW ret, Reply(call, ret) PROVE call = "instrument"
    BY <1>1, <2>3 DEF Reply
  <2>4. ~SetConfigRefused /\ ~WriteBinary /\ ~Clear /\ ~ScopeClear
    BY <1>1, <2>3 DEF SetConfigRefused, SetConfigReply, WriteBinary, Clear, ScopeClear, ScopeCall
  <2>5. ASSUME NEW filename, NEW targetname, NEW feature,
               SetConfig(filename, targetname, feature)
        PROVE  FALSE
    BY <2>1, <2>5 DEF SetConfig
  <2>6. ASSUME NEW call, Refused(call) PROVE FALSE
    BY <2>1, <2>6 DEF Refused
  <2>7. ASSUME NEW p, NEW f, NEW inside, InstrumentFunction(p, f, inside) PROVE FALSE
    BY <2>3, <2>7 DEF InstrumentFunction, MakeOperationsFails, ValidateReply
  <2>8. ASSUME NEW added, AddFunctions(added) PROVE FALSE
    BY <2>3, <2>8 DEF AddFunctions
  <2>9. ASSUME NEW call, NEW d, NEW may, AddDecl(call, d, may) PROVE call = "instrument"
    BY <2>3, <2>9 DEF AddDecl
  <2>10. ASSUME NEW g, AddGlobal(g) \/ AddImportGlobal(g) PROVE FALSE
    BY <2>3, <2>9, <2>10 DEF AddGlobal, AddImportGlobal, AddImport
  <2>11. ASSUME NEW mem, AddMemory(mem) \/ AddImportMemory(mem) PROVE FALSE
    BY <2>3, <2>9, <2>11 DEF AddMemory, AddImportMemory, AddImport
  <2>12. ASSUME NEW s, AddPassiveDateSegment(s) PROVE FALSE
    BY <2>2, <2>9, <2>12 DEF AddPassiveDateSegment
  <2>13. ASSUME NEW e, NEW x, AddExport(e, x) PROVE FALSE
    BY <2>2, <2>3, <2>13 DEF AddExport
  <2>14. ASSUME NEW f, AddImportFunction(f) \/ ScopeAdd(f) \/ ScopeRemove(f) PROVE FALSE
    BY <2>3, <2>14 DEF AddImportFunction, AddImport, ScopeAdd, ScopeRemove, ScopeCall
  <2>15. ASSUME NEW f, NEW p, IterInstructions(f, p) PROVE FALSE
    BY <2>2, <2>3, <2>15 DEF IterInstructions
  <2>16. ~WriteBinaryExits
    BY <2>2 DEF WriteBinaryExits
  <2>17. QED
    BY <1>1, <2>4, <2>5, <2>6, <2>7, <2>8, <2>10, <2>11, <2>12, <2>13, <2>14, <2>15, <2>16
       DEF Next
<1>2. ASSUME TypeOK, NEW ops \in Operations, Instrument(ops),
             NEW f \in Declared(module_') \cap (Func \ function_scope_)
      PROVE  Text(module_')[f] = Text(module_)[f]
  <2>1. module_ \in WasmModules /\ ops \in Seq(Op)
    BY <1>2, InstrumenterConstants DEF TypeOK
  <2>2. CASE MakeOperationsFails("instrument", ops)
    BY <1>2, <2>1, <2>2, TextAfterFailedParse DEF MakeOperationsFails
  <2>3. CASE module_' = Instrumented(Parsed(module_), function_scope_, ops)
    BY <1>2, <2>1, <2>3, InstrumentedFacts
  <2>4. QED
    BY <1>2, <2>2, <2>3 DEF Instrument
<1>3. ASSUME TypeOK, [Next]_vars PROVE [A]_vars
  BY <1>1, <1>2, <1>3 DEF SameSession, Valid, vars
<1>4. QED
  BY <1>3, TypeCorrect, PTL DEF Spec, ScopeRespected

-----------------------------------------------------------------------------
\* The defined functions of m have Stack IR, or m has lost features.
HasStackIR(m) == FEATURE_SPEC \subseteq m.features => Defined(m) \subseteq m.emitted

LEMMA FailedParseHasStackIR ==
  ASSUME NEW m \in WasmModules, NEW n \in AfterFailedParse(m)
  PROVE  HasStackIR(n)
<1>1. n.features = {}
  <2>1. Recovered(m) \in WasmModules /\ Recovered(m).features = {}
    BY RecoveredType, ReparsedType DEF Recovered, WasmModules
  <2>2. CASE n = Recovered(m)
    BY <2>1, <2>2
  <2>3. CASE \E kept \in SUBSET m.funcs : n = [Keep(Recovered(m), kept) EXCEPT !.exports = {}]
    <3>1. PICK kept \in SUBSET m.funcs : n = [Keep(Recovered(m), kept) EXCEPT !.exports = {}]
      BY <2>3
    <3>2. Keep(Recovered(m), kept) \in WasmModules
      BY <2>1, <3>1, KeepType DEF WasmModules
    <3>3. Keep(Recovered(m), kept).features = {}
      BY <2>1 DEF Keep, WasmModules
    <3>4. QED
      BY <3>1, <3>2, <3>3 DEF WasmModules
  <2>4. QED
    BY <2>2, <2>3 DEF AfterFailedParse, PartsOf
<1>2. QED
  BY <1>1, ModuleConstants DEF HasStackIR

LEMMA EmittedHasStackIR ==
  ASSUME NEW m \in WasmModules
  PROVE  HasStackIR(EmitStackIR(m)) /\ EmitStackIR(m).emitted = Defined(EmitStackIR(m))
BY DEF HasStackIR, EmitStackIR, Defined, WasmModules

\* A step that is not a read and keeps the session open
LEMMA StackIRStep ==
  ASSUME TypeOK, HasStackIR(module_), Next, Valid'
  PROVE  HasStackIR(module_')
<1>0. /\ module_ \in WasmModules /\ state_' = "valid" /\ process' = "running"
      /\ Parsed(module_) \in WasmModules
      /\ HasStackIR(Parsed(module_)) /\ Parsed(module_).emitted = Defined(Parsed(module_))
  BY ParsedFacts, ReparsedType, EmittedHasStackIR DEF TypeOK, Valid, Parsed
<1>1. ASSUME UNCHANGED module_ PROVE HasStackIR(module_')
  BY <1>1
<1>2. ASSUME module_' \in AfterFailedParse(module_) PROVE HasStackIR(module_')
  BY <1>0, <1>2, FailedParseHasStackIR
<1>3. ~Exit
  BY <1>0 DEF Exit
<1>4. ASSUME NEW filename \in File \cup {NoName}, NEW targetname \in File \cup {NoName},
             NEW feature, SetConfig(filename, targetname, feature)
      PROVE  HasStackIR(module_')
  <2> DEFINE read == ReadInto(module_, disk[filename], config_.feature)
  <2>1. filename \in DOMAIN disk /\ module_' = EmitStackIR(read)
    BY <1>0, <1>4 DEF SetConfig
  <2>2. read \in WasmModules
    BY <1>0, <2>1, ReadIntoType DEF TypeOK, InstrumentConfig
  <2>3. QED
    BY <2>1, <2>2, EmittedHasStackIR
<1>5. ASSUME NEW ops \in Operations, Instrument(ops) PROVE HasStackIR(module_')
  <2>1. CASE MakeOperationsFails("instrument", ops)
    BY <1>2, <2>1 DEF MakeOperationsFails
  <2>2. CASE module_' = Instrumented(Parsed(module_), function_scope_, ops)
    BY <1>0, <2>2 DEF Instrumented, HasStackIR, Defined, WasmModules
  <2>3. QED
    BY <1>5, <2>1, <2>2 DEF Instrument
<1>6. ASSUME NEW p \in Op, NEW f \in Func, NEW inside \in BOOLEAN,
             InstrumentFunction(p, f, inside)
      PROVE  HasStackIR(module_')
  <2>1. CASE MakeOperationsFails("instrumentFunction", <<p>>)
    BY <1>2, <2>1 DEF MakeOperationsFails
  <2>2. CASE module_' = Parsed(module_)
    BY <1>0, <2>2
  <2>3. CASE module_' = Inserted(Parsed(module_), f, p)
    BY <1>0, <2>3 DEF Inserted, HasStackIR, Defined, WasmModules
  <2>4. QED
    BY <1>6, <2>1, <2>2, <2>3 DEF InstrumentFunction
<1>7. ASSUME NEW added \in Additions, AddFunctions(added) PROVE HasStackIR(module_')
  BY <1>0, <1>1, <1>2, <1>7, WithFunctionsType, EmittedHasStackIR DEF AddFunctions
<1>8. ASSUME NEW call, NEW d \in Decl, NEW may, AddDecl(call, d, may)
      PROVE  HasStackIR(module_')
  BY <1>0, <1>1, <1>8 DEF AddDecl, HasStackIR, Defined, WasmModules
<1>9. ASSUME NEW call, NEW x \in Item, AddImport(call, x) PROVE HasStackIR(module_')
  BY <1>0, <1>9 DEF AddImport, AsImport, HasStackIR, Defined, WasmModules
<1>10. ASSUME NEW g \in Global, AddGlobal(g) \/ AddImportGlobal(g) PROVE HasStackIR(module_')
  BY <1>8, <1>9, <1>10 DEF AddGlobal, AddImportGlobal, Decl, Item
<1>11. ASSUME NEW mem \in Memory, AddMemory(mem) \/ AddImportMemory(mem)
       PROVE  HasStackIR(module_')
  BY <1>1, <1>8, <1>9, <1>11 DEF AddMemory, AddImportMemory, Decl, Item
<1>12. ASSUME NEW s \in Segment, AddPassiveDateSegment(s) PROVE HasStackIR(module_')
  BY <1>3, <1>8, <1>12 DEF AddPassiveDateSegment, Decl
<1>13. ASSUME NEW e \in ExportName, NEW x \in Item, AddExport(e, x) PROVE HasStackIR(module_')
  <2>1. CASE module_' = [module_ EXCEPT !.exports = @ \cup {<<e, x>>}]
    BY <1>0, <2>1 DEF HasStackIR, Defined, WasmModules
  <2>2. QED
    BY <1>1, <1>3, <1>13, <2>1 DEF AddExport
<1>14. ASSUME NEW f \in Func, AddImportFunction(f) \/ ScopeAdd(f) \/ ScopeRemove(f)
       PROVE  HasStackIR(module_')
  BY <1>1, <1>9, <1>14 DEF AddImportFunction, ScopeAdd, ScopeRemove, ScopeCall, Item
<1>15. ASSUME NEW f \in Func, NEW p \in Op, IterInstructions(f, p) PROVE HasStackIR(module_')
  <2>1. module_' = Inserted(module_, f, p)
    BY <1>3, <1>15 DEF IterInstructions
  <2>2. QED
    BY <1>0, <2>1 DEF Inserted, HasStackIR, Defined, WasmModules
<1>16. CASE SetConfigRefused \/ WriteBinary \/ ScopeClear
  BY <1>1, <1>16 DEF SetConfigRefused, WriteBinary, ScopeClear, ScopeCall
<1>17. CASE Clear
  BY <1>0, <1>17 DEF Clear
<1>18. ASSUME NEW call, Refused(call) PROVE HasStackIR(module_')
  BY <1>1, <1>18 DEF Refused
<1>19. ~WriteBinaryExits
  BY <1>3 DEF WriteBinaryExits
<1>20. QED
  BY <1>4, <1>5, <1>6, <1>7, <1>10, <1>11, <1>12, <1>13, <1>14, <1>15, <1>16, <1>17, <1>18,
     <1>19 DEF Next

\* A session is opened by a read, which emits Stack IR.
LEMMA StackIROnOpening ==
  ASSUME TypeOK, ~Valid, Next, Valid'
  PROVE  HasStackIR(module_')
<1>0. module_ \in WasmModules /\ state_' = "valid" /\ process' = "running"
  BY DEF TypeOK, Valid
<1>1. ~Exit /\ ~InValid
  BY <1>0 DEF Exit, InValid, Valid
<1>2. ASSUME NEW filename \in File \cup {NoName}, NEW targetname \in File \cup {NoName},
             NEW feature, SetConfig(filename, targetname, feature)
      PROVE  HasStackIR(module_')
  <2> DEFINE read == ReadInto(module_, disk[filename], config_.feature)
  <2>1. filename \in DOMAIN disk /\ module_' = EmitStackIR(read)
    BY <1>0, <1>2 DEF SetConfig
  <2>2. read \in WasmModules
    BY <1>0, <2>1, ReadIntoType DEF TypeOK, InstrumentConfig
  <2>3. QED
    BY <2>1, <2>2, EmittedHasStackIR
<1>3. ~SetConfigRefused
  BY <1>0 DEF SetConfigRefused, Valid
<1>4. \A call \in GatedCall : ~Refused(call)
  BY <1>0 DEF Refused, OnModule, Valid
<1>5. \A ops \in Operations : ~Instrument(ops)
  BY <1>1 DEF Instrument
<1>6. \A p \in Op, f \in Func, inside \in BOOLEAN : ~InstrumentFunction(p, f, inside)
  BY <1>1 DEF InstrumentFunction
<1>7. \A added \in Additions : ~AddFunctions(added)
  BY <1>1 DEF AddFunctions
<1>8. \A g \in Global : ~AddGlobal(g) /\ ~AddImportGlobal(g)
  BY <1>1 DEF AddGlobal, AddImportGlobal, AddImport
<1>9. \A mem \in Memory : ~AddMemory(mem) /\ ~AddImportMemory(mem)
  BY <1>1 DEF AddMemory, AddImportMemory, AddImport
<1>10. \A s \in Segment : ~AddPassiveDateSegment(s)
  BY <1>1 DEF AddPassiveDateSegment
<1>11. \A e \in ExportName, x \in Item : ~AddExport(e, x)
  BY <1>1 DEF AddExport
<1>12. \A f \in Func : ~AddImportFunction(f) /\ ~ScopeAdd(f) /\ ~ScopeRemove(f)
  BY <1>0, <1>1 DEF AddImportFunction, AddImport, ScopeAdd, ScopeRemove, ScopeCall, Valid
<1>13. \A f \in Func, p \in Op : ~IterInstructions(f, p)
  BY <1>0, <1>1 DEF IterInstructions, OnModule, Valid
<1>14. ~WriteBinary /\ ~Clear /\ ~ScopeClear
  BY <1>0 DEF WriteBinary, Clear, ScopeClear, ScopeCall, Valid
<1>15. ~WriteBinaryExits
  BY <1>1 DEF WriteBinaryExits
<1>16. QED
  BY <1>2, <1>3, <1>4, <1>5, <1>6, <1>7, <1>8, <1>9, <1>10, <1>11, <1>12, <1>13, <1>14, <1>15
     DEF Next

(***************************************************************************)
(* For any caller: in the state valid a defined function lacks Stack IR    *)
(* only when a failed parse has dropped the module's features.             *)
(***************************************************************************)
THEOREM StackIRAlwaysUnlessRecovered == Spec => []StackIRUnlessRecovered
<1> DEFINE Inv == TypeOK /\ (Valid => HasStackIR(module_))
<1>1. Inv => StackIRUnlessRecovered
  BY DEF StackIRUnlessRecovered, HasStackIR
<1>2. Init => Inv
  BY TypeCorrectInit DEF Init, Valid
<1>3. Inv /\ [Next]_vars => Inv'
  <2> SUFFICES ASSUME Inv, [Next]_vars PROVE Inv'
    OBVIOUS
  <2>1. TypeOK'
    BY TypeCorrectStep DEF TypeOK, vars
  <2>2. ASSUME Next, Valid' PROVE HasStackIR(module_')
    BY <2>2, StackIRStep, StackIROnOpening
  <2>3. ASSUME UNCHANGED vars, Valid' PROVE HasStackIR(module_')
    BY <2>3 DEF vars, Valid
  <2>4. HasStackIR(module_') => HasStackIR(module_)'
    BY DEF HasStackIR
  <2>5. QED
    BY <2>1, <2>2, <2>3, <2>4
<1>4. QED
  BY <1>1, <1>2, <1>3, PTL DEF Spec

-----------------------------------------------------------------------------
(***************************************************************************)
(* One memory.  addMemory() asks for no memory at all, addImportMemory()   *)
(* for one of the same name, and every other call leaves the memories      *)
(* alone; so no order of calls makes a second one, given that no file that *)
(* is there at the start has two.                                          *)
(***************************************************************************)
MemoriesOf(m) == m.decls \cap Memory

AtMostOne(m) == \A x, y \in MemoriesOf(m) : x = y

MemoryInv ==
  /\ TypeOK
  /\ config_.feature = FEATURE_SPEC
  /\ AtMostOne(module_)
  /\ \A n \in DOMAIN disk : AtMostOne(disk[n])

\* Printing, parsing, failing to parse and inserting leave the declarations.
LEMMA SameDeclarations ==
  ASSUME NEW m \in WasmModules
  PROVE  /\ Parsed(m).decls = m.decls
         /\ \A n \in AfterFailedParse(m) : n.decls = m.decls
         /\ \A scope, ops : Instrumented(Parsed(m), scope, ops).decls = m.decls
         /\ \A f, p : Inserted(Parsed(m), f, p).decls = m.decls
         /\ \A f, p : Inserted(m, f, p).decls = m.decls
         /\ \A added : EmitStackIR(WithFunctions(m, added)).decls = m.decls
         /\ WriteImage(m).decls = m.decls
<1>1. Parsed(m) \in WasmModules /\ Parsed(m).decls = m.decls
  BY ParsedFacts
<1>2. Recovered(m) \in WasmModules /\ Recovered(m).decls = m.decls
  BY RecoveredType DEF Recovered, Reparsed, WasmModules
<1>3. ASSUME NEW n \in AfterFailedParse(m) PROVE n.decls = m.decls
  <2>1. CASE n = Recovered(m)
    BY <1>2, <2>1
  <2>2. ASSUME NEW kept, n = [Keep(Recovered(m), kept) EXCEPT !.exports = {}]
        PROVE  n.decls = m.decls
    BY <1>2, <2>2 DEF Keep, WasmModules
  <2>3. QED
    BY <2>1, <2>2 DEF AfterFailedParse, PartsOf
<1>4. ASSUME NEW n \in WasmModules PROVE /\ \A scope, ops : Instrumented(n, scope, ops).decls = n.decls
                                        /\ \A f, p : Inserted(n, f, p).decls = n.decls
  BY DEF Instrumented, Inserted, WasmModules
<1>5. \A added : EmitStackIR(WithFunctions(m, added)).decls = m.decls
  BY DEF EmitStackIR, WithFunctions, Reparsed, WasmModules
<1>6. WriteImage(m).decls = m.decls
  BY DEF WriteImage, Reparsed, WasmModules
<1>7. QED
  BY <1>1, <1>3, <1>4, <1>5, <1>6

\* What is read of a file has no other memories than the file.
LEMMA ReadDeclarations ==
  ASSUME NEW b \in WasmModules, NEW feature
  PROVE  /\ ReadInto(NewModule, b, feature).decls = b.decls
         /\ EmitStackIR(ReadInto(NewModule, b, feature)).decls = b.decls
         /\ \A n \in PartsRead(NewModule, b, feature) : n.decls = b.decls
BY DEF ReadInto, NewModule, EmitStackIR, PartsRead, Keep, WasmModules

LEMMA MemoryInvKept ==
  ASSUME MemoryInv, TypeOK', config_' = config_ \/ config_'.feature = config_.feature,
         disk' = disk, MemoriesOf(module_') \subseteq MemoriesOf(module_)
  PROVE  MemoryInv'
BY DEF MemoryInv, AtMostOne, MemoriesOf

LEMMA SetConfigKeepsMemory ==
  ASSUME Careful, CarefulInv, MemoryInv, TypeOK', NEW filename, NEW targetname, NEW feature,
         SetConfig(filename, targetname, feature)
  PROVE  MemoryInv'
<1> DEFINE b == disk[filename]
<1>1. disk' = disk /\ module_ = NewModule /\ config_'.feature = config_.feature
  BY DEF SetConfig, CarefulInv, SessionInv, MemoryInv, TypeOK, InstrumentConfig
<1>2. CASE module_' = module_
  BY <1>1, <1>2, MemoryInvKept
<1>3. CASE module_' # module_
  <2>1. /\ filename \in DOMAIN disk
        /\ \/ module_' = ReadInto(module_, b, config_.feature)
           \/ module_' \in PartsRead(module_, b, config_.feature)
           \/ module_' = EmitStackIR(ReadInto(module_, b, config_.feature))
    BY <1>3 DEF SetConfig
  <2>2. b \in WasmModules /\ AtMostOne(b)
    BY <2>1 DEF MemoryInv, TypeOK
  <2>3. module_'.decls = b.decls
    BY <1>1, <2>1, <2>2, ReadDeclarations
  <2>4. AtMostOne(module_')
    BY <2>2, <2>3 DEF AtMostOne, MemoriesOf
  <2>5. QED
    BY <1>1, <2>4 DEF MemoryInv, AtMostOne, MemoriesOf
<1>4. QED
  BY <1>2, <1>3

\* A call that declares something that is not a memory
LEMMA OtherDeclarations ==
  ASSUME MemoryInv, NEW d \in Func \cup Global \cup Segment,
         module_' = [module_ EXCEPT !.decls = @ \cup {d}] \/ module_' = AsImport(module_, d)
  PROVE  MemoriesOf(module_') \subseteq MemoriesOf(module_)
<1>1. d \notin Memory /\ module_ \in WasmModules
  BY ModuleConstants DEF MemoryInv, TypeOK, Decl
<1>2. module_'.decls \subseteq module_.decls \cup {d}
  BY <1>1 DEF AsImport, WasmModules
<1>3. QED
  BY <1>1, <1>2 DEF MemoriesOf

LEMMA MemoryCalls ==
  ASSUME MemoryInv, TypeOK', MultiMemory \notin FEATURE_SPEC, NEW mem \in Memory,
         AddMemory(mem) \/ AddImportMemory(mem)
  PROVE  MemoryInv'
<1>1. module_ \in WasmModules /\ mem \notin Func /\ MultiMemory \notin config_.feature
  BY ModuleConstants DEF MemoryInv, TypeOK, Decl
<1>2. UNCHANGED <<config_, disk>>
  BY DEF AddMemory, AddImportMemory, AddImport, OnModule
<1>3. CASE module_' = module_
  BY <1>2, <1>3, MemoryInvKept
<1>4. CASE MemoriesOf(module_) = {} /\ module_' = [module_ EXCEPT !.decls = @ \cup {mem}]
  <2>1. MemoriesOf(module_') \subseteq {mem}
    BY <1>1, <1>4 DEF MemoriesOf, WasmModules
  <2>2. QED
    BY <1>2, <2>1 DEF MemoryInv, AtMostOne
<1>5. CASE mem \in module_.decls /\ module_' = AsImport(module_, mem)
  <2>1. module_'.decls = module_.decls
    BY <1>1, <1>5 DEF AsImport, WasmModules
  <2>2. QED
    BY <1>2, <2>1, MemoryInvKept DEF MemoriesOf
<1>6. QED
  BY <1>1, <1>3, <1>4, <1>5 DEF AddMemory, AddDecl, AddImportMemory, AddImport, MemoriesOf

LEMMA MemoryStep ==
  ASSUME Careful, CarefulInv, MemoryInv, MultiMemory \notin FEATURE_SPEC, Next
  PROVE  MemoryInv'
<1>1. TypeOK' /\ module_ \in WasmModules
  BY TypeCorrectStep DEF MemoryInv, TypeOK
<1>2. CASE SetConfigCalled
  BY <1>1, <1>2, SetConfigKeepsMemory DEF SetConfigCalled
<1>3. ASSUME OnModule, module_'.decls = module_.decls PROVE MemoryInv'
  BY <1>1, <1>3, MemoryInvKept DEF OnModule, MemoriesOf
<1>4. CASE Exit
  BY <1>1, <1>4, MemoryInvKept DEF Exit
<1>5. CASE SetConfigRefused \/ \E call \in GatedCall : Refused(call)
  BY <1>1, <1>5, MemoryInvKept DEF SetConfigRefused, Refused, OnModule
<1>6. ASSUME NEW ops \in Operations, Instrument(ops) PROVE MemoryInv'
  <2>1. module_'.decls = module_.decls
    BY <1>1, <1>6, SameDeclarations DEF Instrument, MakeOperationsFails
  <2>2. QED
    BY <1>3, <1>6, <2>1 DEF Instrument
<1>7. ASSUME NEW p \in Op, NEW f \in Func, NEW inside \in BOOLEAN, InstrumentFunction(p, f, inside)
      PROVE  MemoryInv'
  <2>1. module_'.decls = module_.decls
    BY <1>1, <1>7, SameDeclarations DEF InstrumentFunction, MakeOperationsFails
  <2>2. QED
    BY <1>3, <1>7, <2>1 DEF InstrumentFunction
<1>8. ASSUME NEW added \in Additions, AddFunctions(added) PROVE MemoryInv'
  <2>1. module_'.decls = module_.decls
    BY <1>1, <1>8, SameDeclarations DEF AddFunctions
  <2>2. QED
    BY <1>3, <1>8, <2>1 DEF AddFunctions
<1>9. ASSUME NEW g \in Global, AddGlobal(g) \/ AddImportGlobal(g) PROVE MemoryInv'
  <2>1. MemoriesOf(module_') \subseteq MemoriesOf(module_)
    <3>1. CASE module_' = module_
      BY <3>1
    <3>2. CASE module_' = [module_ EXCEPT !.decls = @ \cup {g}] \/ module_' = AsImport(module_, g)
      BY <3>2, OtherDeclarations
    <3>3. QED
      BY <1>9, <3>1, <3>2 DEF AddGlobal, AddDecl, AddImportGlobal, AddImport
  <2>2. UNCHANGED <<config_, disk>>
    BY <1>9 DEF AddGlobal, AddImportGlobal, AddImport, OnModule
  <2>3. QED
    BY <1>1, <2>1, <2>2, MemoryInvKept
<1>10. ASSUME NEW s \in Segment, AddPassiveDateSegment(s), ~Exit PROVE MemoryInv'
  <2>1. MemoriesOf(module_') \subseteq MemoriesOf(module_)
    BY <1>10, OtherDeclarations DEF AddPassiveDateSegment, AddDecl
  <2>2. UNCHANGED <<config_, disk>>
    BY <1>10 DEF AddPassiveDateSegment, OnModule
  <2>3. QED
    BY <1>1, <2>1, <2>2, MemoryInvKept
<1>11. ASSUME NEW e \in ExportName, NEW x \in Item, AddExport(e, x), ~Exit PROVE MemoryInv'
  <2>1. module_'.decls = module_.decls
    BY <1>1, <1>11 DEF AddExport, WasmModules
  <2>2. QED
    BY <1>3, <1>11, <2>1 DEF AddExport
<1>12. ASSUME NEW f \in Func, AddImportFunction(f) PROVE MemoryInv'
  <2>1. MemoriesOf(module_') \subseteq MemoriesOf(module_)
    BY <1>12, OtherDeclarations DEF AddImportFunction, AddImport
  <2>2. QED
    BY <1>1, <1>12, <2>1, MemoryInvKept DEF AddImportFunction, AddImport, OnModule
<1>13. ASSUME NEW scope, NEW ret, ScopeCall(scope, ret) PROVE MemoryInv'
  BY <1>1, <1>13, MemoryInvKept DEF ScopeCall
<1>14. ASSUME NEW f \in Func, NEW p \in Op, IterInstructions(f, p), ~Exit PROVE MemoryInv'
  <2>1. module_'.decls = module_.decls /\ OnModule
    BY <1>1, <1>14, SameDeclarations DEF IterInstructions
  <2>2. QED
    BY <1>3, <2>1
<1>15. CASE WriteBinary
  <2>1. UNCHANGED <<config_, module_>>
    BY <1>15 DEF WriteBinary
  <2>2. ASSUME NEW n \in DOMAIN disk' PROVE AtMostOne(disk'[n])
    <3>1. CASE n \in DOMAIN disk /\ disk'[n] = disk[n]
      BY <3>1 DEF MemoryInv
    <3>2. CASE disk'[n] = WriteImage(module_)
      BY <1>1, <3>2, SameDeclarations DEF MemoryInv, AtMostOne, MemoriesOf
    <3>3. QED
      BY <1>15, <3>1, <3>2 DEF WriteBinary, Output
  <2>3. QED
    BY <1>1, <2>1, <2>2 DEF MemoryInv, AtMostOne, MemoriesOf
<1>16. CASE Clear
  <2>1. MemoriesOf(module_') = {}
    BY <1>16 DEF Clear, NewModule, MemoriesOf
  <2>2. QED
    BY <1>1, <1>16, <2>1, MemoryInvKept DEF Clear
<1>17. CASE \E f \in Func : ScopeAdd(f) \/ ScopeRemove(f)
  BY <1>13, <1>17 DEF ScopeAdd, ScopeRemove
<1>18. CASE ScopeClear
  BY <1>13, <1>18 DEF ScopeClear
<1>19. CASE \E mem \in Memory : AddMemory(mem) \/ AddImportMemory(mem)
  BY <1>1, <1>19, MemoryCalls
<1>20. WriteBinaryExits => Exit
  BY DEF WriteBinaryExits
<1>21. QED
  BY <1>2, <1>4, <1>5, <1>6, <1>7, <1>8, <1>9, <1>10, <1>11, <1>12, <1>14, <1>15, <1>16, <1>17,
     <1>18, <1>19, <1>20 DEF Next, SetConfigCalled

(***************************************************************************)
(* For a careful caller and, without the multi-memory feature, files with  *)
(* at most one memory each: no order of addMemory(), addImportMemory(),    *)
(* failed calls, writing and reading back makes a second memory.           *)
(***************************************************************************)
THEOREM AlwaysOneMemory ==
  ASSUME Careful,
         MultiMemory \notin FEATURE_SPEC => \A n \in DOMAIN InitialDisk : AtMostOne(InitialDisk[n])
  PROVE  Spec => []OneMemory
<1>1. CASE MultiMemory \in FEATURE_SPEC
  <2>1. CarefulInv => OneMemory
    BY <1>1 DEF CarefulInv, SessionInv, OneMemory
  <2>2. QED
    BY <2>1, CarefulInvariant, PTL
<1>2. CASE MultiMemory \notin FEATURE_SPEC
  <2>1. Init => MemoryInv
    BY <1>2, TypeCorrectInit DEF Init, MemoryInv, AtMostOne, MemoriesOf, NewModule
  <2>2. ASSUME MemoryInv, UNCHANGED vars PROVE MemoryInv'
    BY <2>2 DEF vars, MemoryInv, TypeOK, AtMostOne, MemoriesOf
  <2>3. MemoryInv => OneMemory
    BY DEF MemoryInv, OneMemory, AtMostOne, MemoriesOf
  <2>4. ASSUME CarefulInv, MemoryInv, Next PROVE MemoryInv'
    BY <1>2, <2>4, MemoryStep
  <2>5. QED
    BY <2>1, <2>2, <2>3, <2>4, CarefulInvariant, PTL DEF Spec
<1>3. QED
  BY <1>1, <1>2
=============================================================================
