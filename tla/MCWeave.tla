------------------------------ MODULE MCWeave ------------------------------
(***************************************************************************)
(* An instance of Instrumenter about inserting code.  The input has one    *)
(* function "main"; the caller may add "hook", as a function or as an      *)
(* import, and the global "g" that fragments and "hook" refer to.  One     *)
(* session: nothing is explored after the first write.                     *)
(***************************************************************************)
EXTENDS Instrumenter

MCFunc == {"main", "hook"}
MCGlobal == {"g"}
MCSegment == {"s"}
MCExportName == {"_start"}
MCFeature == {"bulk", "signext", "multimemory"}
MCFeatureSpec == {"bulk", "signext"}
MCKind == {"call", "const"}
MCOp == {"traceCall", "countConst", "illTyped"}
MCBody == {"hookBody", "badBody", "mainAgain"}
MCSnippet == MCOp \cup MCBody \cup {"mainCode"}

\* An empty set for every snippet but the ones given
Sets(f) == [s \in MCSnippet |-> IF s \in DOMAIN f THEN f[s] ELSE {}]

MCKindsOf == Sets([mainCode   |-> {"call", "const"},
                   traceCall  |-> {"call"},
                   countConst |-> {"const"},
                   hookBody   |-> {"const"}])

\* Both "const" operations match the same instructions: the first one is taken.
MCTargets == [traceCall |-> {"call"}, countConst |-> {"const"}, illTyped |-> {"const"}]

\* "g" is needed where the instance has it.
MCNeeds == Sets([traceCall  |-> {"hook"},
                 countConst |-> {"g"} \cap Global,
                 hookBody   |-> {"g"} \cap Global])

\* In "hook", countConst leaves the stack unbalanced and traceCall has the wrong
\* types; badBody is no function.
MCFits == Sets([mainCode   |-> {"main"},
                traceCall  |-> {"main"},
                countConst |-> {"main"},
                hookBody   |-> {"hook"}])

MCParses == [MCFits EXCEPT !.traceCall = {"main", "hook"}]

MCHelperParses == {"traceCall", "countConst"}

MCBodyName == [hookBody |-> "hook", badBody |-> "hook", mainAgain |-> "main"]

\* A good text, one that does not parse, and one that declares another name
\* than the one it is added under
MCAdditions == {{[name |-> "hook", body |-> b]} : b \in MCBody}

MCOperations == {<<"traceCall">>, <<"countConst", "traceCall">>, <<"illTyped">>}

MCInitialDisk ==
  [app |-> [ funcs    |-> {"main"},
             imports  |-> {},
             body     |-> [main |-> {"mainCode"}, hook |-> {}],
             emitted  |-> {},
             stackIR  |-> [main |-> {}, hook |-> {}],
             decls    |-> {},
             exports  |-> {<<"_start", "main">>},
             features |-> {},
             uses     |-> {"signext"} ]]

MCFile == {"app"}

OneSession == disk = InitialDisk
=============================================================================
