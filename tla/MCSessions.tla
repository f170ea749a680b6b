----------------------------- MODULE MCSessions -----------------------------
(***************************************************************************)
(* An instance of Instrumenter about using one instrumenter again and      *)
(* again.  It reads "app", writes over it and reads it again; it also      *)
(* tries a file the reader throws on, a file with no function and a name   *)
(* with no file.  Only "app" is ever written to.                           *)
(***************************************************************************)
EXTENDS Instrumenter

MCFunc == {"main"}
MCMemory == {"m0", "m1"}
MCSegment == {"s"}
MCExportName == {"x"}
MCFeature == {"bulk", "multimemory"}
MCFeatureSpec == {"bulk"}
MCKind == {"call"}
MCOp == {"trace"}
MCSnippet == {"trace", "mainCode", "broken"}
MCKindsOf == [trace |-> {}, mainCode |-> {"call"}, broken |-> {}]
MCTargets == [trace |-> {"call"}]
MCNeeds == [s \in MCSnippet |-> {}]
MCFits == [trace |-> {"main"}, mainCode |-> {"main"}, broken |-> {}]
MCParses == MCFits
MCOperations == {<<"trace">>}

Binary(funcs, code, decls) ==
  [ funcs |-> funcs, imports |-> {}, body |-> [main |-> code],
    emitted |-> {}, stackIR |-> [main |-> {}],
    decls |-> decls, exports |-> {}, features |-> {}, uses |-> {} ]

MCInitialDisk ==
  [ app    |-> Binary({"main"}, {"mainCode"}, {}),
    broken |-> Binary({"main"}, {"broken"}, {"m0"}),
    empty  |-> Binary({}, {}, {"m1"}) ]

MCFile == DOMAIN MCInitialDisk \cup {"missing"}

MCBody == {}
MCBodyName == [b \in MCBody |-> "main"]

OnlyAppWritten ==
  /\ config_.targetname \in {"app", NoName}
  /\ \A n \in {"broken", "empty"} : disk[n] = InitialDisk[n]
=============================================================================
