SPECIFICATION Spec
CHECK_DEADLOCK FALSE
CONSTRAINT OneSession
CONSTANTS
  Func <- MCFunc
  Global = {}
  Memory = {}
  Segment = {}
  ExportName <- MCExportName
  Feature <- MCFeature
  FEATURE_SPEC <- MCFeatureSpec
  BulkMemory = "bulk"
  Kind <- MCKind
  Snippet <- MCSnippet
  Op <- MCOp
  KindsOf <- MCKindsOf
  Targets <- MCTargets
  Needs <- MCNeeds
  Fits <- MCFits
  Parses <- MCParses
  HelperParses <- MCHelperParses
  File <- MCFile
  NoName = ""
  InitialDisk <- MCInitialDisk
  Body <- MCBody
  BodyName <- MCBodyName
  Additions <- MCAdditions
  Operations <- MCOperations
  MultiMemory = "multimemory"
  Careful = FALSE
INVARIANTS
  TypeOK
  StackIRUnlessRecovered
PROPERTIES
  ScopeRespected
  LossOnlyFromBrokenText
