SPECIFICATION Spec
CHECK_DEADLOCK FALSE
CONSTRAINT OnlyAppWritten
CONSTANTS
  Func <- MCFunc
  Global = {}
  Memory <- MCMemory
  Segment <- MCSegment
  ExportName <- MCExportName
  Feature <- MCFeature
  FEATURE_SPEC <- MCFeatureSpec
  BulkMemory = "bulk"
  Kind <- MCKind
  Snippet <- MCSnippet
  Op <- MCOp
  KindsOf <- MCKindsOf
  Targets <- MCTargets
  Needs <- MCNeeds
  Fits <- MCFits
  Parses <- MCParses
  HelperParses <- MCOp
  File <- MCFile
  NoName = ""
  InitialDisk <- MCInitialDisk
  Body <- MCBody
  BodyName <- MCBodyName
  Additions = {}
  Operations <- MCOperations
  MultiMemory = "multimemory"
  Careful = TRUE
INVARIANTS
  FeaturesAsConfigured
