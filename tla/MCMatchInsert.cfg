SPECIFICATION Spec
CONSTANTS
  Inst <- MCAllInst
  Hole = Hole
  Const0 <- konst
  NullOpt = "null"
  ControlFlow <- MCControlFlow
  Func <- MCFunc
  Operation <- MCOperation
  scope <- MCScope
  defined <- MCDefined
  Inputs <- MCInputs
  OperationLists <- MCOperationLists
INVARIANTS
  TypeOK
  WovenOnce
PROPERTIES
  Weaves
  Returns
