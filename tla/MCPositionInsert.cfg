SPECIFICATION Spec
CONSTANTS
  Inst <- MCInst
  Hole = Hole
  Const0 <- konst
  NullOpt = "null"
  ControlFlow = {}
  Func <- MCFunc
  Operation <- MCOperation
  Inputs <- MCInputs
  Positions <- MCPositions
INVARIANTS
  TypeOK
  InsertedOnce
