SPECIFICATION Spec
CONSTANTS
  Func <- MCFunc
  None = "none"
  Programs <- MCPrograms
  MaxDepth = 5
  LoadData = "__instr_load_data"
  GetCwdFd = "__instr_get_cwd_fd"
  Room = 9
INVARIANTS
  TypeOK
  ShowsCallStack
  FailsForImportsOnly
  CrashIsExplained
PROPERTY
  Transparent
