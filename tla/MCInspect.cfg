SPECIFICATION Spec
CONSTANTS
  Space = " "
  WasmSuffix = ".wasm"
  DirOption = "--dir=."
  Text <- MCText
  NamePiece <- MCNamePiece
  Programs <- MCPrograms
  Function <- MCFunction
  Listed <- MCListed
  Size <- MCSize
  SizeAgain <- MCSizeAgain
  Number <- Lines
  Commands <- MCCommands
  infile <- fib
  Outfiles <- MCOutfiles
  Careless = {"word", "eof"}
  MaxInspections = 3
INVARIANTS
  TypeOK
  RunsOutfile
  StaleIsExplained
  AbortIsExplained
  HelpersCallWASI
