SPECIFICATION Spec
CONSTANTS
  Space = " "
  WasmSuffix = ".wasm"
  DirOption = "--dir=."
  Text <- MCText
  NamePiece <- MCNamePiece
  Programs <- TheUsual
  Function <- MCFunction
  Listed <- MCListed
  Size <- MCSize
  SizeAgain <- MCSizeAgain
  Number <- Lines
  Commands <- TheDocumented
  infile <- fib
  Outfiles <- MCOutfiles
  Careless = {"word"}
  MaxInspections = 3
PROPERTIES
  ListensAgain
