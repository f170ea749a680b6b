SPECIFICATION Spec
CONSTANTS
  Types <- MCTypes
  Options <- MCOptions
  NameRoom = 2
  Room = 6
INVARIANTS
  TypeOK
  WrongIsExplained
  FailureIsExplained
PROPERTIES
  OnlyWorkingDirectory
  Ends
