SPECIFICATION Spec
INVARIANTS TypeOK EveryCasePassed CountsAgree
PROPERTY Terminates
CONSTANTS
  Text <- MCText
  Empty = ""
  Blank = {"", "  "}
  Safe = {"a", "b", "f", ".."}
  Climbing = {".."}
  Pieces <- MCPieces
  AssetsOf <- MCAssets
  Declares <- MCDeclares
  Configs <- MCConfigs
  Outputs <- MCOutputs
  Codes = {0, 1}
  Failure = "FAILED"
  PipeSize = 1
  Hang = Hang
CHECK_DEADLOCK FALSE
