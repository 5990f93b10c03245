SPECIFICATION Spec
INVARIANT VerdictsTrue
CONSTANTS
  Text <- MCText
  Empty = ""
  Blank = {"", "  "}
  Safe = {"a", "b", "f", ".."}
  Climbing = {".."}
  Pieces <- MCPieces
  AssetsOf <- MCAssets
  Declares <- MCDeclares
  Configs <- OneCase
  Outputs <- LongOutputs
  Codes = {0, 1}
  Failure = "FAILED"
  PipeSize = 1
  Hang = Hang
CHECK_DEADLOCK FALSE
