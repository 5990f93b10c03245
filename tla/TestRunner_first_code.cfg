SPECIFICATION Safety
CONSTANTS
  Found <- PoolFound
  Configs <- PoolConfigs
  PPUs = {1}
  Parallel = 1
  Codes = {0, 2}
INVARIANT FirstErrorCodeReturned
CONSTANTS
  Exe <- MCExe
  BaseName <- MCName
  FileName <- MCName
  Arch = {"ppu001", "ppu0015"}
  NoArch = NoArch
  Hang = Hang
  SpawnError = SpawnError
  Unset = Unset
CHECK_DEADLOCK FALSE
