SPECIFICATION Spec
CONSTANTS
  Found <- PoolFound
  Configs <- PoolConfigs
  PPUs = {0, 1, 2}
  Parallel = 2
  Codes <- PoolCodes
INVARIANTS TypeOK EveryRunCountedOnce ExitReflectsRuns OutputsSeparate
PROPERTY Terminates
CONSTANTS
  Exe <- MCExe
  BaseName <- MCName
  FileName <- MCName
  Arch = {"ppu001", "ppu0015"}
  NoArch = NoArch
  Hang = Hang
  SpawnError = SpawnError
  Unset = Unset
CHECK_DEADLOCK FALSE
