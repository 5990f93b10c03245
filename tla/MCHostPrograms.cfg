SPECIFICATION Spec
CONSTANTS None = None Unexposed = Unexposed
  NumContexts = 2 NumWorkers = 4
  NumDevices = 3 Granularities = {2, 4} Bytes = 5 PerDevice = 3
  NumTasks = 4 NumThreads = 2
  Programs <- MCPrograms
  Directories <- MCDirectories BatchSizes = {1, 2, 3}
  OptionName <- MCOptionName Letters <- MCLetters Lower <- MCLower
  Lines <- MCLines Systems <- MCSystems
INVARIANTS TypeOK
  ResourcesOutliveTheirUse NoForeignAccess SuccessIsEarned
  BuffersWhole NothingLeaks
  SerialAccess NoGarbageRead EndsQuiescent
  BestAllowedDevice ModuleFitsDevice
PROPERTY Terminates
CHECK_DEADLOCK FALSE
