SPECIFICATION MCSpec
CONSTANTS
  WarpSize = 2 WideWarp = 4
  GroupBlock = 8 TileSize = 4
  SortBlock = 8 Values = {0, 1}
  Capacity = 4 MergeSizes = {2, 4, 8} Keys = {0, 1}
  ScanBlock = 4 ScanSizes = {8, 10, 16}
  CompactBlock = 4 CompactN = 5 FlagsN = 6
  Labels = {"a", "b"} Elements = {5}
  Reals <- MCReals FltMax = 3 Rows = {3, 6} Band = {1, 2}
  AtomicIncLimit = 3 AtomicDecLimit = 2
  Programs <- MCPrograms
INVARIANTS
  TypeOK
  NoRace
  Reduced
  Sorted
  ScannedCorrectly
  SerialLoads
PROPERTIES
  Terminates
CHECK_DEADLOCK FALSE
