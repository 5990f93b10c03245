---------------------------- MODULE KernelMachines ----------------------------
(***************************************************************************)
(* The kernels that work on shared memory between barriers, or within a    *)
(* warp: a behaviour runs one sample, on the machine of DeviceKernel.      *)
(* What the kernels are given, and the sizes they are built with, are      *)
(* CONSTANTS.                                                              *)
(***************************************************************************)
EXTENDS Integers

CONSTANTS
  WarpSize,                        \* of the kernels that go through barriers warp by warp
  WideWarp,                        \* of those whose threads work within a warp
  GroupBlock, TileSize,            \* cooperative_sync
  SortBlock, Values,               \* warp_bitonic_sort
  Capacity, MergeSizes, Keys,      \* block_sort_merge
  ScanBlock, ScanSizes,            \* scan
  CompactBlock, CompactN, FlagsN,  \* stream_compact
  Labels, Elements, Reals, FltMax, Rows, Band,
  AtomicIncLimit, AtomicDecLimit,  \* the kernels of WarpOps
  Programs                         \* those of BlockProgram

VARIABLES sample, host, gmem, smem, reg, round

vars == << sample, host, gmem, smem, reg, round >>

Groups  == INSTANCE GroupReduce WITH BlockSize <- GroupBlock
Bitonic == INSTANCE BitonicBlockSort WITH WarpSize <- WideWarp, BlockSize <- SortBlock
Merge   == INSTANCE BlockSortMerge WITH Sizes <- MergeSizes
Scan    == INSTANCE BlellochScan WITH BlockSize <- ScanBlock, Sizes <- ScanSizes
Compact == INSTANCE StreamCompact WITH N <- CompactN, Block <- CompactBlock
TwoPass == INSTANCE TwoPassScan WITH N <- FlagsN, Block <- CompactBlock
Block   == INSTANCE BlockProgram
Warp    == INSTANCE WarpOps WITH WarpSize <- WideWarp, BlockSize <- SortBlock

ASSUME KernelAssumption ==
  /\ Groups!SizesAssumption /\ Bitonic!SizesAssumption
  /\ Merge!SizesAssumption /\ Scan!SizesAssumption
  /\ Compact!SizesAssumption /\ TwoPass!SizesAssumption
  /\ Warp!SizesAssumption

\* The programs that enforce the order their loads rely on.
OrderedPrograms == { k \in DOMAIN Programs : Block!WellOrdered(Programs[k]) }

Init ==
  \/ sample = "cooperative_sync" /\ Groups!Init
  \/ sample = "warp_bitonic_sort" /\ Bitonic!Init
  \/ sample = "block_sort_merge" /\ Merge!Init
  \/ sample = "scan" /\ Scan!Init
  \/ sample = "stream_compact" /\ Compact!Init
  \/ sample = "stream_compact, two passes" /\ TwoPass!Init
  \/ sample = "a block's program" /\ Block!Init
  \/ sample = "a warp's operations" /\ Warp!Init

Next ==
  /\ \/ sample = "cooperative_sync" /\ Groups!Next
     \/ sample = "warp_bitonic_sort" /\ Bitonic!Next
     \/ sample = "block_sort_merge" /\ Merge!Next
     \/ sample = "scan" /\ Scan!Next
     \/ sample = "stream_compact" /\ Compact!Next
     \/ sample = "stream_compact, two passes" /\ TwoPass!Next
     \/ sample = "a block's program" /\ Block!Next
     \/ sample = "a warp's operations" /\ Warp!Next
  /\ UNCHANGED sample

\* The device runs a kernel's warps, and the host is not stopped.
Spec == Init /\ [][Next]_vars /\ WF_vars(Next)
-------------------------------------------------------------------------------
\* The types of the sample that runs; a block's program is one that enforces its
\* order, as the theorems about them assume.
TypeOK ==
  /\ sample = "cooperative_sync"  => Groups!TypeOK
  /\ sample = "warp_bitonic_sort" => Bitonic!TypeOK
  /\ sample = "block_sort_merge"  => Merge!TypeOK
  /\ sample = "scan"              => Scan!TypeOK
  /\ sample = "stream_compact"    => Compact!TypeOK
  /\ sample = "stream_compact, two passes" => TwoPass!TypeOK
  /\ sample = "a block's program" => Block!TypeOK /\ host \in OrderedPrograms
  /\ sample = "a warp's operations" => Warp!TypeOK

\* No two warps, and in cooperative_sync no two threads, access one element of
\* shared memory between two barriers if one of them stores to it.
NoRace ==
  /\ sample = "cooperative_sync" => Groups!NoRace
  /\ sample = "block_sort_merge" => Merge!NoRace
  /\ sample = "scan"             => Scan!NoRace

\* cooperative_sync: the sums tree_sum returns; the kernels that work within a
\* warp: what each warp or group reduces is of all its threads and no other.
Reduced ==
  /\ sample = "cooperative_sync" => Groups!GroupSums
  /\ sample = "a warp's operations" => Warp!Reduced

\* warp_bitonic_sort sorts if no store overtakes a load; block_sort_merge's result
\* is the stable sort of the input, whatever phases and blocks it takes.
Sorted ==
  /\ sample = "warp_bitonic_sort" => Bitonic!SortedUnlessOverlap
  /\ sample = "block_sort_merge"  => Merge!SortedStable

\* scan: the exclusive prefix sum; stream_compact: each passing element once and,
\* after two passes, in the order of the input; warp_aggregated_atomics_cg: each
\* element its own position and the sum of the weights before it.
ScannedCorrectly ==
  /\ sample = "scan" => Scan!ScanCorrect
  /\ sample = "stream_compact" => Compact!OutputIsPrimes
  /\ sample = "stream_compact, two passes" => TwoPass!OrderedOutput
  /\ sample = "a warp's operations" => Warp!ClaimedPositions

\* The kernels that are programs: a load finds what the steps before it make.
SerialLoads == sample = "a block's program" => Block!SerialLoads

\* Every kernel ends: nobody is left waiting at a barrier.
Terminates ==
  <>(\/ sample = "cooperative_sync" /\ Groups!Ended
     \/ sample = "warp_bitonic_sort" /\ Bitonic!Ended
     \/ sample = "block_sort_merge" /\ Merge!Ended
     \/ sample = "scan" /\ Scan!Ended
     \/ sample = "stream_compact" /\ Compact!Ended
     \/ sample = "stream_compact, two passes" /\ TwoPass!Ended
     \/ sample = "a block's program" /\ Block!Ended
     \/ sample = "a warp's operations" /\ Warp!Ended)
===============================================================================
