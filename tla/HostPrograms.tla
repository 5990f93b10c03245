------------------------------ MODULE HostPrograms ------------------------------
(***************************************************************************)
(* The samples whose host side is the hard part: one of their machines     *)
(* runs, on the state of HostRuntime.  What they are given, and the sizes  *)
(* they are built with, are CONSTANTS.                                     *)
(***************************************************************************)
EXTENDS HostRuntime

CONSTANTS
  NumContexts, NumWorkers,                   \* ctx_management
  NumDevices, Granularities, Bytes,          \* multi_device_mmap
  PerDevice,                                 \* the samples that slice by device
  NumTasks, NumThreads,                      \* unified_memory_models
  Programs,                                  \* those of StreamProgram
  Directories, BatchSizes,                   \* hg_jpeg
  OptionName, Letters, Lower, None, Lines,   \* command lines
  Systems, Unexposed                         \* and devices to choose from

VARIABLE sample   \* which machine runs

vars == << sample, main, thread, stream, res >>

Contexts == INSTANCE CtxManagement WITH NumThreads <- NumWorkers
Mmap     == INSTANCE MultiDeviceMmap
Managed  == INSTANCE ManagedStreams
Calls    == INSTANCE StreamProgram
Slices   == INSTANCE SlicedDispatch
Batches  == INSTANCE JpegBatches
Choice   == INSTANCE DeviceChoice WITH devices <- res, scan <- thread, found <- stream

ASSUME HostAssumption ==
  /\ Contexts!SizesAssumption /\ Mmap!SizesAssumption /\ Managed!SizesAssumption
  /\ Choice!ChoiceAssumption /\ Slices!SlicesAssumption /\ Batches!BatchesAssumption

\* The programs that enforce the order their calls rely on.
OrderedPrograms ==
  { s \in DOMAIN Programs : Calls!WellOrdered(Programs[s], Calls!Precedence(Programs[s])) }

Init ==
  \/ sample = "ctx_management" /\ Contexts!Init
  \/ sample = "multi_device_mmap" /\ Mmap!Init
  \/ sample = "managed_streams" /\ Managed!Init
  \/ sample = "stream_program" /\ Calls!Init
  \/ sample = "device_choice" /\ Choice!Init
  \/ sample = "sliced_dispatch" /\ Slices!Init
  \/ sample = "hg_jpeg" /\ Batches!Init

Next ==
  /\ \/ sample = "ctx_management" /\ Contexts!Next
     \/ sample = "multi_device_mmap" /\ Mmap!Next
     \/ sample = "managed_streams" /\ Managed!Next
     \/ sample = "stream_program" /\ Calls!Next
     \/ sample = "device_choice" /\ Choice!Next
     \/ sample = "sliced_dispatch" /\ Slices!Next
     \/ sample = "hg_jpeg" /\ Batches!Next
  /\ UNCHANGED sample

Progress ==
  /\ \/ sample = "ctx_management" /\ Contexts!Progress
     \/ sample = "multi_device_mmap" /\ Mmap!Next
     \/ sample = "managed_streams" /\ Managed!Progress
     \/ sample = "stream_program" /\ Calls!Progress
     \/ sample = "device_choice" /\ Choice!Progress
     \/ sample = "sliced_dispatch" /\ Slices!Progress
     \/ sample = "hg_jpeg" /\ Batches!Progress
  /\ UNCHANGED sample

Spec == Init /\ [][Next]_vars /\ WF_vars(Progress)
-------------------------------------------------------------------------------
\* The types of the machine that runs; a program is one that enforces its order, as
\* the theorems about them assume.
TypeOK ==
  /\ sample = "ctx_management"    => Contexts!TypeOK
  /\ sample = "multi_device_mmap" => Mmap!TypeOK
  /\ sample = "managed_streams"   => Managed!TypeOK
  /\ sample = "stream_program"    => Calls!TypeOK /\ main.sample \in OrderedPrograms
  /\ sample = "device_choice"     => Choice!TypeOK
  /\ sample = "sliced_dispatch"   => Slices!TypeOK
  /\ sample = "hg_jpeg"           => Batches!TypeOK

\* Contexts, memory and streams last as long as a thread, a kernel or a stream
\* uses them.
ResourcesOutliveTheirUse ==
  /\ sample = "ctx_management"  => Contexts!ContextsOutliveTheirUse
  /\ sample = "managed_streams" => Managed!ResourcesOutliveWork

\* A kernel finds the block it was launched for, a task's memory is not touched
\* while it is attached elsewhere, no two workers compute the same element, and an
\* image fits its buffer unless its batch mixes sizes.
NoForeignAccess ==
  /\ sample = "ctx_management"  => Contexts!KernelsOwnTheirBlock
  /\ sample = "managed_streams" => Managed!NoForeignAccess
  /\ sample = "sliced_dispatch" => Slices!NoForeignAccess
  /\ sample = "hg_jpeg"         => Batches!ImagesFit

\* The exit status is success only if every thread, task, rank and image was
\* worked on.
SuccessIsEarned ==
  /\ sample = "ctx_management"  => Contexts!ResultReflectsThreads
  /\ sample = "managed_streams" => Managed!SuccessMeansComputed
  /\ sample = "sliced_dispatch" => Slices!SuccessIsEarned
  /\ sample = "hg_jpeg"         => Batches!EveryImageDone

\* multi_device_mmap: a buffer in use is whole, on its devices and accessible.
BuffersWhole == sample = "multi_device_mmap" => Mmap!BuffersWhole

\* multi_device_mmap leaks no handle when it fails and nothing when it succeeds;
\* the others free everything before main returns.
NothingLeaks ==
  /\ sample = "multi_device_mmap" => Mmap!NothingLeaks
  /\ sample = "sliced_dispatch"   => Slices!NothingLeaks
  /\ sample = "hg_jpeg"           => Batches!NothingLeaks

\* Every call of a program finds its buffers as program order would have them.
SerialAccess == sample = "stream_program" => Calls!SerialAccess

\* No call of a program computes with memory that was never stored, or was freed.
NoGarbageRead == sample = "stream_program" => Calls!NoGarbageRead

\* A program that returns has left no work behind.
EndsQuiescent == sample = "stream_program" => Calls!EndsQuiescent

\* A sample's device exists, may be used, and is the best or the one asked for.
BestAllowedDevice == sample = "device_choice" => Choice!BestAllowedDevice

\* A module compiled at run time fits the device it is loaded on.
ModuleFitsDevice == sample = "device_choice" => Choice!ModuleFitsDevice

\* acdnn_conv_activation.cpp:145 "-H=<int>   height" and :151 "-h            Show
\* this help": that sample prints its usage and ends only when it is asked to.
UsageOnlyOnRequest == sample = "device_choice" => Choice!UsageOnlyOnRequest

\* Every sample ends: no thread, stream or host waits for what never happens.
Terminates == <>(main.exit # "none")
===============================================================================
