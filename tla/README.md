# A verification project for the HGGC samples

The repository is a Python script, `run_tests.py`, and some sixty sample
programs for a PPU, an accelerator whose runtime (HGGC), driver and libraries
look like CUDA's. The script plans, starts, times out and sums up runs of the
samples. Each sample is a program of its own; what they share is the runtime
and some helpers and, therefore, the ways to go wrong: work given to streams
that finishes later, callbacks and threads that outlive what they use, barriers
of a block that one warp does not reach, copies that land after they are read,
resources freed after a failure or not at all. A shell script of the CI runs a
listed few of the samples on a device and judges them by their output.

This directory holds TLA+ modules of that behaviour, TLC configurations that
check them on small instances, and theorems with proofs that TLAPS checks for
every value of the constants. `PROJECT.json` lists the parts, the runs, the
mutants that show each property can fail, which lines of the source each
definition stands for, the hazards of the code, the findings and the theorems.

To check one run: `tlc -config MCKernels.cfg MCKernels.tla`. To check the
proofs of a module: `tlapm AiuPipelineProofs.tla`.

## 1. The system: an inventory

For each part: the state it keeps (**S**), its operations (**O**), what it
interacts with (**I**), what is hard (**H**) and what makes it correct (**C**).

### 1.1 The test runner

**`run_tests.py`.** S: the list of tasks, the executor's queue, the futures and
results, the list of failures, the result files. O: plan the tasks from the
executables found and `test_args.json`; submit them to a thread pool; run one
as a child process with a time limit; collect results as they complete; report
and exit. I: worker threads of the pool, child processes, `ppu-smi`, files of
the output directory. H: a future may finish before or after `as_completed`
is called; runs finish in any order; a child may hang, be killed or not start;
two runs may be given one file. C: every run is counted once; the exit status
agrees with the results; the output of a run is in a file of its own; the
script ends.

**`.github/ci`** (`cases.json`, `check_cases.py`, `CMakeLists.txt`,
`run_device_tests.sh`). S: the allowlist, the manifest written from it, the
archive of binaries and assets, the script's three counters. O: check the
allowlist, build and pack, validate the archive once after packing and once on
the device node, run each case with a time limit, search its output for a
success and a failure marker, sum up. I: child processes and the pipelines
`printf | grep -q` that search. H: the shell drops empty fields of a row; a file
may be missing; a case may hang; under `pipefail` the status of a search depends
on which end of the pipe is faster. C: status 0 means that every listed case ran
with its own assets and printed its own marker; the counts add up; it ends.

**`Common/`.** S: none between calls. O: read the command line
(`helper_string.h`), find the best device or the one asked for through the
runtime and through the driver (`helper_hggc.h`, `helper_hggc_drvapi.h`), compile
a kernel for a device and load it on one (`hgrtc_helper.h`). I: the attributes
the driver reports. H: two searches of one program must agree; ties, devices
that may not be used, attributes that cannot be read. C: the device exists, may
be used and is the best or the one asked for; what is compiled fits the device
that it is loaded on.

### 1.2 Samples whose hard part is the host

| sample | S / O | I / H | C |
|---|---|---|---|
| `stream_callback` | per workload two buffers, a stream, a flag; a global counter; threads allocate and queue copy, kernel, copy, callback; main spins on the counter, joins, frees | threads, streams and callbacks of the runtime run at once; the counter reaches its limit before threads return | nothing is freed in use; cleanup after the threads; the report is right; main ends |
| `ctx_management` | contexts with an owner, blocks of memory; push, allocate, launch, synchronise, check, free, pop | threads share contexts round-robin; whether a push of a context held elsewhere waits | a context outlives its use; a kernel finds its own block; the status reflects the threads |
| `vector_add` (`multi_device_mmap`) | address ranges, handles, mappings, access; reserve, create, map, set access, undo, free | every driver call may fail; each device has its granularity | a buffer in use is whole and accessible; nothing leaks |
| `unified_memory_models` (`streams`) | memory attached to a stream, to the host or to all; tasks computed by threads or the device | an OpenMP loop; attachments through a shared stream; faults | no access of memory attached elsewhere; resources outlive work; success means computed |
| `openmp_ppu_dispatch` | an array, a slice of it and a device buffer per thread | the team may be smaller than the number of devices; slices are in place | no two threads own an element; success means that all was scaled |
| `mpi_ppu_dispatch` | the root's array and result, each rank's slice and buffers | scatter, gather, ranks that fail and abort the others | no rank waits forever; success means that every slice came back |
| `hg_jpeg`, `hg_jpeg_encoder` | the files of a directory, a batch of them, decoder and buffers | files that cannot be read, a short last batch, images of two sizes, errors of the library | an image fits its buffer; success means that every image was done; nothing leaks |

### 1.3 Samples whose host side is one sequence of calls

S: buffers of the host and the device, streams with their work, events, graphs.
O: allocate, copy, clear, launch, record, wait, launch a graph, call a library.
I: the device runs what the streams hold in any order they allow. H: a missing
or misplaced wait, a copy that reuses a buffer another stream still reads, an
event recorded again, a graph whose nodes lack an edge, memory of a pool used
after it is freed, work left when main returns. C: every call finds in its
buffers what program order put there; nothing is computed from memory that was
never stored or was freed; nothing is left at the end.

These are: `streams_concurrency` (streams, Hyper-Q and multi-copy modes),
`multi_device_collab` (dispatch to several devices, peer copies),
`async_event_timing`, `unified_memory_models` (zero copy),
`driver_runtime_interop`, `stream_ordered_allocation`, `simple_hggc_graphs`,
`graph_memory_nodes`, `graph_memory_footprint`, `power_iteration_graph`,
`graph_conditional_nodes`, `hggc_graphs_perf_scaling`,
`acsolver_dn_lu_factorization`, `simple_acblas_lu`, `acdnn_conv_activation`,
`simple_acfft`, `jit_lto`, `mem_strategy_bench`, `occupancy_calculator`,
`radix_sort_thrust`, and the host programs of `transpose`, `aiu_throughput`,
`smem_bank_conflict`, `matrix_mul` (3 builds), `convolution_separable`,
`histogram`, `aiu_async_copy`, `aiu_gemm`, the bf16, imma and tf32
tensor-cell gemms, `project_template`, `vector_add` (3 builds),
`atomic_intrinsics` (2 builds), `binary_partition_cg`, `inline_tix` (2 builds),
`global_to_shmem_async_copy`, `spmv`, `warp_redux`, `fp16_dot_product`, `clock`
(2 builds), `warp_vote_ops`, `warp_aggregated_atomics_cg`,
`cpp_template_kernels`, `new_delete`, `assert` (2 builds), `cooperative_sync`
(barrier mode), one image of `hg_jpeg` and of `hg_jpeg_encoder`, and one slice of
`mpi_ppu_dispatch` (`compute_gradient`).

### 1.4 Kernels

S: shared and global memory, the registers of each thread, barriers. O: load,
store, add atomically, copy asynchronously, meet at a barrier, return. I: the
warps of a block run in any order between barriers; copies land when they land;
the phases of an arrive-wait barrier count arrivals of threads and of copies. H:
a barrier too few is a race that one schedule in thousands shows; a barrier that
some thread does not reach stops the block; a buffer is filled again while a
slow warp reads it; indices at the end of an array that is no multiple of the
block. C: the result of the algorithm, whatever the schedule; no races; the
kernel ends.

Kernels with such state are in `cooperative_sync`, `warp_bitonic_sort`,
`block_sort_merge`, `scan`, `stream_compact`, `transpose`,
`global_to_shmem_async_copy`, `cpp_template_kernels`, `fp16_dot_product`,
`matrix_mul`, `project_template`, the three tensor-cell gemms, `aiu_gemm`,
`aiu_async_copy`, `aiu_throughput`, `smem_bank_conflict`,
`convolution_separable`, `histogram`, `power_iteration_graph`, `clock` and
`hg_jpeg`.

Other kernels have no shared memory and work together all the same: within a
warp, by shuffles, votes and reductions among the lanes that are active
(`warp_redux`, `warp_vote_ops`, `spmv`), by splitting it into groups whose leaders
act for them (`warp_aggregated_atomics_cg`, `binary_partition_cg`), or by atomic
operations (`atomic_intrinsics`). H: the lanes past the end of the input, the
order of the leaders' operations, results that depend on it and are compared all
the same. C: what a warp or group reduces is of all its members and no other; a
position is claimed once. In the samples that are left a thread of the kernel
works on an element of its own.

### 1.5 Parts without behaviour of this kind

`device_query` (two builds), `topology_query` and `device_diagnostics` print
what the runtime tells them. The CMake files build.

## 2. Modules and how they correspond to the code

| module | of | state |
|---|---|---|
| `TestRunner` | `run_tests.py` | `phase` is where main is; `stage`, `fate`, `return_code` are of each task; `finished` and `events` the two sources of `as_completed`; `failed`, `content`, `exit_code` |
| `CiCases`, `DeviceTests` | `.github/ci` | `phase` is where the CI is, `at` the row of the script's loop; `case_count`, `failures`, `passed` its counters; `printf`, `pipe`, `grep`, `killed` the pipeline that searches; `verdict` and `outcome` what it said of each case and what the case did |
| `StreamCallback` | `stream_callback.hg` | `main`, `worker`, `stream`, `callback` are program counters and queues; the buffers hold what was last stored |
| `HostRuntime` | runtime, used by the next rows | `main`, `thread`, `stream`, `res`: one machine for all host programs |
| `CtxManagement`, `MultiDeviceMmap`, `ManagedStreams`, `SlicedDispatch`, `JpegBatches` | table of 1.2 | the machine's variables, described in each head comment |
| `CommandLine`, `DeviceChoice` | `Common/`, the part of it in 1.1, with the samples that use it as its clients | `devices` what the driver reports, `scan` the loop over them, `found` what has been found, compiled for and loaded on, `main` the client |
| `StreamCalls`, `StreamProgram` | runtime, and a program's main | a program is a sequence of calls; a buffer's content is the call that stored it |
| `ConcurrencyPrograms`, `GraphPrograms`, `LibraryPrograms`, `BenchPrograms`, `KernelPrograms` | samples of 1.3 | programs: one operator per sample or mode |
| `DeviceKernel` | a block on the device | `host`, `gmem`, `smem`, `reg`, `round`: one machine for all kernels |
| `GroupReduce` | `cooperative_sync`, groups mode | thread by thread, the group's barrier and the tree sum |
| `BitonicBlockSort`, `BlockSortMerge`, `BlellochScan`, `StreamCompact`, `TwoPassScan` | the algorithm samples | warp by warp, with the values computed |
| `BlockProgram` | a block whose threads take the same steps | a location's content is the steps that made it |
| `BlockKernels` | the other kernels of 1.4 | programs of a block |
| `Awbarrier`, `AiuPipeline`, `TilePipeline` | `transpose.hg`, the pipelined kernel | producer and consumer warps, four arrive-wait barriers, copies in flight, the two buffers; `TilePipeline` is what it promises |
| `WarpOps` | the six kernels at the end of 1.4 | what a warp does in step is a step; the leader of each of its groups goes on by itself, one atomic operation a step |
| `HostPrograms` | the host machines, one of which runs | `sample` is which one; the properties of all of them |
| `KernelMachines` | the kernels' machines, one of which runs | the same |
| `MCTestRunner`, `MCDeviceTests`, `MCHostPrograms`, `MCKernels` | | the instances that TLC checks |
| `TestRunnerProofs`, `DeviceTestsProofs`, `StreamCallbackProofs`, `AiuPipelineProofs`, `CtxManagementProofs` | | theorems |
| `HostMachineProofs` | | theorems about the other host machines and programs, and about all of them together |
| `KernelProofs`, `KernelScanProofs` | | theorems about the kernels: races and loads; what they scan, compact and sum |

**Three styles.** Where the values matter (a sort, a scan, an exit status) the
module has them and one action per step of the source, from one barrier or
system call to the next. Where only the order matters (sections 1.3 and most of
1.4) a sample is data: the sequence of its calls, or of its steps, built by
operators named after the source's functions. One machine runs them all, and
the content of a buffer is *which call or step* stored it, so that a read
that finds something else than sequential execution would is visible, whatever
the numbers are. Where the protocol is the hard part (the AIU pipeline, the
callbacks, the runner, the CI, the choice of a device) the module is written so
that it can be proved about.

**Why samples share a run.** A behaviour of `MCKernels` or `MCHostPrograms` runs
one sample, chosen initially, and `MCHostPrograms` runs the programs of 1.3 as
one more. `HostPrograms` and `KernelMachines` are the compositions for any
programs and sizes, which `MCHostPrograms` and `MCKernels` extend with those they
check, and `HostMachineProofs` and `KernelProofs` with theorems.
A property of these modules has a conjunct for each sample it
concerns. The question asked is the same for all of them (is anything read
before it is there, freed while in use, reported that was not done?), and so is
the machine.

**Steps.** `TestRunner`: one action per statement of main that the threads can
observe; `StartRun` opens the result file (which empties it), `RunEnds` stores
the result and wakes `as_completed`. `StreamCallback`: an action per runtime
call and per phase of the callback. `AiuPipeline`: what the source does between
two waits is an action of the warp; each copy that lands and each arrival of
a copy on its barrier is an action of the engine. `BlockProgram`: one step
of one thread. `StreamProgram`: one call of main, or one piece of work of a
stream. `DeviceTests`: a step of the script's loops, a write of `printf`, a read of
`grep`. `DeviceChoice`: a device looked at. `SlicedDispatch`, `JpegBatches`: a call of
a thread, rank or main that can fail or that others can see.

**Parts of one program in two modules.** `mpi_ppu_dispatch`, `hg_jpeg` and
`hg_jpeg_encoder` are modelled twice: `KernelPrograms` has the calls of one slice
or image with their streams and buffers, `SlicedDispatch` and `JpegBatches` the loop
around them, in which such a sequence is one step. The kernel of the channel
statistics is a program of a block in `BlockKernels`. In the same way the
clients of `DeviceChoice` are the beginnings of programs that
`LibraryPrograms` and `KernelPrograms` go on with.

## 3. What the runs check

| run | instance | what it shows |
|---|---|---|
| `runner_pool` | up to 3 runs, 2 workers, 0 to 2 PPUs, both architectures or none, each kind of entry of `test_args.json`, codes and hanging, failing, unspawnable children | `EveryRunCountedOnce`, `ExitReflectsRuns`, `Terminates`; `OutputsSeparate`: a result file holds one run's output unless names clash |
| `device_tests` | two cases with at most one field wrong, every subset of the files in the archive, five outputs, cases that fail or hang | `EveryCasePassed`: status 0 is earned; `CountsAgree`; `Terminates` |
| `stream_callback` | 3 workloads | `NoUseAfterFree`, `CleanupAfterThreads`, `ReportsPass`, `Terminates` |
| `host_programs`, machines | 2 contexts and 4 threads; 3 devices with granularity 2 or 4 and 5 bytes; 4 tasks and 2 threads; 3 slices; directories of 3 files; up to 3 devices to choose from | `ResourcesOutliveTheirUse`, `NoForeignAccess`, `SuccessIsEarned`, `BuffersWhole`, `NothingLeaks`, `BestAllowedDevice`, `ModuleFitsDevice`, `Terminates` |
| `host_programs`, programs | 3 streams, 2 devices, 2 or 3 iterations, two sizes, two images | `TypeOK`: each program orders its conflicting calls, as the theorems assume; `SerialAccess`, `NoGarbageRead`, `EndsQuiescent`, `Terminates` |
| `kernels` | blocks of 2 to 8 threads, 2 or 3 tiles, all 0/1 inputs | `TypeOK`: each program of a block orders its conflicting accesses, as the theorem assumes; `NoRace`; the result of each algorithm: `Reduced`, `Sorted`, `ScannedCorrectly`; `SerialLoads`; `Terminates` |
| `aiu_pipeline` | 3 consumers, 5 tiles | `StripHeldWhileRead`, `OutputTransposed`, `ParityUnambiguous`, `NothingOutlivesBlock`, `ImplementsPipeline`, `Terminates` |

Six further runs show where the code and what is said of it disagree; each
checks one property and TLC finds it violated.

- `runner_first_code`: `README.md:80` promises the first non-zero code; the
  script passes over every -1, so that after a timeout the code of a later
  failure is returned.
- `runner_skipped_runs`: when every member of `runs` is marked `skip` the
  message says they are skipped, and the executable is run without arguments.
- `ci_verdict`: the script says that a case did not print its marker; under
  `pipefail` it says so also when `grep` finds the marker and leaves before
  `printf` has written everything. The same race lets a failure marker pass.
- `device_usage`: `acdnn_conv_activation` has an option `-H=<int>`; names are
  compared without case, so it is taken for `-h`.
- `bitonic_race`: within a step of the bitonic merge a warp may store an element
  that its partner warp has yet to load; the block then ends unsorted. The first
  part of `Sorted` shows that this is the only way: if no store overtakes
  a load the network sorts.
- `stream_compact_order`: the sample's README says the ballot strategy keeps the
  order within a block; warps are ordered by when their atomic addition runs.

### Bounds and why they are enough

- *Runner.* Two workers and three runs are the least with a run queued, one
  running and one finished, a future finished before `as_completed` and one
  after, and two failures in either order. Two executables of one name show
  the exception of `OutputsSeparate`.
- *CI.* Two cases are the least in which a field that vanishes can take its value
  from the next, and in which a later case follows a failure. Every field is
  wrong by itself (absent, blank, with a tab, climbing, not declared, repeated).
  Outputs have neither marker, one, or both, in chunks of their own, and the pipe
  holds one chunk, so that `printf` is ahead of `grep` or waits for it.
- *Callbacks.* With three workloads the last callback can be counted while a
  second thread is still queueing and a third has returned.
- *Contexts.* Four threads on two contexts: two share each. *Mapping.* Three
  devices and 5 bytes make the size no multiple of either granularity, and
  failures happen at the first, a middle and the last stripe. *Managed.* Four
  tasks on two threads: each thread takes a second task, of either size.
- *Slices.* Three devices with three elements each: teams of one, two and three
  threads, one of which does not divide the array. *JPEG.* Three files, of which
  some cannot be read or are not images, in batches of one, two and three: a
  full batch, a short last one, one with an empty entry, one of two sizes, and a
  directory whose last file cannot be read. *Device.* Systems of up to three
  common devices (two that tie, one prohibited) and of up to two with the rare
  ones (no clock rate, a figure of merit of 0, a capability below 1, one that the
  table of cores does not know), and command lines of up to two options.
- *Stream programs.* Two iterations are the least in which a buffer or an event
  is used again; three streams the least with a neighbour on either side. A loop
  that runs until values converge runs a fixed number of times.
- *Kernels.* By the 0/1 principle a comparison network that sorts every 0/1
  block sorts every block; for the stable sort and merge, which moves an element
  by comparing keys only, two keys are enough to show an element that overtakes
  an equal one. With two blocks the second comes sorted: the blocks are
  sorted by the same steps independently of each other, and the first one is
  arbitrary. Blocks have at least two warps and trees two levels.
  Sizes of the scan cover one block, a part of a second, and the pass over block
  totals. Two tiles are the least to fill a buffer again; three where it is
  double-buffered.
- *Warps.* Warps of four lanes, the second of two with one lane in use where a
  kernel has a bound on its elements; two labels, so that a warp has one group or
  two; rows of fewer elements than lanes and of more; negative and positive reals;
  and limits at which `atomicInc` and `atomicDec` wrap within the block.
- *Pipeline.* Five tiles fill one buffer three times and the other twice, so
  that each parity is waited for after the other; three consumers finish in
  different orders.

Integers do not overflow at these sizes. Width matters for the exit status of
the runner, which is taken modulo 256.

`CHECK_DEADLOCK FALSE` stands in each configuration because programs end; that
nobody is left waiting is what `Terminates` says.

### Fairness

Weak fairness only, of what the code's environment schedules. `TestRunner`: the
interpreter runs main; the pool starts queued tasks while a worker is free; a
child ends or is killed at its time limit (that is what the limit is for).
`DeviceTests`: the script, the two ends of a pipe, and a case, which ends or is
killed at its limit.
`StreamCallback`: main, each worker and each stream is scheduled. The host
machines: some enabled step of a thread, a rank or a stream is taken; where a call
either succeeds or fails, either will do (`MultiDeviceMmap`). Programs of streams:
main or some stream goes on, whichever can. Kernels: the
device runs some warp that is not waiting (in `GroupReduce` each thread).
`AiuPipeline`: the producer, each consumer, the block's barrier and the copy
engine. Failing calls have no fairness of their own.

### Why each property can fail

For every property of a passing run `PROJECT.json` has a mutant: a definition
with a plausible bug (a callback that counts before it checks, a missing
barrier, a wait for the wrong parity, a free before the join, a search
that takes a device nobody may use, a batch that drops its remainder) under which the same run reports the property
violated. These definitions stand in the modules beside those they mutate.

## 4. What is proved

All theorems hold for every value of the constants that satisfies the named
assumptions. TLC has checked each inductive invariant's consequences on the
instances above. The assumptions are evaluated by the runs: those of the host
machines together are `HostAssumption`, those of the kernels `KernelAssumption`, of
the modules that `MCHostPrograms` and `MCKernels` extend.

**`TestRunnerProofs`** (any executables, configuration, number of workers,
`RunnerAssumption`): `TypeCorrect`, `CountedOnce`, `ExitStatusCorrect`,
`OutputsKept`. Neither `EveryRunCountedOnce` nor `ExitReflectsRuns` is inductive: both speak of the
end. `IInv` adds `HandOver` (a finished run is in exactly one of the two
sources of `as_completed` or is recorded, and if recorded it is among the
failures exactly when its code is not 0), `Ended` (main exits only when all
runs are recorded, with the first failure's ordinary code or 1) and `ResultTyped`.
The assumption that return codes are in -64..255 is what makes the exit status
right: 256 would wrap to success. `OutputsKept` adds `FilesInv` to it: a task is
determined by its executable and its number, an executable has finitely many
(`PlanInv`; this needs entries that are well formed), and from its start on a run
whose executable has its name to itself finds its output, and only that, in
its file. The lemma it rests on is `FilesApart`: two runs share a file only if
their executables share a name, because an executable that has one run more
than one numbers them all.

**`DeviceTestsProofs`** (any texts, allowlist, archive, outputs of cases and size
of the pipe, `TextAssumption` and `TestsAssumption`): `TypesHold`,
`StatusIsEarned`, `CountsAddUp`. Its invariant says what each stage of the CI has
established: `Validated` (past `check_cases.py` the allowlist is acceptable, and
past a validation without failures each case so far is packed with its assets),
`Counted` (on the device passed and failed cases are those before the row at
hand, and with no failures each succeeded), `Searched` (what is in the pipe is of
this case's output, so that a match is a marker it printed) and `Ended`. The
lemma `RowsOfCases` is the other half of the argument: in an accepted allowlist
the fields that the script needs are neither empty nor hold a tab, hence
the rows that the shell reads back are the cases. The theorem holds in spite of the race that `ci_verdict`
shows, which only ever loses a match; that a failure marker may be
missed is why `EveryCasePassed` speaks of the success marker only.

**`StreamCallbackProofs`** (any number of workloads): `TypeCorrect`,
`BuffersOutliveTheirUse`, `CleanupWaitsForThreads`, `ReportCorrect`. `IInv` has
`MainInv` (the counter is the number of callbacks that counted; past the spin
that is all of them; past the joins every thread is done) and for each workload
`PipeInv` (which operations are queued, given where its thread is and how far
its callback got) and `DataInv` (what the buffers hold, given which of them ran).

**`AiuPipelineProofs`** (any number of strips and tiles): `TypeCorrect`,
`StripsHeld`, `Transposes`, `ParitySuffices`, `NothingLeft` and `Implements`,
the refinement of `TilePipeline`. `IInv` has `Control` (where each warp can be),
`Order` (no warp is ahead of the barrier it waits for, no barrier ahead of the
warps that arrive at it; this is why one bit of the phase is enough),
`Arrivals` (how many arrivals each barrier still expects, counted from the
warps and the copies in flight), `Memory` (only the tile being filled has
copies or links in flight; a strip holds the tile last copied to it) and `Data`
(what was read and stored). The refinement maps `filled` to
the sum of the phases of the two full barriers and `taken` to the tile each
consumer is at: the arrival that ends a full barrier's phase is a `Fill`, a
consumer's arrival at an empty barrier is its `Take`, and every other step
stutters.

**`CtxManagementProofs`** (any number of contexts and worker threads,
`SizesAssumption`; both readings of a push of a
context that is held elsewhere): `TypeCorrect`, `ContextsOutlive`, `KernelsOwn`,
`ResultReflects`. None of the four properties is inductive. `Phase` says what main's
loops have established: until it has created every context no thread is
started, and from its first `hgCtxDestroy` on every thread has returned.
`InUse` ties the resources to threads: who holds a context, has memory in it or
a kernel in it is at a stage where it does. These two give the first property.
`OwnBlock` is the argument about sharing: threads of one context have
different blocks, since the allocator only gives free ones and a block of a
thread that uses it is not free; so until its kernel has run a thread's block
is untouched, and afterwards holds the thread's number, whatever else the
context runs and whomever `hgCtxSynchronize` waits for. `Results` counts: main's
counter is the number of threads that returned and were not refused, and it
reaches the number of threads exactly if none was.

**`HostMachineProofs`** (any value of the constants of `HostPrograms`,
`HostAssumption`; those about programs of streams under `AllOrdered`): every safety
property of `host_programs` is a theorem of `HostPrograms` there: `TypeCorrect`,
`ResourcesOutlive`, `AccessIsOwn`, `SuccessMeansDone`, `BuffersAreWhole`,
`AllIsFreed`, `AccessIsSerial`, `NoGarbageIsRead`, `QuiescentAtEnd`, `DeviceIsBest`
and `ModuleFits`. `HostInv` is, for the machine that runs, that machine's own
invariant; that of the contexts is taken from the module above, by way of a lemma
that the two instances of that machine are the same (`SameContexts`), and the
others are in this one:

- `MmapInv` (any number of devices; of two granularities one divides the other, as
  powers of 2 do). `Progressed`: the buffers before the one at hand are whole, and
  the one at hand is mapped as far as the index; `HandlesHeld`: a handle is
  held only between the creation and the mapping of a stripe, unless a release
  failed; `CleanedUp`: the buffers the cleanup has passed have nothing in them. That
  stripes fill a range and suit every device is arithmetic (`MmapSizes`): the size is
  a multiple of the greatest granularity times the number of stripes, so a stripe
  is a multiple of the greatest, and hence of every device's.
- `ManagedInv` (any number of tasks and threads). A task that was taken has its
  product, or is held by one thread, or is in a stream. `HoldsAlone`: the task a thread
  holds is no other's, nothing is computed of it, and once the thread waits for it
  its memory is the host's or an attachment to the host is on its way.
  `DeviceCall`: in a thread's stream the attachment of a task stands immediately before
  its product, or has been carried out; `Apart`: no task is in two streams, or twice in
  one. `Phases`: main destroys streams only when they are empty or the device has
  failed, and frees tasks after that.
- `SlicesInv` (any number of devices and elements, any team that OpenMP grants).
  Slices are disjoint (`SliceFacts`), so a worker finds in its own what it left
  there; `WorkerIs` says for each place in its code what its slice, its stream
  and its buffer hold. `Gathered`: the root leaves the gathering when all ranks have come to
  it, so that the array is whole, and finalises only after it verified it.
  `Ended`: success comes after the comparison. That the slices of all devices are
  the whole array (`SlicesCover`) is why the ranks' work is all of it; a smaller
  team of OpenMP is caught by the comparison.
- `BatchesInv` (any directories and batch sizes). What was decoded, with the batch at
  hand, is what can be read of the files passed (`Decoding`), and the same
  of the encoder's image with its qualities and its count (`Encoding`); a batch's
  files enter its buffers in order, and the buffers are as large as its first
  image. The lemmas under it are about sets of numbers: the least of one, the first
  few of one, and how many are below an element (`TakenFacts`).

- `ChoiceInv` (any system of devices and command line). `BestSoFar` is the invariant of
  the loop: of the devices looked at, `best` is the first of those with the greatest
  figure of merit, or none has one above 0. `Chosen(d)` says without the loop which
  device a search must end with; `ChoiceUnique` that a line and a system leave one
  such device; and `CompiledFor` that what has been compiled, and what has been
  loaded, was for a chosen one. So the two searches of a program that compiles at run
  time agree.
- `CallsInv` (any programs, streams and buffers). What a sample has to do for
  `AccessIsSerial`, `NoGarbageIsRead` and `QuiescentAtEnd` is a condition on the text of
  its calls, `WellOrdered`. A call waits for those before it that the host made
  itself, that are on its own stream, or that an event, the stream's kind or a
  host's wait puts before it (`Enforced`); `before` are the calls it waits for directly
  or through another. Then: of two calls one of which stores what the other touches the
  first is before the second; each read has a store before it that no release undoes;
  and every call given to a stream is before one of the host. `Precedence` computes
  that order; TLC evaluates the condition for each program of `MCHostPrograms` (in
  `TypeOK`), and the theorems say that it is enough in all interleavings of main and
  the streams. `CallsInv` says that a stream holds calls it was given, in their order
  (`CallQueues`, `FirstComesFirst`); that what precedes a call that has taken effect has
  taken effect (`Closed`); and that a buffer holds the latest of the stores that have
  taken effect (`Latest`). So stores to a buffer are made in program order, and when a
  call is due the stores it follows have been made and those that follow it have
  not.

None of these properties but the type invariants is inductive. TLC checked each
invariant on the instance of `host_programs` before it was proved (with
`Precedence` for the order in that of the stream programs).

**`KernelProofs`** (any value of the constants of `KernelMachines`,
`KernelAssumption`; `LoadsAreSerial` for programs that enforce their order): two
safety properties of `kernels` are theorems of `KernelMachines` here, and the
invariant of `stream_compact` in one pass is shown to be kept, for the module after
this one.

- `LoadsAreSerial` (any programs, threads and blocks). As with the calls of a stream,
  what a kernel has to do is a condition on its text, `WellOrdered` of `BlockProgram`:
  of two accesses in conflict one is in an earlier step, and between them the thread
  of the second passes a barrier that the first thread arrives at after its own, with
  a wait for the copy or a link to the arrival if the first is a copy (`Separated`);
  every load follows a store; and all threads use the arrive-wait barrier alike. TLC
  evaluates it for each program of `MCKernels` (in `TypeOK`), and the theorem says
  that it is enough in every interleaving of threads, copies and links. `Ordering`
  has what a thread's place says of the others: those it met at a `__syncthreads` were
  there (`SyncsPassed`), its groups of copies have landed (`GroupsWaited`), and of the
  arrive-wait barrier `AwbarInv`: the arrivals it expects are of the threads that have
  not arrived and of the links (`Counted`), the phases passed are the arrivals of all
  (`PhasesPassed`), the state a thread waits with is the phase it arrived in
  (`StatesKept`), and a link arrives after its copies (`LinksArrive`). Hence
  `Separation`: of two accesses so separated the first is done when the second is
  due. `Content` then says that a location holds the latest of the stores that are
  done and the additions since.
- `NoRaces` (any sizes). For `cooperative_sync`, `GroupInv`: two threads of a group are
  in step, or one has passed a barrier that the other has yet to pass, and no thread
  is in its tile before all have left the block's reduction. For `scan` and
  `block_sort_merge` it is arithmetic: no warp is two barriers ahead of another of its
  block, and at one stride the pairs of different lanes have no element in common
  (`LanesApart`, `SortPairsApart`, `MergePairsApart`).
- `CompactInv` (any number of elements, size of a block and of a warp). An
  `atomicAdd` gives out a stretch of slots. `Fill` says that the stretches given out are
  apart and fill the numbers below the counter: of the warps of a block below its
  count, and of the blocks below the grid's. A lane's slot is at its rank in its
  warp's stretch, and a slot that was stored to holds the element of its owner; so in
  the end the slots below the count hold each passing element once. The naive strategy
  is the case of a stretch for each thread (`NaiveInv`). That the elements that pass
  and their blocks fit in what the counters can reach is counting (`BlockBound`,
  `GridBound`).

**`KernelScanProofs`** (the same constants and assumption; `TwoPassScan` for blocks of
a power of 2 of threads, as the source's 256, and `GroupReduce` for groups of one, as its
64 and 16): a third, `ScansAreCorrect`, which states `ScannedCorrectly`, and of a
fourth, `Reduced`, what it says of `cooperative_sync` (`GroupsSumRanks`). What a sweep
over an array computes is usually an induction over its elements. Here what an element
holds between two barriers is written without one, as how many elements a set has or as
a difference of two sums of the host, so that a step needs no more than that the two
intervals it adds meet.

- `TwoPassInv`. No warp is two rounds ahead of another of its block. After k
  rounds of the scan in shared memory an element counts the passing elements among
  the 2^k up to it (`Window`), and a thread's register, between reading and
  adding, those among the 2^k before; for the last k that is the element's rank in its
  block. The host's prefixes are how many elements pass in the blocks before, and
  the ranks of a block begin there (`RankSplit`), so that the second kernel stores
  each at its rank in the whole input.
- `WarpInv` (`warp_aggregated_atomics_cg`). The stretches that leaders claimed under one
  label fill the numbers below its count, as before; the groups of a warp are apart
  by label; and a group that is done has the running sums of its weights.
- `SweepInv` (`scan`). What an element holds depends only on the round that the warp
  that touches it is in (`SweptTo`, `Contents`): on the way up, the sum of the
  stretch that ends there and is as long as the greatest power of 2 that divides its
  place and that the sweep has come to; on the way down the elements of that place
  have the sum before the stretch. A pair is two stretches that meet. The rest is the
  host's: the totals of the blocks (`TotalsHold`), the sums within a block
  (`PartialsHold`), those before it (`PrefixesHold`) and their sum (`ResultHolds`).
- `SumsInv` (`cooperative_sync`). When a thread comes to a level of the tree with rank r
  below the stride m, it has the sum of the ranks r, r + m, r + 2m, ... of its group, in
  closed form (`SumFrom`); an upper thread has left in its element what it came with
  (`LevelHolds`). With `GroupInv` the element that a thread adds is of a thread that is
  where it is, or one sync on and did not add itself (`AddedSum`). At stride 1 the
  sum is that of the group (`SumOfAll`), and `GatheredHolds` follows what the two calls
  return.

In all but the second the number of rounds is an exponent, so the module first shows of
`2^k`, which the prover does not know, that it counts the subsets of k elements,
and from that that it doubles and is monotonic. TLC checked the four invariants and
`CompactInv` on the instance of `kernels` before they were proved.

### What is left to TLC

Liveness and ENABLED: the prover has no rules for them. Of `kernels` the types (`TypeOK`),
what the sorts leave (`Sorted`) and what the operations of warps do (`Reduced`, but for
`cooperative_sync`). That a network sorts every block rests on the 0/1 principle or on an
induction over its stages, and what the shuffles and the sparse products add up on
folds: induction over an operator. That the programs of the samples are `WellOrdered`:
a finite computation for each size. The violations: a counterexample needs no proof.

## 5. Assumptions about what is not in the repository

These parts are modelled from how the samples use them.

- A stream runs its work in order. The default stream of a device waits for the
  work its blocking streams were given before and they for its; a non-blocking
  stream does not. Work waits for the last record of an event before the wait.
- A blocking copy is finished when it returns. A copy between devices and a
  memset of the default stream are asynchronous. Freeing does not wait.
- A library call is work of the stream its handle has.
- A call that `checkHggcErrors` or its like checks may fail at any time, and
  then the process ends. Calls that are not checked are taken to succeed.
- A graph's node runs after the nodes it depends on; the launch ends when
  its last nodes do. Memory of a graph or a pool that may be given out again is
  one buffer.
- An event that times is a buffer: recording stores it, `hggcEventElapsedTime`
  reads it.
- An arrive-wait barrier has a count of pending arrivals and a phase. An arrival
  takes one away; the last starts the next phase. The arrival of asynchronous
  copies adds one pending arrival, which arrives when the thread's copies so far
  have landed. `test_wait` looks at the parity of the phase, or at the state an
  arrival returned. This is as `transpose.hg`, `global_to_shmem_async_copy.hg`
  and `cooperative_sync.hg` rely on.
- A push of a context that another thread holds either waits or does not;
  the comment at `ctx_management.cpp:202-205` leaves it open, and both are
  checked.
- A team of OpenMP may be smaller than asked for. A rank leaves `MPI_Scatter` no
  sooner than the root has come to it and the root leaves `MPI_Gather` no sooner
  than all have come; `MPI_Abort` ends every rank.
- The JPEG library refuses an image without data, may refuse a batch with empty
  entries, and does not know how large a caller's buffers are.
- The driver reports the same attributes of a device at every call. What is
  compiled for an architecture runs on devices of that architecture.
- The lanes of a warp that are active at a shuffle, vote or reduction take part
  in it together; `coalesced_threads` and `binary_partition` are of the active
  lanes. An atomic operation is one step and orders floats as the code has it
  order their bits.
- `timeout` kills a case at its limit and returns 124; a `printf` that writes to a
  pipe nobody reads is killed, which `pipefail` makes the pipeline's status.
- `ThreadPoolExecutor` starts tasks in order; `as_completed` first yields what
  was finished when it was called, then the others as they finish.

Abstractions: addresses, timings, the arithmetic of kernels that are programs
of a block, layouts (swizzles, fragments) and printing are left out. In
`BlockProgram` threads run one by one, which allows every order that warps in
lockstep have and more; in `AiuPipeline` a warp is one process. Verification
against a host reference is an access of the host to the buffers it compares.
`simple_acblas_lu` is given a diagonally dominant matrix, and a swap of rows is
an alternative of the code that a parameter chooses.

## 6. Observations made while modelling

- `mem_strategy_bench.hg:138-142` copies the pinned buffer to the device, refills
  it while that copy may be in flight, and copies it again. The first copy's
  result is stored over before anything reads it, so this is harmless;
  `SerialAccess` says precisely this (`Unread`).
- `fp16_dot_product.hg:92` and `:113` start a thread's loop at
  `threadIdx.x + blockDim.x + blockIdx.x` where `blockDim.x * blockIdx.x` is
  meant: some elements are added several times and the first ones never. Both
  kernels do it, and they are compared with each other only.
- `fp16_dot_product`, `clock` and `mpi_ppu_dispatch` return success after
  printing a failed comparison; `simple_hggc_graphs.hg:259` prints its result
  without looking at one.
- `scan.hg:137` scans the block totals with one block, so that the sizes it is
  right for are bounded; `main` stays below, which `SizesAssumption` of
  `BlellochScan` states.
- `hg_jpeg.cpp:323-332` leaves the rest of a short last batch empty, decodes it
  all the same and counts its empty entries; with the default batch of one this
  needs a file that cannot be read. A directory whose last file cannot be read
  ends `hg_jpeg` with an error after everything else was decoded. `-b 0` makes it
  index an empty vector.
- A batch of `hg_jpeg` gets buffers of the size of its first image; `ImagesFit`
  therefore excepts batches of images of different sizes.
- `hg_jpeg_encoder` counts a file as encoded even if its output could not be
  written, and passes over files that end in `.jpeg`.
- `openmp_ppu_dispatch` divides its array by the number of threads it got. If that
  is fewer than devices and no divisor, the remainder stays unscaled and the
  sample reports a failure. `mpi_ppu_dispatch` returns 0 after a comparison
  that failed.
- `skip_leading` leaves the dash of a name of one letter, contrary to the
  comment above it, so that `-h` alone is not recognised where `-H=5` is taken for
  it. `-device` with no number asks for device 0. The search through the driver
  accepts a negative number; its refusal of a number that is too large ends the
  process with status 0. If no device has a figure of merit above 0, device 0 is
  taken even if it may not be used.
- `hgrtc_helper.h` frees with `free()` a block it got with `new[]`, and cuts an
  include path at the first occurrence of the header's name in it, which may be
  a directory's.
- `binary_partition_cg` takes minima of floats by `atomicMin` on their bits, which
  orders negative floats the other way round. Its result is right because each
  location is updated once.
- `atomic_intrinsics` shifts 1 by the thread's index, which exceeds 31 in all but
  the first warp; kernel and reference do the same.
- `multi_device_mmap.cpp:111` cannot tell which stripes of a range were mapped
  when it undoes a failure; the model leaves open what the driver does then.

## 7. Not modelled, and why

`device_query`, `topology_query`, `device_diagnostics`: no state, straight-line
queries and printing. The build files declare targets. Of `Common/`, the helpers
for images, BMP files and timers and the search for asset files: data and file
input and output that change no state a property speaks of; that a checked
failure ends the process is used everywhere. Of the CI, installing the SDK and
the gates between the workflow's jobs: they run before anything modelled and
have no state of their own. Of `multi_device_collab` the choice of the mode and of
the pair of peers, of `driver_runtime_interop` finding and loading the fatbin: a
straight-line prelude to the calls that are modelled. Of `clock` the clock values,
which are timing. Of `assert` the error code that an assertion leaves, a value
that main compares.

## 8. The plan

Done, in this order: the runner; `stream_callback` with its proofs; the kernels
with values; the host programs; the stream programs; the AIU pipeline with its
proofs and refinement; the programs of a block; the CI with its proofs; the
choice of a device with its proofs; slices over teams and ranks; batches of
images; the operations of warps; the result files of the runner and the shared
contexts of `ctx_management`, proved; the order of calls in programs of streams,
proved; the machines of mapped and managed memory, of slices and of batches, proved,
and with them the whole of `HostPrograms`; the order of steps in programs of a block and
the races of the other kernels, proved; the results of the scans, of what is
claimed with atomic additions and of the tree sum, proved.

Next, if the model is extended: abstract specifications of a job pool for
`TestRunner` (each job is run once and reported once), of an atomic scan for
`BlellochScan` and of a set from which slots are claimed for `StreamCompact`, each
with its refinement.

Next, proving more (every safety property of a passing run is a theorem but `TypeOK`,
`Sorted` and the rest of `Reduced`, of `kernels`):

1. `BlockSortMerge`: after r phases of the odd-even transposition each element is
   at most so far from its place; and the merge of two sorted runs by ranks.
2. `WarpOps`: the counts and sums of the histograms, as unions of disjoint groups.
