----------------------------- MODULE BenchPrograms -----------------------------
(***************************************************************************)
(* The programs of the samples that time kernels, and of those about       *)
(* moving and allocating memory: transpose.hg, aiu_throughput.hg,          *)
(* smem_bank_conflict.hg, mem_strategy_bench.hg,                           *)
(* matrix_mul.hg, runtime_compile.cpp of matrix_mul, convolution_separable,*)
(* histogram, occupancy_calculator.hg and radixSortThrust.hg;              *)
(* async_event_timing.hg, the zero-copy path of unified_memory_models.hg,  *)
(* driver_runtime_interop.cpp and mem_pool_lifecycle.hg.  What a kernel    *)
(* computes, and what is printed, is left out.                             *)
(***************************************************************************)
EXTENDS StreamCalls

CONSTANTS
  Iters,   \* the iterations of a loop
  Tests    \* the sizes, or strides, that are timed

SizesAssumption == Iters \in Nat \ {0} /\ Tests \in Nat \ {0}

T0 == << "t0", 0 >>
T1 == << "t1", 0 >>

Repeat(calls) == ForEach(1, Iters, LAMBDA i : calls)

\* One launch to warm up, then a timed loop between two events.
Bench(launch) ==
  launch \o SyncDevice(0)
    \o Stamp(T0) \o Repeat(launch) \o Stamp(T1) \o SyncEvent(T1) \o Elapsed(T0, T1)

\* The result is copied back and compared with what the host has.
Verify(output, inputs) == Download(output, output) \o HostDoes(Hosts({output} \cup inputs), {})

-------------------------------------------------------------------------------

\* transpose.hg: three kernels write the same output.
Transpose ==
  LET BenchAndVerify == Bench(Kernel({"in"}, {"out"})) \o Verify("out", {"in"}) IN
    HostDoes({}, {Host("in")}) \o Alloc(Devs({"in", "out"}))
      \o ForEach(1, Tests, LAMBDA t :
           Upload("in", "in") \o BenchAndVerify \o BenchAndVerify \o BenchAndVerify)
      \o Free(Devs({"in", "out"}))

\* aiu_throughput.hg: the copy by all threads, then by the AIU.
AiuThroughput ==
  LET BenchAndVerify == Bench(Kernel({"in"}, {"out"})) \o Verify("out", {"in"}) IN
    HostDoes({}, {Host("in")}) \o Alloc(Devs({"in", "out"})) \o Upload("in", "in")
      \o ForEach(1, Tests, LAMBDA t : BenchAndVerify \o BenchAndVerify)
      \o Free(Devs({"in", "out"}))

SmemBankConflict ==
  Alloc({Dev("out")})
    \o ForEach(1, Tests, LAMBDA stride : Bench(Kernel({}, {"out"})) \o Verify("out", {}))
    \o Bench(Kernel({}, {"out"}))
    \o Free({Dev("out")})

\* matrix_mul.hg: C = alpha A B + beta C reads what it writes, so that the copy of
\* C that is verified starts from the host's C again.
UploadMatrices == Upload("A", "A") \o Upload("B", "B") \o Upload("C", "C")
Gemm           == Kernel({"A", "B", "C"}, {"C"})

MatrixMul ==
  HostDoes({}, Hosts({"A", "B", "C"})) \o Alloc(Devs({"A", "B", "C"})) \o UploadMatrices
    \o Repeat(Gemm) \o SyncDevice(0)
    \o Stamp(T0) \o Repeat(Gemm) \o Stamp(T1) \o SyncEvent(T1) \o Elapsed(T0, T1)
    \o Upload("C", "C") \o Gemm \o SyncDevice(0)
    \o Verify("C", {})
    \o Free(Devs({"A", "B", "C"}))

MatrixMulRuntimeCompiled ==
  HostDoes({}, Hosts({"A", "B", "C"})) \o Alloc(Devs({"A", "B", "C"})) \o UploadMatrices
    \o Repeat(Gemm \o SyncDevice(0))
    \o Upload("C", "C") \o Gemm \o SyncDevice(0)
    \o Verify("C", {})
    \o Free(Devs({"A", "B", "C"}))

\* main.cpp: rows to a buffer, columns from there; one buffer for all iterations.
ConvolutionSeparable ==
  LET RowsAndColumns == Kernel({"input", "weights"}, {"buf"}) \o Kernel({"buf", "weights"}, {"output"}) IN
    HostDoes({}, Hosts({"input", "weights"})) \o Alloc(Devs({"input", "buf", "output"}))
      \o Upload("input", "input") \o Upload("weights", "weights")
      \o Repeat(RowsAndColumns) \o SyncDevice(0) \o Repeat(RowsAndColumns) \o SyncDevice(0)
      \o Verify("output", {"input"})
      \o Free(Devs({"input", "buf", "output"}))

\* The kernels add to the histogram, so that each launch starts from zero.
HistogramLaunch == Memset("hist") \o Kernel({"hist", "data"}, {"hist"})

Histogram ==
  HostDoes({}, {Host("data")}) \o Alloc(Devs({"data", "hist"})) \o Upload("data", "data")
    \o ForEach(1, 3, LAMBDA strategy :
         Repeat(HistogramLaunch) \o SyncDevice(0) \o Repeat(HistogramLaunch) \o SyncDevice(0)
           \o Verify("hist", {"data"}))
    \o Free(Devs({"data", "hist"}))

\* run_test, with the block size of main and with the one the runtime suggests.
OccupancyTest ==
  HostDoes({}, {Host("array")}) \o Alloc({Dev("array")}) \o Upload("array", "array")
    \o HostDoes({}, {Host("array")})
    \o Stamp(T0) \o Kernel({"array"}, {"array"}) \o Stamp(T1) \o SyncDevice(0) \o Elapsed(T0, T1)
    \o Download("array", "array") \o Free({Dev("array")}) \o HostDoes({Host("array")}, {})

OccupancyCalculator == OccupancyTest \o OccupancyTest

\* Calls of the library that return a value, or a vector of the host, have it.
RadixSortThrust ==
  LET Timed(call) == Stamp(T0) \o call \o Stamp(T1) \o SyncEvent(T1) \o Elapsed(T0, T1)
      Sort   == Kernel({"data"}, {"data"})
      Unique == Kernel({"data"}, {"data", "end"}) \o Download("end", "unique_count")
      Reduce(from, to) == Kernel({from}, {to}) \o Download(to, to)
  IN  HostDoes({}, {Host("data")}) \o Alloc({Dev("data")}) \o Upload("data", "data")
        \o Timed(Sort) \o Download("data", "sorted") \o HostDoes({Host("sorted")}, {})
        \o Timed(Unique) \o HostDoes({Host("unique_count")}, {})
        \o Alloc({Dev("squared")}) \o Timed(Kernel({"data"}, {"squared"}))
        \o Timed(Reduce("squared", "sum")) \o HostDoes({Host("sum")}, {})
        \o Alloc({Dev("scan")}) \o Timed(Kernel({"data"}, {"scan"}))
        \o Download("scan", "total") \o Reduce("data", "check")
        \o HostDoes(Hosts({"total", "check"}), {})
        \o Free(Devs({"data", "squared", "scan"}))

-------------------------------------------------------------------------------
(* mem_strategy_bench.hg: benchmark_strategy.  The data is reset before    *)
(* each launch and read after it.                                          *)

Strategy(allocate, reset, read, free) ==
  HostDoes({}, {Host("in")}) \o allocate
    \o Kernel({"data"}, {"data"}) \o SyncDevice(0)
    \o Repeat(reset \o Kernel({"data"}, {"data"}) \o read)
    \o HostDoes(Hosts({"in", "out"}), {})
    \o free

CopyHost(from, to) == HostDoes({from}, {to})
CopyAsync(from, to) == Async(Null(0), {from}, {to})

\* The managed data is prefetched, and is one buffer to the host and the device.
Managed ==
  LET Reset == CopyHost(Host("in"), Dev("data")) \o Async(Null(0), {Dev("data")}, {}) IN
    Strategy(Alloc({Dev("data")}) \o Reset, Reset,
             SyncDevice(0) \o CopyHost(Dev("data"), Host("out")), Free({Dev("data")}))

MappedStrategy ==
  LET Reset == CopyHost(Host("in"), Dev("data")) IN
    Strategy(Alloc({Dev("data")}) \o Reset, Reset,
             SyncDevice(0) \o CopyHost(Dev("data"), Host("out")), Free({Dev("data")}))

\* Each reset copies the pinned buffer twice, and refills it in between.
PinnedAsync ==
  LET Pinned == Host("pinned") IN
    Strategy(
      Alloc({Pinned}) \o CopyHost(Host("in"), Pinned) \o Alloc({Dev("data")}) \o Upload("pinned", "data"),
      CopyAsync(Pinned, Dev("data")) \o CopyHost(Host("in"), Pinned) \o CopyAsync(Pinned, Dev("data")),
      CopyAsync(Dev("data"), Pinned) \o SyncDevice(0) \o CopyHost(Pinned, Host("out")),
      Free({Pinned}) \o Free({Dev("data")}))

Pageable ==
  Strategy(Alloc({Dev("data")}) \o Upload("in", "data"), Upload("in", "data"),
           Download("data", "out"), Free({Dev("data")}))

MemStrategyBench == Managed \o MappedStrategy \o PinnedAsync \o Pageable

-------------------------------------------------------------------------------
(* Memory: how it is moved, and allocated.                                *)

HostBuf == << "host_buf", 0 >>
DevBuf  == << "dev_buf", 0 >>
End     == << "evt_end", 0 >>

AsyncEventTiming ==
  Alloc({HostBuf}) \o HostDoes({}, {HostBuf})
    \o Alloc({DevBuf}) \o Async(Null(0), {}, {DevBuf})
    \o SyncDevice(0)
    \o Async(Null(0), {HostBuf}, {DevBuf})
    \o Async(Null(0), {DevBuf}, {DevBuf})
    \o Async(Null(0), {DevBuf}, {HostBuf})
    \o Record(End, Null(0)) \o SyncEvent(End)
    \o HostDoes({HostBuf}, {})
    \o Free({HostBuf}) \o Free({DevBuf})

-------------------------------------------------------------------------------
\* A mapped buffer is one buffer to the host and the device.
ZeroCopy ==
  Alloc({Host("a")}) \o Alloc({Host("b")}) \o Alloc({Host("c")})
    \o HostDoes({}, {Host("a"), Host("b")})
    \o Async(Null(0), {Host("a"), Host("b")}, {Host("c")}) \o SyncDevice(0)
    \o HostDoes({Host("a"), Host("b"), Host("c")}, {})
    \o Free({Host("a")}) \o Free({Host("b")}) \o Free({Host("c")})

DriverRuntimeInterop ==
  LET s == NonBlocking(0, 0) IN
    Alloc({Host("a"), Host("b"), Host("c")})
      \o HostDoes({}, {Host("a"), Host("b")})
      \o Alloc({Dev("a"), Dev("b"), Dev("c")})
      \o Async(s, {Host("a")}, {Dev("a")}) \o Async(s, {Host("b")}, {Dev("b")})
      \o Async(s, {Dev("a"), Dev("b")}, {Dev("c")})
      \o Async(s, {Dev("c")}, {Host("c")})
      \o SyncStream(s)
      \o HostDoes({Host("a"), Host("b"), Host("c")}, {})
      \o Free({Dev("a"), Dev("b"), Dev("c")})
      \o Free({Host("a"), Host("b"), Host("c")})

-------------------------------------------------------------------------------
X == << "d_x", 0 >>
Y == << "d_y", 0 >>

Pool == NonBlocking(0, 0)

TestSyncMalloc ==
  ForEach(1, Iters, LAMBDA i :
    Alloc({X}) \o Alloc({Y})
      \o Memcpy(0, Host("x"), X) \o Async(Null(0), {}, {Y})
      \o Async(Null(0), {X, Y}, {Y}) \o SyncDevice(0)
      \o Free({X}) \o Free({Y}))

\* The kernel on the default stream, the memory on the pool's.
IterationOnTwoStreams ==
  MallocAsync(Pool, X) \o MallocAsync(Pool, Y)
    \o Async(Pool, {Host("x")}, {X}) \o Async(Pool, {}, {Y})
    \o Async(Null(0), {X, Y}, {Y})
    \o FreeAsync(Pool, X) \o FreeAsync(Pool, Y)
    \o SyncStream(Pool)

\* With the release threshold at zero or at its greatest: what the pool is given
\* back it may hand out again at once, so that d_x is the same memory each time.
PoolIteration ==
  MallocAsync(Pool, X) \o MallocAsync(Pool, Y)
    \o Async(Pool, {Host("x")}, {X}) \o Async(Pool, {}, {Y})
    \o Async(Pool, {X, Y}, {Y})
    \o FreeAsync(Pool, X) \o FreeAsync(Pool, Y)
    \o SyncStream(Pool)

TestAsyncCold      == ForEach(1, Iters, LAMBDA i : PoolIteration)
TestAsyncPoolReuse == ForEach(1, Iters, LAMBDA i : PoolIteration)

MemPoolLifecycle ==
  Alloc({Host("x")}) \o HostDoes({}, {Host("x")})
    \o TestSyncMalloc \o TestAsyncCold \o TestAsyncPoolReuse
    \o Free({Host("x")})
===============================================================================
