---------------------------- MODULE MCHostPrograms ----------------------------
(***************************************************************************)
(* Instances of the samples whose host side is the hard part.              *)
(***************************************************************************)
EXTENDS HostPrograms

\* The programs of StreamProgram, with two or three streams, devices and iterations.
Concurrency == INSTANCE ConcurrencyPrograms WITH NumStreams <- 3, Reps <- 3, NumDevices <- 2
Graphs == INSTANCE GraphPrograms WITH Iters <- 2, Width <- 3, Length <- 2
Library == INSTANCE LibraryPrograms WITH N <- 3
Benches == INSTANCE BenchPrograms WITH Iters <- 2, Tests <- 2
Kernels == INSTANCE KernelPrograms WITH Images <- 2

ASSUME ProgramsAssumption ==
  /\ Concurrency!SizesAssumption
  /\ Graphs!SizesAssumption /\ Library!SizesAssumption
  /\ Benches!SizesAssumption /\ Kernels!SizesAssumption

SamplePrograms ==
  [ streams |-> Concurrency!RunStreams, hyperq |-> Concurrency!RunHyperq,
    multicopy |-> Concurrency!RunMulticopy,
    multi_dispatch |-> Concurrency!RunMultiDispatch, p2p |-> Concurrency!RunP2p,
    async_event_timing |-> Benches!AsyncEventTiming, zero_copy |-> Benches!ZeroCopy,
    driver_runtime_interop |-> Benches!DriverRuntimeInterop,
    mem_pool_lifecycle |-> Benches!MemPoolLifecycle,
    simple_hggc_graphs |-> Graphs!SimpleGraphs,
    graph_memory_nodes |-> Graphs!GraphMemoryNodes,
    graph_memory_footprint |-> Graphs!GraphMemoryFootprint,
    power_iteration_graph |-> Graphs!PowerIterationGraph,
    graph_conditional_nodes |-> Graphs!ConditionalNodes,
    hggc_graph_perf_scaling |-> Graphs!GraphPerfScaling,
    acsolver_lu |-> Library!AcsolverLu("none"),
    acsolver_lu_singular |-> Library!AcsolverLu("getrf"),
    acsolver_lu_unsolved |-> Library!AcsolverLu("getrs"),
    acblas_lu |-> Library!AcblasLu({1}, 3),
    acblas_lu_singular |-> Library!AcblasLu({0}, 2),
    acdnn_conv_activation |-> Library!ConvActivation,
    simple_acfft |-> Library!Acfft, jit_lto |-> Library!JitLto,
    transpose |-> Benches!Transpose, aiu_throughput |-> Benches!AiuThroughput,
    smem_bank_conflict |-> Benches!SmemBankConflict,
    mem_strategy_bench |-> Benches!MemStrategyBench,
    matrix_mul |-> Benches!MatrixMul,
    matrix_mul_runtime_compiled |-> Benches!MatrixMulRuntimeCompiled,
    convolution_separable |-> Benches!ConvolutionSeparable,
    histogram |-> Benches!Histogram,
    occupancy_calculator |-> Benches!OccupancyCalculator,
    radix_sort_thrust |-> Benches!RadixSortThrust,
    aiu_async_copy |-> Kernels!AiuAsyncCopy,
    aiu_gemm |-> Kernels!AiuGemm,
    bf16_gemm |-> Kernels!TensorCellGemmBf16,
    imma_gemm |-> Kernels!TensorCellGemmInt8,
    tf32_gemm |-> Kernels!TensorCellGemmTf32,
    project_template |-> Kernels!ProjectTemplate,
    vector_add |-> Kernels!VectorAdd,
    vector_add_runtime_compiled |-> Kernels!VectorAddRuntimeCompiled,
    vector_add_driver_api |-> Kernels!VectorAddDriverApi,
    matrix_mul_driver_api |-> Kernels!MatrixMulDriverApi,
    atomic_runtime_compiled |-> Kernels!AtomicIntrinsicsRuntimeCompiled,
    binary_partition_cg |-> Kernels!BinaryPartition,
    inline_tix |-> Kernels!InlineTix,
    inline_tix_hgrtc |-> Kernels!InlineTixRuntimeCompiled,
    mpi_gradient |-> Kernels!ComputeGradient,
    global_to_shmem |-> Kernels!GlobalToShmem,
    spmv |-> Kernels!Spmv,
    warp_redux |-> Kernels!WarpRedux,
    fp16_dot_product |-> Kernels!Fp16DotProduct,
    clock |-> Kernels!Clock,
    clock_runtime_compiled |-> Kernels!ClockRuntimeCompiled,
    warp_vote_ops |-> Kernels!WarpVoteOps,
    warp_aggregated_atomics_cg |-> Kernels!WarpAggregatedAtomics,
    cpp_template_kernels |-> Kernels!DispatchReduce,
    new_delete |-> Kernels!NewDelete,
    assert |-> Kernels!Assert,
    assert_runtime_compiled |-> Kernels!AssertRuntimeCompiled,
    atomic_intrinsics |-> Kernels!AtomicIntrinsics,
    cooperative_sync |-> Kernels!AwbNormalise,
    hg_jpeg |-> Kernels!HgJpeg,
    hg_jpeg_encoder |-> Kernels!HgJpegEncoder ]

\* Images of two sizes, one that cannot be read, and two suffixes of the decoder only.
SomeFile(suffix, readable, size) == [suffix |-> suffix, readable |-> readable, size |-> size]
SomeFiles ==
  { SomeFile("jpg", TRUE, 1), SomeFile("JPG", TRUE, 2), SomeFile("jpg", FALSE, 1),
    SomeFile("jpeg", TRUE, 1), SomeFile("other", TRUE, 1) }

SomeDirectories == UNION { [1..n -> SomeFiles] : n \in 0..3 }

Option(name, value) == [dashes |-> 1, name |-> name, value |-> value]

\* Nothing, one option, or two of which one is a device or a second device.
OneOption ==
  { Option("device", v) : v \in {None, -1, 0, 1, 2} }
    \cup { Option("h", None), Option("H", 5), Option("N", 1), Option("N", 4), Option("wA", 3) }
CommandLines ==
  { << >> } \cup { << o >> : o \in OneOption }
    \cup { << o, Option("device", 1) >> : o \in OneOption }

PPU(mode, capability, units, clock) ==
  [mode |-> mode, capability |-> capability, units |-> units, clock |-> clock]

\* Two that tie, one that may not be used, and poorly supported ones.
Common == { PPU("default", "8.0", 2, 1), PPU("default", "8.9", 1, 1),
            PPU("prohibited", "8.9", 2, 1) }
Rare   == { PPU("default", "8.0", 1, Unexposed), PPU("default", "9.0", 1, 0),
            PPU("default", "0.9", 1, 1) }
PPUs ==
  UNION { [1..n -> Common] : n \in 0..3 } \cup UNION { [1..n -> Common \cup Rare] : n \in 1..2 }

OptionNames == {"device", "h", "H", "N", "wA"}
LowerCase == [n \in OptionNames |-> IF n = "H" THEN "h" ELSE n]

\* The constants' values: TLC evaluates a definition once, but what a constant is
\* replaced by at every use.
MCPrograms    == SamplePrograms
MCDirectories == SomeDirectories
MCOptionName  == OptionNames
MCLetters     == {"h", "H", "N"}
MCLower       == LowerCase
MCLines       == CommandLines
MCSystems     == PPUs
===============================================================================
