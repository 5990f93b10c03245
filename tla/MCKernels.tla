------------------------------- MODULE MCKernels -------------------------------
(***************************************************************************)
(* Instances of the kernels that work on shared memory between barriers.   *)
(***************************************************************************)
EXTENDS KernelMachines

\* Four threads; two for the arrive-wait barrier, whose copies and links multiply.
Reductions == INSTANCE BlockKernels WITH WarpSize <- 1, Width <- 4, Tiles <- 2
Awbars     == INSTANCE BlockKernels WITH WarpSize <- 1, Width <- 2, Tiles <- 3
Tiled      == INSTANCE BlockKernels WITH WarpSize <- 1, Width <- 4, Tiles <- 3

BlockPrograms ==
  [ reduce_naive |-> Reductions!ReduceNaive,
    reduce_cpasync_waitgroup |-> Reductions!ReduceWaitGroup,
    reduce_cpasync_awbar |-> Awbars!ReduceAwbar,
    reduce_kernel |-> Reductions!ReduceKernel, norm_sq_kernel |-> Reductions!NormSquared,
    warp_reduce_clocks |-> Reductions!WarpReduceClocks, dot_kernel |-> Reductions!DotKernel,
    compute_channel_stats |-> Reductions!ChannelStats,
    tix_tc_gemm |-> Tiled!TixTcGemm, tix_tc_gemm_int8 |-> Tiled!TixTcGemmInt8,
    tix_tc_gemm_tf32 |-> Tiled!TixTcGemmTf32, aiu_gemm |-> Tiled!AiuGemm,
    gemm_bias |-> Tiled!GemmBias, gemm_bias_b16 |-> Tiled!GemmBiasRuntimeCompiled,
    gemm_bias_bs8 |-> Tiled!GemmBiasDriverApi, gemv |-> Tiled!Gemv,
    aiu_transpose |-> Tiled!AiuTranspose, aiu_copy_and_load |-> Tiled!AiuCopyAndLoad,
    aiu_bulk_copy |-> Tiled!AiuBulkCopy, cp_async_copy |-> Tiled!CpAsyncCopy,
    native_transpose |-> Tiled!NativeTranspose, smem_read |-> Tiled!SmemRead,
    row_conv |-> Tiled!RowConv, col_conv |-> Tiled!ColConv,
    hist_shared |-> Tiled!HistShared, hist_warp |-> Tiled!HistWarp,
    awb_normalise_dot |-> Tiled!AwbNormaliseDot ]

ASSUME InstancesAssumption ==
  Reductions!SizesAssumption /\ Awbars!SizesAssumption /\ Tiled!SizesAssumption

\* Floats that are split by sign.
SomeReals == -2..1

\* The constants' values: TLC evaluates a definition once, but what a constant is
\* replaced by at every use.
MCPrograms == BlockPrograms
MCReals    == SomeReals

\* Of two blocks the second comes sorted by key: the first shows how a block is
\* sorted, and with it all pairs of sorted blocks are merged.
SecondBlockSorted ==
  \A i, j \in Capacity..host.n - 1 : i < j => gmem.src[i][1] <= gmem.src[j][1]

MCInit == Init /\ (sample = "block_sort_merge" => SecondBlockSorted)

MCSpec == MCInit /\ [][Next]_vars /\ WF_vars(Next)
===============================================================================
