----------------------------- MODULE BlockKernels -----------------------------
(***************************************************************************)
(* Kernels as programs of BlockProgram: sequences of steps that all        *)
(* threads of a block take.  They fill arrays in shared memory, wait, and  *)
(* read what other threads stored: they add it up, or go through matrices, *)
(* images or counts tile by tile.  A few threads stand for a block; global *)
(* memory and the arithmetic are left out.                                 *)
(*                                                                         *)
(* A step is [op, on, n, memory]: for each thread the locations it         *)
(* accesses, or the threads it waits for, and nothing if the step is not   *)
(* the thread's; the count of a wait or of a barrier; whether it is an     *)
(* access of memory.                                                       *)
(***************************************************************************)
EXTENDS DeviceKernel, Sequences

LOCAL INSTANCE SequencesExt

CONSTANTS
  Width,   \* the threads of a block that adds up, a power of 2
  Tiles    \* num_k_tiles, and the other loops over tiles

SizesAssumption == Width \in {2, 4, 8} /\ Tiles \in Nat /\ Tiles > 1

-------------------------------------------------------------------------------
(* The steps                                                               *)

Step(op, n, T, On(_)) ==
  << [op |-> op, n |-> n, on |-> [t \in T |-> On(t)],
      memory |-> op \in {"load", "store", "add", "copy"}] >>

Load(T, On(_))   == Step("load", 0, T, On)
Store(T, On(_))  == Step("store", 0, T, On)
Add(T, On(_))    == Step("add", 0, T, On)
Copy(T, On(_))   == Step("copy", 0, T, On)

At(array, i) == {<< array, i >>}

If(cond, locations) == IF cond THEN locations ELSE {}

\* The threads t with R(t) return.
Return(T, R(_)) == Step("return", 0, T, LAMBDA t : If(R(t), {t}))

\* Each thread of T waits for its group: the block, the grid.
GroupSync(T, Group(_)) == Step("sync", 0, T, Group)
Sync(T) == GroupSync(T, LAMBDA t : T)

Commit(T)       == Step("commit", 0, T, LAMBDA t : {t})
WaitGroup(T, n) == Step("wait group", n, T, LAMBDA t : {t})

\* The arrive-wait barrier of the block.
InitAwbar(T, n)  == Step("awbar init", n, T, LAMBDA t : If(t = 0, {t}))
Link(T)          == Step("link", 0, T, LAMBDA t : {t})
ArriveAndWait(T) ==
  Step("arrive", 0, T, LAMBDA t : {t}) \o Step("test wait", 0, T, LAMBDA t : {t})

\* One after the other for k = first..last.
ForEach(first, last, F(_)) == FlattenSeq([i \in 1..last - first + 1 |-> F(first + i - 1)])

-------------------------------------------------------------------------------
(* Reductions: for each tile the threads fold an array in halves.  The     *)
(* sums they hold before, and what thread 0 does with the result, are left *)
(* out.                                                                    *)

Block == 0..Width - 1

Levels == Log2(Width)
SpanOf(k) == Width \div 2^k

\* for (s = blockDim.x / 2; s > 0; s >>= 1): the lower half adds the upper half to
\* its own elements, and wait ends the level.
TreeReduce(array, wait) ==
  ForEach(1, Levels, LAMBDA k :
    Load(Block, LAMBDA t : If(t < SpanOf(k), At(array, t) \cup At(array, t + SpanOf(k))))
      \o Store(Block, LAMBDA t : If(t < SpanOf(k), At(array, t)))
      \o wait)

Own(array)   == Store(Block, LAMBDA t : At(array, t))
First(array) == Load(Block, LAMBDA t : If(t = 0, At(array, 0)))

-------------------------------------------------------------------------------
(* global_to_shmem_async_copy.hg                                           *)

ReduceNaive ==
  ForEach(1, Tiles, LAMBDA k :
    Own("smem") \o Sync(Block) \o TreeReduce("smem", Sync(Block)) \o First("smem"))

ReduceWaitGroup ==
  ForEach(1, Tiles, LAMBDA k :
    Copy(Block, LAMBDA t : At("smem", t)) \o Commit(Block) \o WaitGroup(Block, 0)
      \o Sync(Block) \o TreeReduce("smem", Sync(Block)) \o First("smem"))

ReduceAwbar ==
  InitAwbar(Block, Width) \o Sync(Block)
    \o ForEach(1, Tiles, LAMBDA k :
         Copy(Block, LAMBDA t : At("smem", t)) \o Link(Block) \o ArriveAndWait(Block)
           \o TreeReduce("smem", ArriveAndWait(Block)) \o First("smem"))

-------------------------------------------------------------------------------
(* Reductions of one tile                                                  *)

\* cpp_template_kernels.hg
ReduceKernel == Own("sdata") \o Sync(Block) \o TreeReduce("sdata", Sync(Block)) \o First("sdata")

\* power_iteration_graph.hg
NormSquared == Own("smem") \o Sync(Block) \o TreeReduce("smem", Sync(Block)) \o First("smem")

\* streams_concurrency.hg
WarpReduceClocks ==
  Own("scratch") \o Sync(Block) \o TreeReduce("scratch", Sync(Block)) \o First("scratch")

\* fp16_dot_product.hg, both reductions
BlockReduce == TreeReduce("scratch", Sync(Block))

DotKernel == Own("scratch") \o Own("scratch") \o Sync(Block) \o BlockReduce \o First("scratch")

\* hg_jpeg.cpp
ChannelStats ==
  LET Both(t) == At("smin", t) \cup At("smax", t)
  IN  Store(Block, Both) \o Sync(Block)
        \o ForEach(1, Levels, LAMBDA k :
             Load(Block, LAMBDA t : If(t < SpanOf(k), Both(t) \cup Both(t + SpanOf(k))))
               \o Store(Block, LAMBDA t : If(t < SpanOf(k), Both(t)))
               \o Sync(Block))
        \o Load(Block, LAMBDA t : If(t = 0, Both(0)))
        \o Add(Block, LAMBDA t : At("out_sum", 0))

-------------------------------------------------------------------------------
(* Tiles.  Four threads are also two rows, or two warps, of two.           *)

Pair == 0..1
Quad == 0..3

Row(t) == t \div 2
Col(t) == t % 2

Cells(array, rows, cols) == { << array, r, c >> : r \in rows, c \in cols }

-------------------------------------------------------------------------------
(* The tensor cell GEMMs, by a warp whose lanes copy two matrices.  Buffer *)
(* ki % 2 holds tile ki; the copy of the next tile is under way while the  *)
(* current one is used.                                                    *)

AsyncCopyTile(ki) ==
  Copy(Pair, LAMBDA t : Cells("a", {ki % 2}, {t}))
    \o Copy(Pair, LAMBDA t : Cells("b", {ki % 2}, {t}))
    \o Commit(Pair)

LoadFragments(ki) ==
  Load(Pair, LAMBDA t : Cells("a", {ki % 2}, Pair) \cup Cells("b", {ki % 2}, Pair))

\* The loop without its last __syncthreads.
DoubleBufferNoSync ==
  AsyncCopyTile(0)
    \o ForEach(1, Tiles - 1, LAMBDA ki :
         AsyncCopyTile(ki) \o WaitGroup(Pair, 1) \o Sync(Pair) \o LoadFragments(ki - 1))
    \o WaitGroup(Pair, 0) \o Sync(Pair) \o LoadFragments(Tiles - 1)

DoubleBuffer ==
  AsyncCopyTile(0)
    \o ForEach(1, Tiles - 1, LAMBDA ki :
         AsyncCopyTile(ki) \o WaitGroup(Pair, 1) \o Sync(Pair) \o LoadFragments(ki - 1)
           \o Sync(Pair))
    \o WaitGroup(Pair, 0) \o Sync(Pair) \o LoadFragments(Tiles - 1)

TixTcGemm     == DoubleBuffer
TixTcGemmInt8 == DoubleBuffer
TixTcGemmTf32 == DoubleBuffer

\* aiu_gemm.hg: lane 0 copies the strip of A for several tiles of B.
AiuGemm ==
  LET CopyBy0(array) == Copy(Pair, LAMBDA t : If(t = 0, At(array, 0)))
      By0(op) == Step(op, 0, Pair, LAMBDA t : If(t = 0, {t}))
      Both == Load(Pair, LAMBDA t : At("a", 0) \cup At("b", 0))
  IN  ForEach(1, 2, LAMBDA kg :
        CopyBy0("a")
          \o ForEach(1, 2, LAMBDA kt :
               CopyBy0("b") \o By0("commit") \o By0("wait group")
                 \o Sync(Pair) \o Both \o Sync(Pair)))

\* matrix_mul.hg and its two other builds: a tile of each matrix, stored by all.
GemmBias ==
  ForEach(1, Tiles, LAMBDA phase :
    Store(Quad, LAMBDA t : Cells("sA", {Row(t)}, {Col(t)}) \cup Cells("sB", {Row(t)}, {Col(t)}))
      \o Sync(Quad)
      \o Load(Quad, LAMBDA t : Cells("sA", {Row(t)}, Pair) \cup Cells("sB", Pair, {Col(t)}))
      \o Sync(Quad))

GemmBiasRuntimeCompiled == GemmBias
GemmBiasDriverApi       == GemmBias

\* project_template.hg: the vector, tile by tile; the last thread is past row M.
Gemv ==
  ForEach(1, Tiles, LAMBDA k :
    Store(Quad, LAMBDA t : At("xs", t)) \o Sync(Quad)
      \o Load(Quad, LAMBDA t : If(t < 3, UNION { At("xs", j) : j \in Quad })) \o Sync(Quad))

-------------------------------------------------------------------------------
(* Copies to shared memory and back                                        *)

\* Lane 0 of each of two warps has the AIU copy its warp's tile.
AiuTileOfWarp ==
  LET Lane0(t) == Col(t) = 0
      OfLane0(op) == Step(op, 0, Quad, LAMBDA t : If(Lane0(t), {t}))
  IN  Copy(Quad, LAMBDA t : If(Lane0(t), At("smem", Row(t))))
        \o OfLane0("commit") \o OfLane0("wait group")
        \o Sync(Quad) \o Load(Quad, LAMBDA t : At("smem", Row(t)))

AiuTranspose   == AiuTileOfWarp
AiuCopyAndLoad == AiuTileOfWarp
AiuBulkCopy    == AiuTileOfWarp

\* aiu_throughput.hg, cp_async_copy_kernel: each thread its own bytes.
CpAsyncCopy ==
  ForEach(0, 1, LAMBDA i : Copy(Pair, LAMBDA t : At("smem", 2 * t + i)))
    \o Commit(Pair) \o WaitGroup(Pair, 0) \o Sync(Pair)
    \o ForEach(0, 1, LAMBDA i : Load(Pair, LAMBDA t : At("smem", 2 * t + i)))

\* transpose.hg, native_transpose_kernel: rows are stored, columns are read.
NativeTranspose ==
  ForEach(0, 1, LAMBDA row : Store(Pair, LAMBDA tx : Cells("tile", {row}, {tx})))
    \o Sync(Pair)
    \o ForEach(0, 1, LAMBDA row : Load(Pair, LAMBDA tx : Cells("tile", {tx}, {row})))

\* smem_bank_conflict.hg, with a stride of 3 in 8 floats.
SmemRead ==
  ForEach(0, 1, LAMBDA i : Store(Quad, LAMBDA t : At("smem", t + 4 * i)))
    \o Sync(Quad)
    \o ForEach(0, 1, LAMBDA i : Load(Quad, LAMBDA t : At("smem", (t * 3 + i) % 8)))

-------------------------------------------------------------------------------
(* convolutionSeparable.hg: a tile of one row of 4 pixels and a radius of  *)
(* 1 in one dimension, 2 rows in the other; the image ends after 3 pixels  *)
(* and 1 row.  Threads outside of it return, some before the barrier.      *)

ConvThreads == 0..7

Along(t)  == t % 4
Across(t) == t \div 4

Convolution ==
  LET S(t, i) == Cells("smem", {Across(t)}, {i})
  IN  Return(ConvThreads, LAMBDA t : Across(t) >= 1)
        \o Store(ConvThreads, LAMBDA t : S(t, Along(t) + 1))
        \o Store(ConvThreads, LAMBDA t : If(Along(t) < 1, S(t, Along(t))))
        \o Store(ConvThreads, LAMBDA t : If(Along(t) >= 3, S(t, Along(t) + 2)))
        \o Sync(ConvThreads)
        \o Return(ConvThreads, LAMBDA t : Along(t) >= 3)
        \o Load(ConvThreads, LAMBDA t : UNION { S(t, Along(t) + 1 + k) : k \in -1..1 })

RowConv == Convolution
ColConv == Convolution

-------------------------------------------------------------------------------
(* histogram.hg: threads take elements of either bin.                      *)

HistShared ==
  Store(Quad, LAMBDA t : If(t < 2, At("s_hist", t))) \o Sync(Quad)
    \o ForEach(0, 1, LAMBDA i : Add(Quad, LAMBDA t : At("s_hist", (t + i * Row(t)) % 2)))
    \o Sync(Quad)
    \o Load(Quad, LAMBDA t : If(t < 2, At("s_hist", t)))
    \o Add(Quad, LAMBDA t : If(t < 2, At("hist", t)))

\* A histogram for each warp.
HistWarp ==
  Store(Quad, LAMBDA t : Cells("s_hist", {Row(t)}, {Col(t)})) \o Sync(Quad)
    \o ForEach(0, 1, LAMBDA i :
         Add(Quad, LAMBDA t : Cells("s_hist", {Row(t)}, {(t + i * Row(t)) % 2})))
    \o Sync(Quad)
    \o Load(Quad, LAMBDA t : If(t < 2, Cells("s_hist", Pair, {t})))
    \o Add(Quad, LAMBDA t : If(t < 2, Cells("hist", {0}, {t})))

-------------------------------------------------------------------------------
(* cooperative_sync.hg, awb_normalise_dot: two blocks of two warps; each   *)
(* block adds up in shared memory, block 0 adds up the blocks' sums, all   *)
(* divide by the result.  A block passes its arrive-wait gate together.    *)

InBlock0(t) == Row(t) = 0

AwbBlockReduce(InIt(_)) ==
  LET sums(t) == Cells("warp_sums", {Row(t)}, Pair) IN
    Store(Quad, LAMBDA t : If(InIt(t), Cells("warp_sums", {Row(t)}, {Col(t)})))
      \o GroupSync(Quad, LAMBDA t : If(InIt(t), { u \in Quad : Row(u) = Row(t) }))
      \o Load(Quad, LAMBDA t : If(InIt(t) /\ Col(t) = 0, sums(t)))
      \o Store(Quad, LAMBDA t : If(InIt(t) /\ Col(t) = 0, Cells("partials", {Row(t)}, {0})))

AwbNormaliseDot ==
  AwbBlockReduce(LAMBDA t : TRUE) \o Sync(Quad)
    \o Load(Quad, LAMBDA t : If(InBlock0(t), Cells("partials", {Col(t)}, {0})))
    \o AwbBlockReduce(InBlock0) \o Sync(Quad)
    \o Load(Quad, LAMBDA t : Cells("partials", {0}, {0}))
===============================================================================
