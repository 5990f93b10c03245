---------------------------- MODULE KernelPrograms ----------------------------
(***************************************************************************)
(* The programs of the samples that show a kernel: its input is copied to  *)
(* the device, it runs once or a few times, its output is copied back and  *)
(* compared.  A wait after the launch is either there or the copy's.       *)
(***************************************************************************)
EXTENDS StreamCalls, FiniteSetsExt

CONSTANT Images   \* the images that are decoded

SizesAssumption == Images \in Nat \ {0}

Each(names, F(_)) == FoldSet(LAMBDA x, calls : calls \o F(x), << >>, names)

UploadAll(names)   == Each(names, LAMBDA x : Upload(x, x))
DownloadAll(names) == Each(names, LAMBDA x : Download(x, x))
MemsetAll(names)   == Each(names, Memset)

\* A kernel may add to what it writes.
LaunchKernel(inputs, outputs, wait) == Kernel(inputs, outputs) \o wait

\* The whole of a sample: what it copies, clears, computes and copies back.
Shown(inputs, cleared, outputs, wait) ==
  HostDoes({}, Hosts(inputs)) \o Alloc(Devs(inputs \cup outputs))
    \o UploadAll(inputs) \o MemsetAll(cleared)
    \o LaunchKernel(inputs \cup cleared, outputs, wait)
    \o DownloadAll(outputs) \o HostDoes(Hosts(inputs \cup outputs), {})
    \o Free(Devs(inputs \cup outputs))

Waited == SyncDevice(0)
NoWait == << >>

-------------------------------------------------------------------------------

AiuAsyncCopy       == Shown({"input"}, {}, {"output"}, Waited)
AiuGemm            == Shown({"A", "B"}, {"D"}, {"D"}, Waited)
TensorCellGemmBf16 == Shown({"A", "B"}, {"D"}, {"D"}, Waited)
TensorCellGemmInt8 == Shown({"A", "B"}, {"D"}, {"D"}, Waited)
TensorCellGemmTf32 == Shown({"A", "B"}, {"D"}, {"D"}, Waited)
ProjectTemplate    == Shown({"A", "x"}, {}, {"y"}, Waited)

VectorAdd                == Shown({"x", "y"}, {}, {"out"}, NoWait)
VectorAddRuntimeCompiled == Shown({"x", "y"}, {}, {"out"}, Waited)
VectorAddDriverApi       == Shown({"x", "y"}, {}, {"out"}, Waited)
MatrixMulDriverApi       == Shown({"A", "B", "C"}, {}, {"C"}, NoWait)

AtomicIntrinsicsRuntimeCompiled == Shown({"slots"}, {}, {"slots"}, Waited)

BinaryPartition ==
  Shown({"data", "pos_max", "neg_min"}, {"pos_cnt", "neg_cnt"},
        {"pos_max", "neg_min", "pos_cnt", "neg_cnt"}, Waited)

\* Four tests with buffers of their own, also where the kernels are compiled by main.
InlineTix ==
  Shown({"x"}, {}, {"out"}, Waited) \o Shown({"data"}, {}, {"out"}, Waited)
    \o Shown({"a", "b"}, {}, {"out"}, Waited) \o Shown({"data"}, {}, {"out"}, Waited)

InlineTixRuntimeCompiled == InlineTix

\* mpi_ppu_dispatch.hg, compute_gradient: the result replaces the input.
ComputeGradient ==
  HostDoes({}, {Host("data")}) \o Alloc(Devs({"in", "out"})) \o Upload("data", "in")
    \o Kernel({"in"}, {"out"}) \o Download("out", "data") \o Free(Devs({"in", "out"}))
    \o HostDoes({Host("data")}, {})

-------------------------------------------------------------------------------
(* Several launches                                                        *)

\* Input once; each run may clear its output, and is read before the next.
RunAndRead(inputs, cleared, outputs, wait) ==
  MemsetAll(cleared) \o LaunchKernel(inputs \cup cleared, outputs, wait)
    \o DownloadAll(outputs) \o HostDoes(Hosts(outputs), {})

Several(inputs, outputs, runs) ==
  HostDoes({}, Hosts(inputs)) \o Alloc(Devs(inputs \cup outputs)) \o UploadAll(inputs)
    \o runs \o Free(Devs(inputs \cup outputs))

\* global_to_shmem_async_copy.hg: the three strategies add to one output.
GlobalToShmem ==
  LET Run == RunAndRead({"input"}, {"output"}, {"output"}, Waited) IN
    Several({"input"}, {"output"}, Run \o Run \o Run)

Spmv ==
  LET Matrix == {"row_ptr", "col_idx", "values", "x"}
      Run == RunAndRead(Matrix, {"y"}, {"y"}, Waited)
  IN  Several(Matrix, {"y"}, Run \o Run)

WarpRedux ==
  LET Run == RunAndRead({"input"}, {}, {"redux", "shfl"}, Waited) IN
    Several({"input"}, {"redux", "shfl"}, Run \o Run \o Run \o Run)

Fp16DotProduct ==
  LET Run == RunAndRead({"vec0", "vec1"}, {}, {"partials"}, NoWait) IN
    Several({"vec0", "vec1"}, {"partials"}, Run \o Run)

Clock ==
  LET Run == RunAndRead({"input"}, {}, {"output", "timer"}, Waited) IN
    Several({"input"}, {"output", "timer"}, Run \o Run)

ClockRuntimeCompiled == Clock

\* warp_vote_ops.hg: two votes on one input; the third has its own buffer.
WarpVoteOps ==
  LET Run == SyncDevice(0) \o RunAndRead({"input"}, {}, {"result"}, Waited) IN
    Several({"input"}, {"result"},
            Run \o Run \o HostDoes({}, {Host("info")}) \o Alloc({Dev("info")}) \o Upload("info", "info")
              \o SyncDevice(0) \o RunAndRead({}, {}, {"info"}, Waited))
      \o Free({Dev("info")})

WarpAggregatedAtomics ==
  LET Labels == {"labels", "weights"} IN
    Several(Labels, {"count", "weight", "scan"},
            MemsetAll({"count", "weight"})
              \o LaunchKernel(Labels \cup {"count", "weight"}, {"count", "weight", "scan"}, Waited)
              \o DownloadAll({"count", "weight"}) \o HostDoes(Hosts({"count", "weight"}), {})
              \o Alloc(Devs({"naive_count", "naive_weight"}))
              \o RunAndRead(Labels, {"naive_count", "naive_weight"}, {"naive_count", "naive_weight"}, Waited))
      \o Free(Devs({"naive_count", "naive_weight"}))

\* cpp_template_kernels.hg: a second pass over the partial results of the first.
DispatchReduce ==
  Several({"in"}, {"out"},
          Kernel({"in"}, {"out"}) \o Alloc({Dev("final")}) \o Kernel({"out"}, {"final"})
            \o SyncDevice(0) \o Download("final", "result") \o Free({Dev("final")})
            \o HostDoes(Hosts({"in", "result"}), {}))

\* new_delete.hg: the list stays on the device's heap, its head in memory of main's.
NewDelete ==
  Alloc(Devs({"head", "result"})) \o Memset("head")
    \o LaunchKernel({}, {"head", "list"}, Waited)
    \o LaunchKernel({"head", "list"}, {"result"}, Waited)
    \o Download("result", "result") \o HostDoes({Host("result")}, {})
    \o << [Kernel({"head", "list"}, {"list"})[1] EXCEPT !.clear = TRUE] >> \o SyncDevice(0)
    \o Free(Devs({"head", "result"}))

\* assert.hg: the kernel that checks the output runs before and after it is
\* corrupted, by a kernel here and by a copy where the kernels are compiled by main.
AssertSample(corrupt) ==
  Several({"input"}, {"output"},
          LaunchKernel({"input"}, {"output"}, Waited) \o LaunchKernel({"output"}, {}, Waited)
            \o corrupt \o LaunchKernel({"output"}, {}, Waited))

Assert == AssertSample(LaunchKernel({"output"}, {"output"}, Waited))

AssertRuntimeCompiled == AssertSample(HostDoes({}, {Host("bad_val")}) \o Upload("bad_val", "output"))

-------------------------------------------------------------------------------
(* On a stream that does not wait for the default stream                   *)

OnStream(inputs, outputs) ==
  LET s == NonBlocking(0, 0) IN
    Each(inputs, LAMBDA x : Async(s, {Host(x)}, {Dev(x)}))
      \o Async(s, Devs(inputs), Devs(outputs))
      \o Async(s, {Dev("a")}, {Host("a")}) \o SyncStream(s)
      \o HostDoes({Host("a")}, {})

\* static.hg of atomic_intrinsics, where "a" is the slots.
AtomicIntrinsics ==
  Alloc({Host("a")}) \o HostDoes({}, {Host("a")}) \o Alloc({Dev("a")})
    \o OnStream({"a"}, {"a"}) \o Free({Dev("a")}) \o Free({Host("a")})

\* cooperative_sync.hg, run_awb_normalise.
AwbNormalise ==
  Alloc(Hosts({"a", "b"})) \o Alloc(Devs({"a", "b"})) \o HostDoes({}, Hosts({"a", "b"}))
    \o Alloc({Dev("partials")})
    \o OnStream({"a", "b"}, {"a", "b", "partials"})
    \o Free(Devs({"a", "b", "partials"})) \o Free(Hosts({"a", "b"}))

-------------------------------------------------------------------------------
(* The image samples.  A library call is work of the stream it is given.   *)

\* hg_jpeg.cpp, compute_and_print_stats of a channel.
ChannelStatistics ==
  Alloc(Devs({"min", "max", "sum"})) \o Memset("sum")
    \o LaunchKernel({"channel", "sum"}, {"min", "max", "sum"}, Waited)
    \o DownloadAll({"min", "max", "sum"}) \o HostDoes(Hosts({"min", "max", "sum"}), {})
    \o Free(Devs({"min", "max", "sum"}))

\* A batch of one image: decoded, its channels looked at, freed.
HgJpeg ==
  ForEach(1, Images, LAMBDA image :
    HostDoes({}, {Host("raw")}) \o Alloc({Dev("channel")})
      \o Async(Null(0), {Host("raw")}, {Dev("channel")})
      \o ChannelStatistics \o ChannelStatistics \o ChannelStatistics
      \o Free({Dev("channel")}))

\* hg_jpeg_encoder.cpp: encoded at every quality; to retrieve the bitstream waits.
HgJpegEncoder ==
  ForEach(1, Images, LAMBDA image :
    HostDoes({}, {Host("raw")}) \o Alloc({Dev("image")})
      \o Async(Null(0), {Host("raw")}, {Dev("image")}) \o SyncDevice(0)
      \o ForEach(1, 4, LAMBDA quality :
           Kernel({"image"}, {"bitstream"}) \o Download("bitstream", "buf"))
      \o HostDoes({Host("buf")}, {})
      \o Free({Dev("image")}))
===============================================================================
