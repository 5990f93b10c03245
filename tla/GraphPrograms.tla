----------------------------- MODULE GraphPrograms -----------------------------
(***************************************************************************)
(* The programs of the graph samples: simple_hggc_graphs.hg,               *)
(* graph_memory_nodes.hg, graph_memory_footprint.hg,                       *)
(* power_iteration_graph.hg, graph_conditional_nodes.hg and                *)
(* hggc_graph_perf_scaling.hg.  What a stream captures are the nodes of a  *)
(* chain.                                                                  *)
(***************************************************************************)
EXTENDS StreamCalls

CONSTANTS Iters, Width, Length   \* of loops, of the fork and of its branches

SizesAssumption == {Iters, Width, Length} \subseteq Nat \ {0}

Stream == NonBlocking(0, 0)

-------------------------------------------------------------------------------
(* simple_hggc_graphs                                                      *)

Data   == << "d_data", 0 >>
HInit  == << "h_init", 0 >>
HVal   == << "h_val", 0 >>
Synced == << "sync_event", 0 >>

Graph1 ==
  Launch("graph1", Stream,
         Node("graph1", "scale", {}, {Data}, {Data})
           \o RecordNode("graph1", "event", {"scale"}, Synced),
         {"event"})

\* graph2, and its clone with another bias.
Graph2(g) ==
  Launch(g, Stream,
         WaitNode(g, "wait", Synced)
           \o Node(g, "bias", {"wait"}, {Data}, {Data})
           \o Node(g, "host", {"bias"}, {}, {}),
         {"host"})

\* The child's last node is the one the bias waits for.
ParentGraph ==
  Launch("parent", Stream,
         Node("parent", "scale", {}, {Data}, {Data})
           \o RecordNode("parent", "event", {"scale"}, Synced)
           \o Node("parent", "bias", {"event"}, {Data}, {Data}),
         {"bias"})

ReadResult == SyncStream(Stream) \o Memcpy(0, Data, HVal) \o HostDoes({HVal}, {})

SimpleGraphs ==
  Alloc({Data}) \o HostDoes({}, {HInit})
    \o Memcpy(0, HInit, Data) \o Graph1 \o Graph2("graph2") \o ReadResult
    \o Memcpy(0, HInit, Data) \o ParentGraph \o ReadResult
    \o Memcpy(0, HInit, Data) \o Graph1 \o Graph2("clone") \o ReadResult
    \o Free({Data}) \o Free({HInit})

-------------------------------------------------------------------------------
(* graph_memory_nodes                                                      *)

Input   == << "d_input", 0 >>
HInput  == << "h_input", 0 >>
Tmp(m)  == << "d_tmp", m >>
Out(m)  == << "d_data", m >>
HOut(m) == << "h_out", m >>

\* Both ways of building give the same chain.
ScaleBias(g, m) ==
  Launch(g, Stream,
         ClearNode(g, "alloc", {}, Tmp(m))
           \o Node(g, "scale", {"alloc"}, {Input}, {Tmp(m)})
           \o Node(g, "bias", {"scale"}, {Tmp(m)}, {Out(m)})
           \o ClearNode(g, "free", {"bias"}, Tmp(m)),
         {"free"})

GraphMemoryNodes ==
  HostDoes({}, {HInput})
    \o Alloc({Input, Out(1), Out(2)}) \o Memcpy(0, HInput, Input)
    \o ScaleBias("build_graph_api", 1) \o ScaleBias("build_stream_capture", 2)
    \o SyncStream(Stream)
    \o Memcpy(0, Out(1), HOut(1)) \o Memcpy(0, Out(2), HOut(2))
    \o HostDoes({HOut(1), HOut(2)}, {})
    \o Free({Input, Out(1), Out(2)}) \o Free({HInput, HOut(1), HOut(2)})

-------------------------------------------------------------------------------
(* graph_memory_footprint                                                  *)

Mid     == << "d_mid", 0 >>
Output  == << "d_output", 0 >>
HOutput == << "h_output", 0 >>
Scratch == << "d_scratch", 0 >>   \* the two allocations, which may be one memory

\* The second allocation waits for nothing.
PipelineNodesUnordered(g) ==
  ClearNode(g, "alloc1", {}, Scratch)
    \o Node(g, "kernel1", {"alloc1"}, {Input}, {Scratch, Mid})
    \o ClearNode(g, "free1", {"kernel1"}, Scratch)
    \o ClearNode(g, "alloc2", {}, Scratch)
    \o Node(g, "kernel2", {"alloc2"}, {Mid}, {Scratch, Output})
    \o ClearNode(g, "free2", {"kernel2"}, Scratch)

PipelineNodes(g) ==
  ClearNode(g, "alloc1", {}, Scratch)
    \o Node(g, "kernel1", {"alloc1"}, {Input}, {Scratch, Mid})
    \o ClearNode(g, "free1", {"kernel1"}, Scratch)
    \o ClearNode(g, "alloc2", {"free1"}, Scratch)
    \o Node(g, "kernel2", {"alloc2"}, {Mid}, {Scratch, Output})
    \o ClearNode(g, "free2", {"kernel2"}, Scratch)

GraphMemoryFootprint ==
  HostDoes({}, {HInput}) \o Alloc({Input, Mid, Output}) \o Memcpy(0, HInput, Input)
    \o Launch("pipeline", Stream, PipelineNodes("pipeline"), {"free2"})
    \o SyncStream(Stream)
    \o Memcpy(0, Output, HOutput) \o HostDoes({HOutput}, {})
    \o Free({Input, Mid, Output}) \o Free({HInput, HOutput})

-------------------------------------------------------------------------------
(* power_iteration_graph                                                   *)

A       == << "d_A", 0 >>
V(i)    == << "d_v", i % 2 >>
NormSq  == << "d_norm_sq", 0 >>
HNormSq == << "norm_sq_val", 0 >>
HA      == << "h_A", 0 >>
HV      == << "h_v", 0 >>

\* Iteration i: the graph with src and dst swapped i times.
PowerIteration(i) ==
  Launch("power", Stream,
         Node("power", "matvec", {}, {A, V(i)}, {V(i + 1)})
           \o Node("power", "norm_sq", {"matvec"}, {V(i + 1)}, {NormSq})
           \o Node("power", "normalize", {"norm_sq"}, {V(i + 1), NormSq}, {V(i + 1)}),
         {"normalize"})
    \o SyncStream(Stream)
    \o Memcpy(0, NormSq, HNormSq) \o HostDoes({HNormSq}, {})

PowerIterationGraph ==
  HostDoes({}, {HA, HV}) \o Alloc({A, V(0), V(1), NormSq})
    \o Memcpy(0, HA, A) \o Memcpy(0, HV, V(0))
    \o ForEach(0, Iters - 1, PowerIteration)
    \o Free({HA, HV}) \o Free({A, V(0), V(1), NormSq})

-------------------------------------------------------------------------------
(* graph_conditional_nodes                                                 *)

XOld  == << "d_x_old", 0 >>
XNew  == << "d_x_new", 0 >>
B     == << "d_b", 0 >>
Count == << "d_iter", 0 >>
HB    == << "h_b", 0 >>
HX    == << "h_x", 0 >>

Check(i) == << "check_convergence", i >>
Step(i)  == << "jacobi_step", i >>

\* The conditional node, its body run Iters times.
WhileBody(g) ==
  ForEach(1, Iters, LAMBDA i :
    Node(g, Step(i), {IF i = 1 THEN << "init", 0 >> ELSE Check(i - 1)},
         {XOld, B, Count}, {XNew, Count})
      \o Node(g, Check(i), {Step(i)}, {XNew, XOld}, {XOld}))

ConditionalNodes ==
  HostDoes({}, {HB}) \o Alloc({XOld, XNew, B, Count}) \o Memcpy(0, HB, B)
    \o Launch("while", Null(0),
              Node("while", << "init", 0 >>, {}, {}, {XOld, Count})
                \o WhileBody("while")
                \o Node("while", << "done", 0 >>, {Check(Iters)}, {Count}, {}),
              {<< "done", 0 >>})
    \o SyncDevice(0)
    \o Memcpy(0, XNew, HX) \o HostDoes({HX}, {})
    \o Free({XOld, XNew, B, Count})

-------------------------------------------------------------------------------
(* hggc_graph_perf_scaling                                                 *)

\* The captured part of stream i.
Captured(i) == NodeOf("graph", i)

\* Stream 0 does not wait for the others.
ForkWithoutJoin ==
  WaitEvent(Captured(0), Launched("graph")) \o Record(Synced, Captured(0))
    \o ForEach(1, Width - 1, LAMBDA i : WaitEvent(Captured(i), Synced))
    \o ForEach(0, Width - 1, LAMBDA i : ForEach(1, Length, LAMBDA j : Async(Captured(i), {}, {})))
    \o Record(Captured(0), Captured(0))

\* The fork, `Length` kernels on every stream, and the join, which records one
\* event on stream after stream.
ForkJoin ==
  WaitEvent(Captured(0), Launched("graph")) \o Record(Synced, Captured(0))
    \o ForEach(1, Width - 1, LAMBDA i : WaitEvent(Captured(i), Synced))
    \o ForEach(0, Width - 1, LAMBDA i : ForEach(1, Length, LAMBDA j : Async(Captured(i), {}, {})))
    \o ForEach(1, Width - 1, LAMBDA i :
         Record(Synced, Captured(i)) \o WaitEvent(Captured(0), Synced))
    \o Record(Captured(0), Captured(0))

LaunchForkJoin == Launch("graph", Blocking(0, 0), ForkJoin, {0})

GraphPerfScaling ==
  Async(Blocking(0, 0), {}, {}) \o SyncStream(Blocking(0, 0))
    \o LaunchForkJoin \o SyncStream(Blocking(0, 0))
    \o ForEach(1, Iters, LAMBDA i : LaunchForkJoin) \o SyncStream(Blocking(0, 0))
===============================================================================
