-------------------------- MODULE ConcurrencyPrograms -------------------------
(***************************************************************************)
(* The programs of streams_concurrency.hg, where a buffer that the streams *)
(* share tile by tile is its tiles, and of multi_device_collab.hg, where   *)
(* the devices each sum a shard and two peers scale a buffer in turn.      *)
(***************************************************************************)
EXTENDS StreamCalls

CONSTANTS NumStreams, Reps, NumDevices

\* Every slot of the pipeline has its turn before the host verifies it.
SizesAssumption ==
  NumStreams \in Nat \ {0} /\ Reps \in Nat /\ Reps >= NumStreams /\ NumDevices \in Nat \ {0}

Last == NumStreams - 1

Seed    == << "dev_seed", 0 >>
End     == << "evt_end", 0 >>

All(buffer(_)) == { buffer(s) : s \in 0..Last }

Stream(s) == Blocking(0, s)

\* The kernel on each stream's tile, then the copy of each tile.
Streamed ==
  ForEach(1, Reps, LAMBDA rep :
    ForEach(0, Last, LAMBDA s : Async(Stream(s), {Dev(s), Seed}, {Dev(s)}))
      \o ForEach(0, Last, LAMBDA s : Async(Stream(s), {Dev(s)}, {Host(s)})))

\* The kernel and a copy of the whole buffer, on the default stream.
Serial ==
  ForEach(1, Reps, LAMBDA rep :
    Async(Null(0), All(Dev) \cup {Seed}, All(Dev))
      \o Async(Null(0), All(Dev), All(Host)) \o SyncStream(Null(0)))

\* The host waits for an event of stream 0 alone.
TimedOnFirst == Record(End, Stream(0)) \o SyncEvent(End)

\* The host waits for an event of the default stream.
Timed == Record(End, Null(0)) \o SyncEvent(End)

RunStreams ==
  Alloc(All(Host) \cup All(Dev) \cup {Seed})
    \o Async(Null(0), {}, All(Dev))
    \o Async(Null(0), {}, {Seed}) \o SyncStream(Null(0))
    \o Serial \o Timed
    \o HostDoes({}, All(Host)) \o Async(Null(0), {}, All(Dev))
    \o Streamed \o Timed
    \o HostDoes(All(Host), {})
    \o Free(All(Dev)) \o Free({Seed}) \o Free(All(Host))

-------------------------------------------------------------------------------
Slot(i) == << "dev_slots", i >>
Total   == << "host_total", 0 >>

Slots == { Slot(i) : i \in 0..2 * NumStreams - 1 }

\* spin_alpha and spin_beta on every stream; warp_reduce_clocks over their slots.
RunHyperq ==
  Alloc(Slots \cup {Total})
    \o ForEach(0, Last, LAMBDA s : Async(Stream(s), {}, {Slot(2 * s)})
                                     \o Async(Stream(s), {}, {Slot(2 * s + 1)}))
    \o Record(End, Null(0))
    \o Async(Null(0), Slots, {Slot(0)})
    \o Memcpy(0, Slot(0), Total)
    \o SyncEvent(End)
    \o HostDoes({Total}, {})
    \o Free({Total}) \o Free(Slots)

-------------------------------------------------------------------------------
HostIn(s)   == << "host_in", s >>
HostOut(s)  == << "host_out", s >>
DevIn(s)    == << "dev_in", s >>
DevOut(s)   == << "dev_out", s >>
CycleEnd(s) == << "cycle_end", s >>

PipelineWalk(active_streams) ==
  ForEach(0, Reps - 1, LAMBDA rep :
    LET current == rep % active_streams
        next    == (rep + 1) % active_streams
    IN  SyncEvent(CycleEnd(next))
          \o Async(Stream(current), {DevIn(current)}, {DevOut(current)})
          \o Async(Stream(next), {HostIn(next)}, {DevIn(next)})
          \o Async(Stream(current), {DevOut(current)}, {HostOut(current)})
          \o Record(CycleEnd(current), Stream(current)))
    \o Record(End, Null(0)) \o SyncDevice(0)

SetUp(s) ==
  Alloc({HostIn(s), HostOut(s)}) \o HostDoes({}, {HostIn(s)})
    \o Alloc({DevIn(s)}) \o Async(Null(0), {}, {DevIn(s)})
    \o Alloc({DevOut(s)}) \o Record(CycleEnd(s), Stream(s))

RunMulticopy ==
  ForEach(0, Last, SetUp)
    \o Async(Null(0), {DevIn(0)}, {DevOut(0)})
    \o PipelineWalk(1) \o PipelineWalk(NumStreams)
    \o HostDoes(All(HostOut), {})
    \o ForEach(0, Last, LAMBDA s : Free({HostIn(s), HostOut(s)}) \o Free({DevIn(s), DevOut(s)}))

-------------------------------------------------------------------------------
HostData(d)    == << "host_data", d >>
PartialBack(d) == << "host_partial_back", d >>
Sum(d)         == << "host_sum_slot", d >>
DevData(d)     == << "dev_data", d >>
DevPartial(d)  == << "dev_partial", d >>

OfDevices(buffer(_)) == { buffer(d) : d \in 1..NumDevices }

\* Upload, kernel and download of one shard, on the device's own stream.
Dispatch(d) ==
  Async(Blocking(d, 0), {HostData(d)}, {DevData(d)})
    \o Async(Blocking(d, 0), {DevData(d)}, {DevPartial(d)})
    \o Async(Blocking(d, 0), {DevPartial(d)}, {PartialBack(d)})

\* The host does not wait for the device.
FinaliseUnsynchronised(d) ==
  HostDoes({PartialBack(d)}, {Sum(d)})
    \o Free({PartialBack(d)}) \o Free({DevPartial(d)}) \o Free({DevData(d)})

Finalise(d) ==
  SyncStream(Blocking(d, 0))
    \o HostDoes({PartialBack(d)}, {Sum(d)})
    \o Free({PartialBack(d)}) \o Free({DevPartial(d)}) \o Free({DevData(d)})

RunMultiDispatch ==
  ForEach(1, NumDevices, LAMBDA d :
    Alloc({DevData(d), DevPartial(d), PartialBack(d), HostData(d)})
      \o HostDoes({}, {HostData(d)}))
    \o ForEach(1, NumDevices, Dispatch)
    \o ForEach(1, NumDevices, Finalise)
    \o HostDoes(OfDevices(Sum) \cup OfDevices(HostData), {})
    \o ForEach(1, NumDevices, LAMBDA d : Free({HostData(d)}))

-------------------------------------------------------------------------------
PeerA == 1
PeerB == 2

DevPeer(d) == << "dev_peer", d >>
HostPin    == << "host_pin", 0 >>

\* Copies of no value, back and forth, for their time: nothing is taken to wait
\* for a copy between devices but the stream that holds it.
PingPong ==
  LET copy(from, to) == << [Async(Null(PeerB), {from}, {to})[1] EXCEPT !.clear = TRUE] >>
  IN  copy(DevPeer(PeerA), DevPeer(PeerB)) \o copy(DevPeer(PeerB), DevPeer(PeerA))

\* scale_x2 from the other peer's buffer, on device d, and a wait for d.
ScaleX2(d, other) ==
  Async(Null(d), {DevPeer(other)}, {DevPeer(d)}) \o SyncDevice(d)

RunP2p ==
  Alloc({DevPeer(PeerA)}) \o Alloc({DevPeer(PeerB)}) \o Alloc({HostPin})
    \o PingPong \o Record(End, Null(PeerB)) \o SyncEvent(End)
    \o HostDoes({}, {HostPin})
    \o Memcpy(PeerA, HostPin, DevPeer(PeerA))
    \o ScaleX2(PeerB, PeerA) \o ScaleX2(PeerA, PeerB)
    \o Memcpy(PeerA, DevPeer(PeerA), HostPin)
    \o HostDoes({HostPin}, {})
    \o Free({DevPeer(PeerA)}) \o Free({DevPeer(PeerB)}) \o Free({HostPin})
===============================================================================
