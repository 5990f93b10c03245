----------------------------- MODULE StreamCalls -----------------------------
(***************************************************************************)
(* The calls that the programs of StreamProgram are made of; what they do  *)
(* is the HGGC runtime's.  A call is [kind, on, reads, writes, clear,      *)
(* after, event]: given to the stream `on`, done by the host, or a wait of *)
(* the host; the buffers it reads and writes; whether what it writes is no *)
(* value (memory just allocated, or freed); the events it waits for and    *)
(* those that happen with it.                                              *)
(***************************************************************************)
EXTENDS Integers, Sequences

LOCAL INSTANCE SequencesExt

\* The streams of device d: its default stream, those that wait for it and those
\* that do not.
Null(d)           == << d, 0 >>
Blocking(d, n)    == << d, n + 1 >>
NonBlocking(d, n) == << d, -1 - n >>

Call(kind, s, reads, writes) ==
  [kind |-> kind, on |-> s, reads |-> reads, writes |-> writes, clear |-> FALSE,
   after |-> {}, event |-> {}]

Async(s, reads, writes) == << Call("stream", s, reads, writes) >>
HostDoes(reads, writes) == << Call("host", << >>, reads, writes) >>

Memcpy(d, from, to) == Async(Null(d), {from}, {to}) \o << Call("wait", Null(d), {}, {}) >>

Alloc(buffers)         == << [Call("host", << >>, {}, buffers) EXCEPT !.clear = TRUE] >>
Free(buffers)          == Alloc(buffers)
MallocAsync(s, buffer) == << [Call("stream", s, {}, {buffer}) EXCEPT !.clear = TRUE] >>
FreeAsync(s, buffer)   == MallocAsync(s, buffer)

\* One after the other for k = first..last.
ForEach(first, last, F(_)) == FlattenSeq([i \in 1..last - first + 1 |-> F(first + i - 1)])

Record(e, s)    == << [Call("stream", s, {}, {}) EXCEPT !.event = {e}] >>
WaitEvent(s, e) == << [Call("stream", s, {}, {}) EXCEPT !.after = {e}] >>
SyncStream(s)   == << Call("wait", s, {}, {}) >>
SyncEvent(e)    == << [Call("wait", << >>, {}, {}) EXCEPT !.after = {e}] >>
SyncDevice(d)   == << Call("wait", << d >>, {}, {}) >>

\* A node of the graph launched as g: on a stream of its own, after other nodes,
\* or after the launch.
NodeOf(g, name) == << g, "node", name >>
Launched(g)     == << g, "launch" >>

Node(g, name, after, reads, writes) ==
  << [Call("stream", NodeOf(g, name), reads, writes) EXCEPT
        !.after = IF after = {} THEN {Launched(g)} ELSE { NodeOf(g, n) : n \in after },
        !.event = { NodeOf(g, name) }] >>

\* Nodes that record an event of the program, and that wait for one.
RecordNode(g, name, after, e) ==
  << [Node(g, name, after, {}, {})[1] EXCEPT !.event = @ \cup {e}] >>

WaitNode(g, name, e) ==
  << [Node(g, name, {}, {}, {})[1] EXCEPT !.after = @ \cup {e}] >>

\* A node that allocates or frees a buffer.
ClearNode(g, name, after, buffer) ==
  << [Node(g, name, after, {}, {buffer})[1] EXCEPT !.clear = TRUE] >>

\* The nodes start when the stream gets there; the stream goes on after the last.
Launch(g, s, nodes, last) ==
  Record(Launched(g), s) \o nodes
    \o << [Call("stream", s, {}, {}) EXCEPT !.after = { NodeOf(g, n) : n \in last }] >>

-------------------------------------------------------------------------------
(* Programs of one device and its default stream                           *)

Dev(x)  == << "d", x >>
Host(x) == << "h", x >>

Devs(names)  == { Dev(x) : x \in names }
Hosts(names) == { Host(x) : x \in names }

Upload(x, y)   == Memcpy(0, Host(x), Dev(y))
Download(y, x) == Memcpy(0, Dev(y), Host(x))

Kernel(reads, writes) == Async(Null(0), Devs(reads), Devs(writes))
Memset(x)             == Kernel({}, {x})

\* An event that times: it has a value for the host when the stream has got there.
Stamp(e)          == << [Call("stream", Null(0), {}, {e}) EXCEPT !.event = {e}] >>
Elapsed(from, to) == HostDoes({from, to}, {})
===============================================================================
