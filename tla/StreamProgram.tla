---------------------------- MODULE StreamProgram ----------------------------
(***************************************************************************)
(* A sample whose host side is one sequence of calls: kernels and copies   *)
(* given to streams, graphs launched, events recorded and waited for, and  *)
(* accesses of the host in between.  A program is that sequence.  Which    *)
(* buffer holds which result depends on the order in which the device runs *)
(* what the streams hold, so the content of a buffer is the call that      *)
(* stored it.                                                              *)
(*                                                                         *)
(* External, the runtime's rules: a stream runs its work in order; the     *)
(* default stream of a device waits for what its blocking streams were     *)
(* given before, and they for it; work waits for the events it names, as   *)
(* last recorded; a failed call ends the process.                          *)
(*                                                                         *)
(* main is [sample, at, exit]: the program and the call it is at; stream   *)
(* holds calls by their place in the program; res is the buffers.          *)
(***************************************************************************)
EXTENDS StreamCalls, HostRuntime, FiniteSets

LOCAL INSTANCE SequencesExt

CONSTANT Programs   \* the program of each sample

Program == Programs[main.sample]

Calls == 1..Len(Program)

Streams(p) == { p[i].on : i \in { j \in 1..Len(p) : p[j].kind = "stream" } }
Buffers(p) == UNION { p[i].reads \cup p[i].writes : i \in 1..Len(p) }

Init ==
  \E sample \in DOMAIN Programs :
    /\ main = [sample |-> sample, at |-> 1, exit |-> "none"]
    /\ thread = << >>
    /\ stream = [s \in Streams(Programs[sample]) |-> << >>]
    /\ res = [b \in Buffers(Programs[sample]) |-> 0]

\* A stream of a sample, not of a node of a graph.
OfSample(s) == Len(s) = 2

InterlockedWith(s, t) ==
  /\ OfSample(s) /\ OfSample(t) /\ s[1] = t[1]
  /\ \/ s[2] = 0 /\ t[2] > 0
     \/ s[2] > 0 /\ t[2] = 0

\* The latest record of event e before call i of program p.
RecordOf(p, e, i) ==
  LET records == { j \in 1..i - 1 : e \in p[j].event } IN
    { j \in records : \A k \in records : k <= j }

\* What call i waits for, besides the calls before it on its own stream.
Predecessors(p, i) ==
  UNION { RecordOf(p, e, i) : e \in p[i].after }
    \cup { j \in 1..i - 1 : /\ p[i].kind = "stream" /\ p[j].kind = "stream"
                            /\ InterlockedWith(p[i].on, p[j].on) }

InQueue(j) == Program[j].kind = "stream" /\ Pending(Program[j].on, j)

Stored(i) ==
  res' = [b \in DOMAIN res |-> IF b \in Program[i].writes THEN i ELSE res[b]]

NextCall ==
  main' = IF main.at < Len(Program) THEN [main EXCEPT !.at = @ + 1]
                                    ELSE [main EXCEPT !.exit = "finished"]

GiveToStream ==
  /\ Running /\ Program[main.at].kind = "stream"
  /\ stream' = Enqueued(Program[main.at].on, main.at)
  /\ NextCall
  /\ UNCHANGED << thread, res >>

HostAccess ==
  /\ Running /\ Program[main.at].kind = "host"
  /\ Stored(main.at)
  /\ NextCall
  /\ UNCHANGED << thread, stream >>

\* A wait for a stream, for a device (the streams that start with it), for events.
Awaited(w, s) ==
  \/ s = w
  \/ Len(w) = 1 /\ OfSample(s) /\ s[1] = w[1]

HostWaits ==
  /\ Running /\ Program[main.at].kind = "wait"
  /\ \A s \in DOMAIN stream : Awaited(Program[main.at].on, s) => stream[s] = << >>
  /\ \A j \in Predecessors(Program, main.at) : ~ InQueue(j)
  /\ NextCall
  /\ UNCHANGED << thread, stream, res >>

CanRun(s) ==
  /\ Running /\ stream[s] # << >>
  /\ \A j \in Predecessors(Program, Head(stream[s])) : ~ InQueue(j)

StreamRuns(s) ==
  /\ CanRun(s)
  /\ Stored(Head(stream[s]))
  /\ stream' = Popped(s)
  /\ UNCHANGED << main, thread >>

ApiFails ==
  /\ Running
  /\ main' = [main EXCEPT !.exit = "error"]
  /\ UNCHANGED << thread, stream, res >>

Progress ==
  \/ GiveToStream \/ HostAccess \/ HostWaits
  \/ \E s \in DOMAIN stream : StreamRuns(s)

Next == Progress \/ ApiFails

\* As long as main or a stream can go on, one does; calls need not fail.
Spec == Init /\ [][Next]_machine /\ WF_machine(Progress)
-------------------------------------------------------------------------------
\* main is at a call of its program, and streams and buffers name calls of it.
TypeOK ==
  /\ main \in [sample : DOMAIN Programs, at : Calls, exit : {"none", "finished", "error"}]
  /\ stream \in [Streams(Program) -> Seq(Calls)]
  /\ res \in [Buffers(Program) -> Calls \cup {0}]

\* The calls that could take effect now.
Due ==
  { i \in Calls : \/ i = main.at /\ Running /\ Program[i].kind = "host"
                  \/ \E s \in DOMAIN stream : CanRun(s) /\ i = Head(stream[s]) }

\* What program order has in buffer b when call i of program p gets to it.
InOrder(p, i, b) ==
  LET stores == { j \in 1..i - 1 : b \in p[j].writes } IN
    IF stores = {} THEN 0 ELSE CHOOSE j \in stores : \A k \in stores : k <= j

\* What call i stores is stored over before any call reads it.
Unread(p, i) ==
  /\ p[i].writes # {}
  /\ \A b \in p[i].writes : \E k \in i + 1..Len(p) :
       /\ b \in p[k].writes /\ ~ p[k].clear
       /\ \A j \in i + 1..k : b \notin p[j].reads

\* The buffers whose content matters when call i takes effect.
Touched(p, i) == p[i].writes \cup IF Unread(p, i) THEN {} ELSE p[i].reads

\* Whatever order the streams run in, a call finds in every buffer it reads or
\* writes what it would if the calls ran one after the other.  What a call reads
\* does not matter if nobody reads what it stores.
SerialAccess ==
  \A i \in Due : \A b \in Touched(Program, i) : res[b] = InOrder(Program, i, b)

\* No call makes a value of a buffer that holds none: never stored, or freed.
NoGarbageRead ==
  \A i \in Due :
    ~ Program[i].clear =>
      \A b \in Program[i].reads : res[b] # 0 /\ ~ Program[res[b]].clear

\* When main returns the streams have nothing left to do.
EndsQuiescent == main.exit = "finished" => \A s \in DOMAIN stream : stream[s] = << >>
-------------------------------------------------------------------------------
(* The order a program enforces, from its text alone                       *)

\* Calls before call i that have taken effect when it does: those of the host, those
\* of its own stream, those it waits for.
Enforced(p, i) ==
  { j \in 1..i - 1 :
      \/ p[j].kind # "stream"
      \/ p[i].kind = "stream" /\ p[j].on = p[i].on
      \/ p[i].kind = "wait" /\ Awaited(p[i].on, p[j].on)
      \/ p[i].kind # "host" /\ j \in Predecessors(p, i) }

\* before[i] are calls that precede call i, directly or through another call.
IsOrderOf(p, before) ==
  /\ before \in [1..Len(p) -> SUBSET (1..Len(p))]
  /\ \A i \in 1..Len(p) : \A j \in before[i] :
       j \in Enforced(p, i) \/ \E k \in Enforced(p, i) : j \in before[k]

\* Of two calls one of which stores what the other touches, the first precedes.
OrdersConflicts(p, before) ==
  \A i \in 1..Len(p) : \A j \in 1..i - 1 :
    p[j].writes \cap Touched(p, i) # {} \/ Touched(p, j) \cap p[i].writes # {} => j \in before[i]

Stores(p, j, b) == b \in p[j].writes /\ ~ p[j].clear
Clears(p, j, b) == b \in p[j].writes /\ p[j].clear

\* What a call reads was stored before, and cleared after, or before it was stored.
OrdersReads(p, before) ==
  \A i \in 1..Len(p) : ~ p[i].clear => \A b \in p[i].reads :
    /\ \E j \in before[i] : Stores(p, j, b)
    /\ \A c \in 1..Len(p) : Clears(p, c, b) =>
         i \in before[c] \/ \E j \in before[i] : j > c /\ Stores(p, j, b)

\* Every call given to a stream precedes one of the host.
OrdersEnd(p, before) ==
  \A j \in 1..Len(p) : p[j].kind = "stream" =>
    \E i \in 1..Len(p) : p[i].kind # "stream" /\ j \in before[i]

\* A wait stores nothing.
IsProgram(p) ==
  Len(p) \in Nat \ {0} /\ \A i \in 1..Len(p) : p[i].kind = "wait" => p[i].writes = {}

\* The program leaves no order that matters to chance.
WellOrdered(p, before) ==
  /\ IsProgram(p) /\ IsOrderOf(p, before)
  /\ OrdersConflicts(p, before) /\ OrdersReads(p, before) /\ OrdersEnd(p, before)

\* All the calls that precede each call.
Precedence(p) ==
  FoldLeft(LAMBDA before, i :
             Append(before, Enforced(p, i) \cup UNION { before[k] : k \in Enforced(p, i) }),
           << >>, [i \in 1..Len(p) |-> i])
===============================================================================
