----------------------------- MODULE BlockProgram -----------------------------
(***************************************************************************)
(* A kernel as the sequence of steps that its threads, or its warps, all   *)
(* take: accesses of shared memory, copies that land later, barriers.      *)
(* A step names, for each of them, what it accesses or waits for.  Which   *)
(* values a location holds depends on the order in which they run and the  *)
(* copies land; its content is the accesses that made it: << who, step >>. *)
(*                                                                         *)
(* host is the kernel; round the step each is at; smem the locations; gmem *)
(* the arrive-wait barrier of the block; reg is [copies, links, state]:    *)
(* the copies in flight, the arrivals that wait for copies, and the phase  *)
(* each has seen when it arrived last.                                     *)
(***************************************************************************)
EXTENDS DeviceKernel, Awbarrier, Sequences, FiniteSets

CONSTANT Programs   \* the steps of each kernel

Program == Programs[host]

ThreadsOf(p)   == DOMAIN p[1].on
LocationsOf(p) == UNION { p[i].on[t] : i \in { j \in 1..Len(p) : p[j].memory },
                                       t \in ThreadsOf(p) }

Threads == DOMAIN round

\* Step i is one of thread t's: it does something, and has not returned before.
Takes(p, t, i) ==
  /\ p[i].on[t] # {}
  /\ ~ \E j \in 1..i - 1 : p[j].op = "return" /\ p[j].on[t] # {}

\* The first step of thread t from step i on, or the end.
StepFrom(p, t, i) ==
  LET mine == { j \in i..Len(p) : Takes(p, t, j) } \cup {Len(p) + 1} IN
    CHOOSE j \in mine : \A l \in mine : j <= l

Init ==
  /\ host \in DOMAIN Programs
  /\ round = [t \in ThreadsOf(Program) |-> StepFrom(Program, t, 1)]
  /\ smem = [l \in LocationsOf(Program) |-> {}]
  /\ gmem = [phase |-> 0, pending |-> 0]
  /\ reg = [copies |-> {}, links |-> {}, state |-> [t \in Threads |-> 0]]

Ends(t) == round[t] = Len(Program) + 1

\* Thread t takes its step, which is an `op`.
Does(t, op) ==
  /\ ~ Ends(t)
  /\ Program[round[t]].op = op
  /\ round' = [round EXCEPT ![t] = StepFrom(Program, t, round[t] + 1)]
  /\ UNCHANGED host

Targets(t) == Program[round[t]].on[t]

\* The locations that thread t's step writes hold what only that step made.
Overwritten(t, i) ==
  [l \in DOMAIN smem |-> IF l \in Program[i].on[t] THEN {<< t, i >>} ELSE smem[l]]

Load(t)  == Does(t, "load") /\ UNCHANGED << smem, gmem, reg >>

Store(t) == Does(t, "store") /\ smem' = Overwritten(t, round[t]) /\ UNCHANGED << gmem, reg >>

AtomicAdd(t) ==
  /\ Does(t, "add")
  /\ smem' = [l \in DOMAIN smem |->
                IF l \in Targets(t) THEN smem[l] \cup {<< t, round[t] >>} ELSE smem[l]]
  /\ UNCHANGED << gmem, reg >>

\* A barrier lets a thread pass when those it waits for have arrived or returned.
Sync(t) ==
  /\ Does(t, "sync")
  /\ \A u \in Targets(t) : round[u] >= round[t]
  /\ UNCHANGED << smem, gmem, reg >>

Return(t) == Does(t, "return") /\ UNCHANGED << smem, gmem, reg >>

-------------------------------------------------------------------------------
(* Asynchronous copies                                                     *)

Copy(t) ==
  /\ Does(t, "copy")
  /\ reg' = [reg EXCEPT !.copies = @ \cup {<< t, round[t] >>}]
  /\ UNCHANGED << smem, gmem >>

CopyLands(t, i) ==
  /\ << t, i >> \in reg.copies
  /\ reg' = [reg EXCEPT !.copies = @ \ {<< t, i >>}]
  /\ smem' = Overwritten(t, i)
  /\ UNCHANGED << host, gmem, round >>

Commit(t) == Does(t, "commit") /\ UNCHANGED << smem, gmem, reg >>

\* The groups of copies that thread t has committed between steps i and j.
Committed(p, t, i, j) == { k \in i..j : p[k].op = "commit" /\ Takes(p, t, k) }

\* wait_group n: all but the n latest groups have landed.
WaitGroup(t) ==
  /\ Does(t, "wait group")
  /\ \A c \in reg.copies :
       c[1] = t =>
         Cardinality(Committed(Program, t, c[2], round[t])) <= Program[round[t]].n
  /\ UNCHANGED << smem, gmem, reg >>

-------------------------------------------------------------------------------
(* The arrive-wait barrier                                                 *)

InitAwbar(t) ==
  /\ Does(t, "awbar init")
  /\ gmem' = [phase |-> 0, pending |-> Program[round[t]].n]
  /\ UNCHANGED << smem, reg >>

LinkCopies(t) ==
  /\ Does(t, "link")
  /\ gmem' = Expecting(gmem)
  /\ reg' = [reg EXCEPT !.links = @ \cup {<< t, round[t] >>}]
  /\ UNCHANGED smem

LinkArrives(t, i) ==
  /\ << t, i >> \in reg.links
  /\ \A c \in reg.copies : c[1] = t => c[2] > i
  /\ reg' = [reg EXCEPT !.links = @ \ {<< t, i >>}]
  /\ gmem' = Arrived(gmem, Cardinality(Threads))
  /\ UNCHANGED << host, smem, round >>

\* arrive returns the phase as the state to wait with.
ArriveAwbar(t) ==
  /\ Does(t, "arrive")
  /\ gmem' = Arrived(gmem, Cardinality(Threads))
  /\ reg' = [reg EXCEPT !.state[t] = gmem.phase]
  /\ UNCHANGED smem

WaitAwbar(t) ==
  /\ Does(t, "test wait")
  /\ gmem.phase # reg.state[t]
  /\ UNCHANGED << smem, gmem, reg >>

-------------------------------------------------------------------------------

Next ==
  \/ \E t \in Threads :
       \/ Load(t) \/ Store(t) \/ AtomicAdd(t) \/ Sync(t) \/ Return(t)
       \/ Copy(t) \/ Commit(t) \/ WaitGroup(t)
       \/ InitAwbar(t) \/ LinkCopies(t) \/ ArriveAwbar(t) \/ WaitAwbar(t)
  \/ \E c \in reg.copies : CopyLands(c[1], c[2])
  \/ \E c \in reg.links : LinkArrives(c[1], c[2])

Safety == Init /\ [][Next]_machine

\* The device runs the threads, and ends their copies.
Spec == Safety /\ WF_machine(Next)
-------------------------------------------------------------------------------
(* Programs that enforce the order which their loads rely on.  An access   *)
(* is << thread, step >>.                                                  *)

Overwriting == {"store", "copy"}
Accessing   == {"load", "store", "copy", "add"}

\* The accesses of location l by one of ops.
Accesses(p, ops, l) ==
  { a \in ThreadsOf(p) \X (1..Len(p)) :
      p[a[2]].op \in ops /\ l \in p[a[2]].on[a[1]] /\ Takes(p, a[1], a[2]) }

\* What location l holds at step i if the steps are taken one after the other: the
\* latest store or copy to it and the additions since.
Serial(p, l, i) ==
  { a \in Accesses(p, Accessing \ {"load"}, l) :
      a[2] < i /\ \A b \in Accesses(p, Overwriting, l) : b[2] < i => b[2] <= a[2] }

\* How often the block has arrived at its arrive-wait barrier before step k.
Arrivals(p, k) == Cardinality({ j \in 1..k - 1 : p[j].op = "arrive" })

\* A thread that is past the steps before k has waited for its access to be done.
Waited(p, a, k) ==
  \/ p[a[2]].op # "copy"
  \/ \E m \in a[2] + 1..k - 1 :
       /\ p[m].op = "wait group" /\ Takes(p, a[1], m)
       /\ Cardinality(Committed(p, a[1], a[2], m)) > p[m].n

\* The arrival that the copy is linked to is one that step k waits for.
Linked(p, a, k) ==
  \E m \in a[2] + 1..k - 1 :
    p[m].op = "link" /\ Takes(p, a[1], m) /\ Arrivals(p, m) < Arrivals(p, k)

\* Access a is done before access b: the thread of b has passed a barrier that the
\* thread of a arrives at after it.
Separated(p, a, b) ==
  \/ a[1] = b[1] /\ Waited(p, a, b[2])
  \/ \E k \in a[2] + 1..b[2] - 1 :
       /\ Takes(p, b[1], k)
       /\ \/ p[k].op = "sync" /\ a[1] \in p[k].on[b[1]] /\ Waited(p, a, k)
          \/ p[k].op = "test wait" /\ (Waited(p, a, k) \/ Linked(p, a, k))

\* Two loads, and two additions, may come in any order.
Conflict(p, a, b) == p[a[2]].op # p[b[2]].op \/ p[a[2]].op \in Overwriting

\* Accesses that conflict are separated, no two threads overwrite a location in one
\* step, and every load follows a write.
AccessesOrdered(p) ==
  \A l \in LocationsOf(p) : \A a, b \in Accesses(p, Accessing, l) :
    /\ a[2] < b[2] /\ Conflict(p, a, b) => Separated(p, a, b)
    /\ a[2] = b[2] /\ p[a[2]].op \in Overwriting => a = b
    /\ p[a[2]].op = "load" => Serial(p, l, a[2]) # {}

AwbarInits(p) ==
  { a \in ThreadsOf(p) \X (1..Len(p)) : p[a[2]].op = "awbar init" /\ Takes(p, a[1], a[2]) }

\* One thread initialises the barrier for all, which wait for it; then all of them
\* arrive each time, and each waits where it has arrived.
AwbarWellUsed(p) ==
  LET all == ThreadsOf(p) IN
    \A k \in 1..Len(p) : p[k].op \in {"link", "arrive", "test wait"} =>
      /\ \A t \in all : Takes(p, t, k)
      /\ \E a \in all \X (1..Len(p)) : \E s \in a[2] + 1..k - 1 :
           /\ AwbarInits(p) = {a} /\ p[a[2]].n = Cardinality(all)
           /\ p[s].op = "sync" /\ \A t \in all : p[s].on[t] = all /\ Takes(p, t, s)
      /\ p[k].op = "arrive" => k < Len(p) /\ p[k + 1].op = "test wait"
      /\ p[k].op = "test wait" => k > 1 /\ p[k - 1].op = "arrive"

\* A step names threads of the block, and memory is what it says it accesses.
WellFormed(p) ==
  /\ Len(p) \in Nat \ {0} /\ IsFiniteSet(ThreadsOf(p))
  /\ \A i \in 1..Len(p) :
       /\ DOMAIN p[i].on = ThreadsOf(p) /\ p[i].n \in Nat
       /\ p[i].memory = (p[i].op \in Accessing)
       /\ p[i].op = "sync" => \A t \in ThreadsOf(p) : p[i].on[t] \subseteq ThreadsOf(p)

WellOrdered(p) == WellFormed(p) /\ AccessesOrdered(p) /\ AwbarWellUsed(p)

-------------------------------------------------------------------------------
\* The barrier of a kernel that uses one always has an arrival due.
TypeOK ==
  /\ host \in DOMAIN Programs
  /\ \A t \in Threads : round[t] \in 1..Len(Program) + 1
  /\ \A l \in DOMAIN smem : smem[l] \subseteq Threads \X (1..Len(Program))
  /\ reg.copies \cup reg.links \subseteq Threads \X (1..Len(Program))
  /\ gmem.phase \in 0..Len(Program)
  /\ gmem.pending \in IF gmem.phase = 0 THEN 0..2 * Cardinality(Threads)
                                        ELSE 1..2 * Cardinality(Threads)

InOrder ==
  [k \in DOMAIN Programs |-> LET p == Programs[k] IN
     [l \in LocationsOf(p) |-> [i \in 1..Len(p) |-> Serial(p, l, i)]]]

\* A thread that loads finds all that the steps before its own make, nothing that
\* they do not, and no copy on its way to the same place: the block computes what
\* it would if all threads took each step together.
SerialLoads ==
  \A t \in Threads : (~ Ends(t) /\ Program[round[t]].op = "load") =>
    \A l \in Targets(t) :
      /\ smem[l] = InOrder[host][l][round[t]] /\ smem[l] # {}
      /\ \A c \in reg.copies : l \notin Program[c[2]].on[c[1]]

\* Every thread has ended, and so has every copy.
Ended == (\A t \in Threads : Ends(t)) /\ reg.copies = {} /\ reg.links = {}
===============================================================================
