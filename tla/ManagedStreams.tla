---------------------------- MODULE ManagedStreams ----------------------------
(***************************************************************************)
(* run_managed_streams of unified_memory_models.hg: the threads of an      *)
(* OpenMP loop take tasks one after the other.  A small task is computed   *)
(* by the thread, once its managed memory is attached to the host through  *)
(* stream 0, which all threads share; a large one is launched on the       *)
(* thread's own stream.  Then main waits for the device, destroys the      *)
(* streams, and the tasks' destructors free the memory.                    *)
(*                                                                         *)
(* External: memory attached to the host is the host's alone; attached to  *)
(* a stream, it is that stream's.  After a fault of the device no stream   *)
(* makes progress and every call that waits for it fails.                  *)
(*                                                                         *)
(* main is [pc, at, exit, small, managed, fault]: at is the next task of   *)
(* the loops, small the tasks of a dimension below kMsHostSizeLimit.       *)
(* thread is [pc, task]; res is [owner, out, live, streams]: who a task's  *)
(* memory is attached to, what its result holds, the tasks whose memory    *)
(* is allocated, and the streams that exist.                               *)
(***************************************************************************)
EXTENDS HostRuntime, FiniteSets

CONSTANTS NumTasks, NumThreads

SizesAssumption == NumTasks \in Nat \ {0} /\ NumThreads \in Nat \ {0}

Task   == 1..NumTasks
Thread == 0..NumThreads - 1
Stream == 0..NumThreads

Global == -1
Host   == -2

Slot(w) == w + 1

\* Provisioned: the memory of every task is allocated, its result zero.
Init ==
  /\ \E small \in SUBSET Task, managed \in BOOLEAN :
       main = [pc |-> "loop", at |-> 1, exit |-> IF managed THEN "none" ELSE "skipped",
               small |-> small, managed |-> managed, fault |-> FALSE]
  /\ thread = [w \in Thread |-> [pc |-> "idle", task |-> 0]]
  /\ stream = [s \in Stream |-> << >>]
  /\ res = [owner |-> [t \in Task |-> Global], out |-> [t \in Task |-> "zero"],
            live |-> Task, streams |-> Stream]

-------------------------------------------------------------------------------
(* run_task                                                                *)

At(w, label) == Running /\ thread[w].pc = label

Goto(w, label) == thread' = [thread EXCEPT ![w].pc = label]

\* schedule(dynamic): an idle thread takes the next task.
TakeTask(w) ==
  /\ At(w, "idle") /\ main.pc = "loop" /\ main.at <= NumTasks
  /\ main' = [main EXCEPT !.at = @ + 1]
  /\ thread' = [thread EXCEPT ![w] =
                  [pc |-> IF main.at \in main.small THEN "attach" ELSE "launch", task |-> main.at]]
  /\ UNCHANGED << stream, res >>

Attach(t, owner) == [op |-> "attach", task |-> t, owner |-> owner]
Gemv(t, s)       == [op |-> "gemv", task |-> t, owner |-> s]

AttachHost(w) ==
  /\ At(w, "attach")
  /\ stream' = Enqueued(0, Attach(thread[w].task, Host))
  /\ Goto(w, "sync")
  /\ UNCHANGED << main, res >>

HostGemv(w) ==
  /\ res' = [res EXCEPT !.out[thread[w].task] =
               IF @ = "zero" /\ res.owner[thread[w].task] = Host THEN "product" ELSE "garbage"]
  /\ Goto(w, "idle")
  /\ UNCHANGED << main, stream >>

\* host_gemv without waiting for the attachment.
ComputeUnsynchronised(w) == At(w, "sync") /\ HostGemv(w)

\* Stream 0 has run all that any thread has given it.
ComputeOnHost(w) == At(w, "sync") /\ stream[0] = << >> /\ HostGemv(w)

\* Attach to the thread's stream, and the product after it on that stream.
LaunchOnDevice(w) ==
  /\ At(w, "launch")
  /\ LET s == Slot(w) t == thread[w].task IN
       stream' = [stream EXCEPT ![s] = @ \o << Attach(t, s), Gemv(t, s) >>]
  /\ Goto(w, "idle")
  /\ UNCHANGED << main, res >>

Worker(w) == TakeTask(w) \/ AttachHost(w) \/ ComputeOnHost(w) \/ LaunchOnDevice(w)

\* The device runs the oldest operation of a stream.
StreamRuns(s) ==
  /\ Running /\ ~ main.fault /\ stream[s] # << >>
  /\ LET o == Head(stream[s]) IN
       res' = IF o.op = "attach" THEN [res EXCEPT !.owner[o.task] = o.owner]
              ELSE [res EXCEPT !.out[o.task] =
                      IF @ = "zero" /\ res.owner[o.task] = o.owner THEN "product" ELSE "garbage"]
  /\ stream' = Popped(s)
  /\ UNCHANGED << main, thread >>

-------------------------------------------------------------------------------
(* main                                                                    *)

\* The implicit barrier of the loop.
LoopEnds ==
  /\ Running /\ main.pc = "loop" /\ main.at > NumTasks
  /\ \A w \in Thread : thread[w].pc = "idle"
  /\ main' = [main EXCEPT !.pc = "wait"]
  /\ UNCHANGED << thread, stream, res >>

Idle == \A s \in Stream : stream[s] = << >>

\* main does not wait.
SkipWait ==
  /\ Running /\ main.pc = "wait"
  /\ main' = [main EXCEPT !.pc = "destroy", !.at = 0]
  /\ UNCHANGED << thread, stream, res >>

\* hggcDeviceSynchronize, whose result main does not look at.
WaitForDevice ==
  /\ Running /\ main.pc = "wait" /\ (Idle \/ main.fault)
  /\ main' = [main EXCEPT !.pc = "destroy", !.at = 0]
  /\ UNCHANGED << thread, stream, res >>

DestroyStream ==
  /\ Running /\ main.pc = "destroy"
  /\ res' = [res EXCEPT !.streams = @ \ {main.at}]
  /\ main' = IF main.at < NumThreads THEN [main EXCEPT !.at = @ + 1]
                                     ELSE [main EXCEPT !.at = 1, !.pc = "free"]
  /\ UNCHANGED << thread, stream >>

\* As the function returns, the destructor of a task: wait for the device, free.
FreeUnsynchronised ==
  /\ Running /\ main.pc = "free"
  /\ res' = [res EXCEPT !.live = @ \ {main.at}]
  /\ main' = IF main.at < NumTasks THEN [main EXCEPT !.at = @ + 1]
                                   ELSE [main EXCEPT !.exit = "success"]
  /\ UNCHANGED << thread, stream >>

FreeTask == Idle /\ ~ main.fault /\ FreeUnsynchronised

\* A call in checkHggcErrors fails: whenever a thread or the destructors make
\* one, and the destructors' surely after a fault.
ApiFails ==
  /\ Running
  /\ \/ main.pc = "free"
     \/ \E w \in Thread : thread[w].pc # "idle"
     \/ main.pc = "loop" /\ main.at <= NumTasks
  /\ main' = [main EXCEPT !.exit = "error"]
  /\ UNCHANGED << thread, stream, res >>

DeviceFaults ==
  /\ Running /\ ~ main.fault /\ ~ Idle
  /\ main' = [main EXCEPT !.fault = TRUE]
  /\ UNCHANGED << thread, stream, res >>

\* After a fault a thread that waits, and a destructor, fail.
FaultNoticed == main.fault /\ ApiFails

MainStep == LoopEnds \/ WaitForDevice \/ DestroyStream \/ FreeTask \/ FaultNoticed

Progress ==
  \/ MainStep
  \/ \E w \in Thread : Worker(w)
  \/ \E s \in Stream : StreamRuns(s)

Next == Progress \/ ApiFails \/ DeviceFaults

\* As long as main, a thread or the device can go on, one does; calls need not
\* fail, except after a fault.
Spec == Init /\ [][Next]_machine /\ WF_machine(Progress)
-------------------------------------------------------------------------------
Owner == Stream \cup {Global, Host}

TypeOK ==
  /\ main \in [pc : {"loop", "wait", "destroy", "free"}, at : Nat,
               exit : {"none", "success", "error", "skipped"}, small : SUBSET Task,
               managed : BOOLEAN, fault : BOOLEAN]
  /\ thread \in [Thread -> [pc : {"idle", "attach", "sync", "launch"}, task : Task \cup {0}]]
  /\ stream \in [Stream -> Seq([op : {"attach", "gemv"}, task : Task, owner : Owner])]
  /\ res \in [owner : [Task -> Owner], out : [Task -> {"zero", "product", "garbage"}],
              live : SUBSET Task, streams : SUBSET Stream]

\* No task is computed twice, or over memory that is attached elsewhere.
NoForeignAccess == \A t \in Task : res.out[t] # "garbage"

\* What a stream has yet to do is for memory that is not freed, and the stream
\* exists unless the device failed.
ResourcesOutliveWork ==
  \A s \in Stream : stream[s] # << >> =>
    /\ \A i \in 1..Len(stream[s]) : stream[s][i].task \in res.live
    /\ main.fault \/ s \in res.streams

\* The process succeeds only with the product of every task, though main ignores
\* what its wait for the device returns.
SuccessMeansComputed == main.exit = "success" => \A t \in Task : res.out[t] = "product"

\* run_managed_streams ends.
Terminates == <>(main.exit # "none")
===============================================================================
