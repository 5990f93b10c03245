---------------------------- MODULE StreamCallback ----------------------------
(***************************************************************************)
(* stream_callback.hg: main starts one thread per workload; each thread    *)
(* queues copy-in, kernel, copy-out and a host callback on a stream of its *)
(* own; the callback checks the result and counts; main spins on the       *)
(* count, joins the threads, releases everything and reports.              *)
(*                                                                         *)
(* External, modelled from its use: a stream runs its operations in order  *)
(* and without regard to the host; a callback runs on a thread of the      *)
(* driver, which is not main and not a worker.                             *)
(***************************************************************************)
EXTENDS Integers, Sequences, FiniteSets

CONSTANT NumWorkloads

ASSUME WorkloadsAssumption == NumWorkloads \in Nat \ {0}

Task == 1..NumWorkloads

VARIABLES
  main,         \* where main is
  next,         \* the workload of main's current loop
  worker,       \* where each worker thread is
  stream,       \* each stream's operations that have not completed
  callback,     \* how far each callback has got
  host_buf,     \* what the pinned buffer holds, or that there is none
  dev_buf,      \* the same for the device buffer
  verified,     \* WorkloadTask::verified
  g_completed

vars == << main, next, worker, stream, callback, host_buf, dev_buf, verified,
           g_completed >>

None    == "none"     \* not allocated
Freed   == "freed"
Initial == "initial"  \* task_id + i
Scaled  == "scaled"   \* (task_id + i) * kScaleFactor
Garbage == "garbage"  \* allocated, never written

Live(buf) == buf \notin {None, Freed}

Init ==
  /\ main = "launch" /\ next = 1
  /\ worker = [t \in Task |-> "unborn"]
  /\ stream = [t \in Task |-> << >>]
  /\ callback = [t \in Task |-> "idle"]
  /\ host_buf = [t \in Task |-> None]
  /\ dev_buf = [t \in Task |-> None]
  /\ verified = [t \in Task |-> FALSE]
  /\ g_completed = 0

Running == main \notin {"exit", "aborted"}

-------------------------------------------------------------------------------
(* run_workload                                                            *)

WorkerStep(t, from, to) ==
  Running /\ worker[t] = from /\ worker' = [worker EXCEPT ![t] = to]

\* Stream, both buffers, and the host buffer's first contents.
Allocate(t) ==
  /\ WorkerStep(t, "running", "h2d")
  /\ dev_buf' = [dev_buf EXCEPT ![t] = Garbage]
  /\ host_buf' = [host_buf EXCEPT ![t] = Initial]
  /\ UNCHANGED << main, next, stream, callback, verified, g_completed >>

Queue(t, op, to) ==
  /\ WorkerStep(t, op, to)
  /\ stream' = [stream EXCEPT ![t] = Append(@, op)]
  /\ UNCHANGED << main, next, callback, host_buf, dev_buf, verified, g_completed >>

\* The copy back queued before the kernel.
QueueCopyOutFirst(t) ==
  \/ Queue(t, "h2d", "d2h")
  \/ Queue(t, "d2h", "kernel")
  \/ Queue(t, "kernel", "callback")
  \/ Queue(t, "callback", "returning")

\* The callback is never added.
QueueWithoutCallback(t) ==
  \/ Queue(t, "h2d", "kernel")
  \/ Queue(t, "kernel", "d2h")
  \/ Queue(t, "d2h", "returning")

\* The callback may run, and even end, before hggcStreamAddCallback returns.
QueueWork(t) ==
  \/ Queue(t, "h2d", "kernel")
  \/ Queue(t, "kernel", "d2h")
  \/ Queue(t, "d2h", "callback")
  \/ Queue(t, "callback", "returning")

WorkerReturns(t) ==
  /\ WorkerStep(t, "returning", "done")
  /\ UNCHANGED << main, next, stream, callback, host_buf, dev_buf, verified,
                  g_completed >>

-------------------------------------------------------------------------------
(* The device and the driver's callback thread                             *)

AtHead(t, op) == Running /\ stream[t] # << >> /\ Head(stream[t]) = op

Pop(t) == stream' = [stream EXCEPT ![t] = Tail(@)]

CopyIn(t) ==
  /\ AtHead(t, "h2d") /\ Pop(t)
  /\ dev_buf' = [dev_buf EXCEPT ![t] = host_buf[t]]
  /\ UNCHANGED << main, next, worker, callback, host_buf, verified, g_completed >>

ScaleKernel(t) ==
  /\ AtHead(t, "kernel") /\ Pop(t)
  /\ dev_buf' = [dev_buf EXCEPT ![t] = IF @ = Initial THEN Scaled ELSE @]
  /\ UNCHANGED << main, next, worker, callback, host_buf, verified, g_completed >>

CopyOut(t) ==
  /\ AtHead(t, "d2h") /\ Pop(t)
  /\ host_buf' = [host_buf EXCEPT ![t] = dev_buf[t]]
  /\ UNCHANGED << main, next, worker, callback, dev_buf, verified, g_completed >>

CallbackVerify(t) ==
  /\ AtHead(t, "callback") /\ callback[t] = "idle"
  /\ verified' = [verified EXCEPT ![t] = host_buf[t] = Scaled]
  /\ callback' = [callback EXCEPT ![t] = "verified"]
  /\ UNCHANGED << main, next, worker, stream, host_buf, dev_buf, g_completed >>

CallbackCount(t) ==
  /\ AtHead(t, "callback") /\ callback[t] = "verified"
  /\ g_completed' = g_completed + 1
  /\ callback' = [callback EXCEPT ![t] = "counted"]
  /\ UNCHANGED << main, next, worker, stream, host_buf, dev_buf, verified >>

\* The callback returns to the driver, which takes it off the stream.
CallbackReturn(t) ==
  /\ AtHead(t, "callback") /\ callback[t] = "counted" /\ Pop(t)
  /\ callback' = [callback EXCEPT ![t] = "returned"]
  /\ UNCHANGED << main, next, worker, host_buf, dev_buf, verified, g_completed >>

-------------------------------------------------------------------------------
(* main                                                                    *)

\* A loop with the bound i <= kNumWorkloads.
AdvanceTooFar(phase) ==
  IF next > NumWorkloads THEN main' = phase /\ next' = 1
                         ELSE main' = main /\ next' = next + 1

\* The loop index of main: next workload, or the next phase after the last one.
Advance(phase) ==
  IF next = NumWorkloads THEN main' = phase /\ next' = 1
                         ELSE main' = main /\ next' = next + 1

Launch ==
  /\ main = "launch"
  /\ worker' = [worker EXCEPT ![next] = "running"]
  /\ Advance("spin")
  /\ UNCHANGED << stream, callback, host_buf, dev_buf, verified, g_completed >>

\* The last callback is not waited for.
SpinOneShort ==
  /\ main = "spin" /\ g_completed >= NumWorkloads - 1
  /\ main' = "join"
  /\ UNCHANGED << next, worker, stream, callback, host_buf, dev_buf, verified,
                  g_completed >>

Spin ==
  /\ main = "spin" /\ g_completed >= NumWorkloads
  /\ main' = "join"
  /\ UNCHANGED << next, worker, stream, callback, host_buf, dev_buf, verified,
                  g_completed >>

\* Threads are detached: the count is taken for their end.
DetachInsteadOfJoin ==
  /\ main = "join"
  /\ Advance("cleanup")
  /\ UNCHANGED << worker, stream, callback, host_buf, dev_buf, verified,
                  g_completed >>

Join ==
  /\ main = "join" /\ worker[next] = "done"
  /\ Advance("cleanup")
  /\ UNCHANGED << worker, stream, callback, host_buf, dev_buf, verified,
                  g_completed >>

Cleanup ==
  /\ main = "cleanup"
  /\ dev_buf' = [dev_buf EXCEPT ![next] = Freed]
  /\ host_buf' = [host_buf EXCEPT ![next] = Freed]
  /\ Advance("report")
  /\ UNCHANGED << worker, stream, callback, verified, g_completed >>

\* Counts the verified workloads and returns from main.
Report ==
  /\ main = "report"
  /\ main' = "exit"
  /\ UNCHANGED << next, worker, stream, callback, host_buf, dev_buf, verified,
                  g_completed >>

\* checkHggcErrors ends the process on the first failing call, in any thread;
\* main also returns before the first thread when there is no device.
ApiFails ==
  /\ \/ main = "cleanup"
     \/ main = "launch" /\ next = 1
     \/ Running /\ \E t \in Task : \/ worker[t] \in {"running", "h2d", "kernel",
                                                      "d2h", "callback"}
                                   \/ AtHead(t, "callback") /\ callback[t] = "idle"
  /\ main' = "aborted"
  /\ UNCHANGED << next, worker, stream, callback, host_buf, dev_buf, verified,
                  g_completed >>

MainStep == Launch \/ Spin \/ Join \/ Cleanup \/ Report

StreamStep(t) ==
  \/ CopyIn(t) \/ ScaleKernel(t) \/ CopyOut(t)
  \/ CallbackVerify(t) \/ CallbackCount(t) \/ CallbackReturn(t)

Next ==
  \/ MainStep \/ ApiFails
  \/ \E t \in Task : Allocate(t) \/ QueueWork(t) \/ WorkerReturns(t) \/ StreamStep(t)

Safety == Init /\ [][Next]_vars

\* The operating system schedules the threads and the device runs its streams.
Fairness ==
  /\ WF_vars(MainStep)
  /\ \A t \in Task : /\ WF_vars(Allocate(t) \/ QueueWork(t) \/ WorkerReturns(t))
                     /\ WF_vars(StreamStep(t))

Spec == Safety /\ Fairness
-------------------------------------------------------------------------------
Op == {"h2d", "kernel", "d2h", "callback"}

TypeOK ==
  /\ main \in {"launch", "spin", "join", "cleanup", "report", "exit", "aborted"}
  /\ next \in Task
  /\ worker \in [Task -> Op \cup {"unborn", "running", "returning", "done"}]
  /\ stream \in [Task -> Seq(Op)]
  /\ callback \in [Task -> {"idle", "verified", "counted", "returned"}]
  /\ host_buf \in [Task -> {None, Freed, Initial, Scaled, Garbage}]
  /\ dev_buf \in [Task -> {None, Freed, Initial, Scaled, Garbage}]
  /\ verified \in [Task -> BOOLEAN]
  /\ g_completed \in Nat

\* Work that still uses the buffers: queued device work, a callback that has
\* not counted yet, a worker that still submits.
UsesBuffers(t) ==
  \/ worker[t] \in Op
  \/ \E i \in 1..Len(stream[t]) :
        stream[t][i] \in {"h2d", "kernel", "d2h"} \/ callback[t] \in {"idle", "verified"}

\* main never frees a buffer that a queued copy, the kernel, the callback's
\* check or the submitting thread still uses: counting last and joining before
\* the cleanup loop is what protects them.
NoUseAfterFree == \A t \in Task : UsesBuffers(t) => Live(host_buf[t]) /\ Live(dev_buf[t])

\* main touches a workload's stream only after the thread that creates it ended,
\* although the counter may reach its limit before that.
CleanupAfterThreads ==
  main \in {"cleanup", "report", "exit"} => \A t \in Task : worker[t] = "done"

\* Unless a call fails, the report finds every workload verified: a count is
\* never visible before the check it stands for, and a check never runs before
\* the copy back.
ReportsPass == main \in {"report", "exit"} => \A t \in Task : verified[t]

\* main's spin and joins always end, or a failing call ends the process.
Terminates == <>(main \in {"exit", "aborted"})
===============================================================================
