------------------------- MODULE StreamCallbackProofs -------------------------
(***************************************************************************)
(* Theorems about stream_callback.hg for any number of workloads.          *)
(***************************************************************************)
EXTENDS StreamCallback, SequenceTheorems, FiniteSetTheorems, TLAPS

Ops == << "h2d", "kernel", "d2h", "callback" >>

\* How many operations a worker at this point has queued.
Queued(w) ==
  IF w = "kernel" THEN 1 ELSE IF w = "d2h" THEN 2 ELSE IF w = "callback" THEN 3
  ELSE IF w \in {"returning", "done"} THEN 4 ELSE 0

\* How many of them its stream has completed.
Completed(t) == Queued(worker[t]) - Len(stream[t])

Allocated(t) == worker[t] \notin {"unborn", "running"}

Counted == { t \in Task : callback[t] \in {"counted", "returned"} }

\* The stream holds what was queued and not completed, in order; the callback
\* and the host buffer are as far as the completed operations say.
PipeInv(t) ==
  /\ Completed(t) \in 0..4
  /\ \A i \in 1..Len(stream[t]) : stream[t][i] = Ops[Completed(t) + i]
  /\ Completed(t) < 3 => callback[t] = "idle"
  /\ Completed(t) = 4 => callback[t] = "returned"
  /\ verified[t] <=> callback[t] # "idle"
  /\ ~ Allocated(t) <=> host_buf[t] = None
  /\ host_buf[t] = None <=> dev_buf[t] = None

DataInv(t) ==
  /\ host_buf[t] = Freed <=> dev_buf[t] = Freed
  /\ host_buf[t] = Freed => worker[t] = "done" /\ t \in Counted
  /\ Live(host_buf[t]) => host_buf[t] = IF Completed(t) < 3 THEN Initial ELSE Scaled
  /\ Live(dev_buf[t]) => /\ Completed(t) = 1 => dev_buf[t] = Initial
                         /\ Completed(t) > 1 => dev_buf[t] = Scaled

\* What main knows at each point: the count is the number of callbacks that
\* counted, so past the spin all of them have.
MainInv ==
  /\ g_completed = Cardinality(Counted)
  /\ main = "launch" => \A t \in Task : t >= next => worker[t] = "unborn"
  /\ main = "spin" => next = 1
  /\ main \in {"join", "cleanup", "report", "exit"} => Counted = Task
  /\ main = "join" => \A t \in Task : t < next => worker[t] = "done"
  /\ main \in {"cleanup", "report", "exit"} => \A t \in Task : worker[t] = "done"

IInv == TypeOK /\ MainInv /\ \A t \in Task : PipeInv(t) /\ DataInv(t)

-------------------------------------------------------------------------------
\* A worker queues at most four operations.
LEMMA QueuedRange == \A w : Queued(w) \in 0..4
  BY DEF Queued

\* A step that touches one workload only leaves the others' invariant alone.
LEMMA Frame ==
  ASSUME IInv, NEW t \in Task, TypeOK', MainInv', PipeInv(t)', DataInv(t)',
         \A u \in Task \ {t} :
            /\ worker'[u] = worker[u] /\ stream'[u] = stream[u]
            /\ callback'[u] = callback[u] /\ verified'[u] = verified[u]
            /\ host_buf'[u] = host_buf[u] /\ dev_buf'[u] = dev_buf[u]
  PROVE  IInv'
  <1>1. ASSUME NEW u \in Task \ {t} PROVE PipeInv(u)' /\ DataInv(u)'
    BY <1>1 DEF IInv, PipeInv, DataInv, Completed, Allocated, Counted
  <1>2. QED
    BY <1>1 DEF IInv

LEMMA InitIInv == Init => IInv
  <1> SUFFICES ASSUME Init PROVE IInv
    OBVIOUS
  <1>1. TypeOK
    BY WorkloadsAssumption DEF Init, TypeOK, Task, None
  <1>2. Counted = {}
    BY DEF Init, Counted
  <1>3. MainInv
    BY <1>2, FS_EmptySet DEF Init, MainInv
  <1>4. ASSUME NEW t \in Task PROVE PipeInv(t) /\ DataInv(t)
    BY DEF Init, PipeInv, DataInv, Completed, Allocated, Queued, Live, None, Freed
  <1>5. QED
    BY <1>1, <1>3, <1>4 DEF IInv

\* Steps of a worker or a stream that leave main and the count alone.
LEMMA MainFrame ==
  ASSUME IInv, NEW t \in Task, TypeOK',
         UNCHANGED << main, next, g_completed >>, Counted' = Counted,
         worker[t] \notin {"unborn", "done"} \/ worker'[t] = worker[t],
         \A u \in Task \ {t} : worker'[u] = worker[u]
  PROVE  MainInv'
  BY DEF IInv, MainInv

\* A step of a worker that leaves its stream's callback alone.
LEMMA WorkerFrame ==
  ASSUME IInv, NEW t \in Task, NEW to, TypeOK',
         UNCHANGED << main, next, callback, g_completed >>,
         worker[t] \notin {"unborn", "done"}, worker' = [worker EXCEPT ![t] = to]
  PROVE  MainInv'
  <1>1. Counted' = Counted
    BY DEF Counted
  <1>2. \A u \in Task \ {t} : worker'[u] = worker[u]
    BY DEF IInv, TypeOK
  <1>3. QED
    BY <1>1, <1>2, MainFrame

LEMMA AllocateIInv ==
  ASSUME IInv, NEW t \in Task, Allocate(t)
  PROVE  IInv'
  <1>1. /\ worker[t] = "running" /\ worker' = [worker EXCEPT ![t] = "h2d"]
        /\ dev_buf' = [dev_buf EXCEPT ![t] = Garbage]
        /\ host_buf' = [host_buf EXCEPT ![t] = Initial]
        /\ UNCHANGED << main, next, stream, callback, verified, g_completed >>
    BY DEF Allocate, WorkerStep
  <1>2. TypeOK'
    BY <1>1 DEF IInv, TypeOK, Op
  <1>3. MainInv'
    BY <1>1, <1>2, WorkerFrame
  <1>4. /\ worker'[t] = "h2d" /\ dev_buf'[t] = Garbage /\ host_buf'[t] = Initial
        /\ stream'[t] = stream[t] /\ Queued(worker[t]) = 0 /\ Queued(worker'[t]) = 0
    BY <1>1 DEF IInv, TypeOK, Queued
  <1>5. Len(stream[t]) \in Nat
    BY LenProperties DEF IInv, TypeOK
  <1>6. Completed(t) = 0 /\ Completed(t)' = 0
    BY <1>4, <1>5 DEF IInv, PipeInv, Completed
  <1>7. PipeInv(t)' /\ DataInv(t)'
    BY <1>1, <1>4, <1>6 DEF IInv, TypeOK, PipeInv, DataInv, Allocated, Live, None, Freed,
                            Initial, Garbage, Scaled
  <1>8. QED
    BY <1>1, <1>2, <1>3, <1>7, Frame DEF IInv, TypeOK

LEMMA QueueIInv ==
  ASSUME IInv, NEW t \in Task, QueueWork(t)
  PROVE  IInv'
  <1>1. PICK op \in Op, to \in Op \cup {"returning"} :
          /\ Queue(t, op, to)
          /\ Queued(to) = Queued(op) + 1 /\ Ops[Queued(op) + 1] = op
          /\ Queued(to) \in 1..4
    BY DEF QueueWork, Op, Ops, Queued
  <1>2. /\ worker[t] = op /\ worker' = [worker EXCEPT ![t] = to]
        /\ stream' = [stream EXCEPT ![t] = Append(stream[t], op)]
        /\ UNCHANGED << main, next, callback, host_buf, dev_buf, verified, g_completed >>
    BY <1>1 DEF Queue, WorkerStep
  <1>3. stream[t] \in Seq(Op) /\ Len(stream[t]) \in Nat
    BY LenProperties DEF IInv, TypeOK
  <1>4. /\ Append(stream[t], op) \in Seq(Op)
        /\ Len(Append(stream[t], op)) = Len(stream[t]) + 1
        /\ \A i \in 1..Len(stream[t]) : Append(stream[t], op)[i] = stream[t][i]
        /\ Append(stream[t], op)[Len(stream[t]) + 1] = op
    BY <1>3, AppendProperties
  <1>5. TypeOK'
    BY <1>2, <1>4 DEF IInv, TypeOK
  <1>6. MainInv'
    <2>1. worker[t] \notin {"unborn", "done"}
      BY <1>2 DEF Op
    <2>2. QED
      BY <1>2, <1>5, <2>1, WorkerFrame
  <1>7. worker'[t] = to /\ stream'[t] = Append(stream[t], op)
    BY <1>2 DEF IInv, TypeOK
  <1>8. Completed(t)' = Completed(t)
    <2>1. Len(stream'[t]) = Len(stream[t]) + 1 /\ Queued(worker'[t]) = Queued(worker[t]) + 1
      BY <1>1, <1>2, <1>4, <1>7
    <2>2. QED
      BY <1>3, <2>1, QueuedRange DEF Completed
  <1>9. \A i \in 1..Len(stream'[t]) : stream'[t][i] = Ops[Completed(t) + i]
    <2> SUFFICES ASSUME NEW i \in 1..Len(stream[t]) + 1
                 PROVE  stream'[t][i] = Ops[Completed(t) + i]
      BY <1>4, <1>7
    <2>1. CASE i \in 1..Len(stream[t])
      BY <1>4, <1>7, <2>1 DEF IInv, PipeInv
    <2>2. CASE i = Len(stream[t]) + 1
      <3>1. Completed(t) + i = Queued(op) + 1
        BY <1>2, <1>3, <2>2, QueuedRange DEF Completed
      <3>2. QED
        BY <1>1, <1>4, <1>7, <2>2, <3>1
    <2>3. QED
      BY <1>3, <2>1, <2>2
  <1>10. PipeInv(t)' /\ DataInv(t)'
    <2>1. Allocated(t) /\ Allocated(t)' /\ worker[t] # "done"
      BY <1>2, <1>7 DEF Allocated, Op
    <2>2. Counted' = Counted
      BY <1>2 DEF Counted
    <2>3. QED
      BY <1>2, <1>8, <1>9, <2>1, <2>2 DEF IInv, PipeInv, DataInv
  <1>11. QED
    BY <1>2, <1>5, <1>6, <1>10, Frame DEF IInv, TypeOK

LEMMA WorkerReturnsIInv ==
  ASSUME IInv, NEW t \in Task, WorkerReturns(t)
  PROVE  IInv'
  <1>1. /\ worker[t] = "returning" /\ worker' = [worker EXCEPT ![t] = "done"]
        /\ UNCHANGED << main, next, stream, callback, host_buf, dev_buf, verified,
                        g_completed >>
    BY DEF WorkerReturns, WorkerStep
  <1>2. TypeOK'
    BY <1>1 DEF IInv, TypeOK
  <1>3. MainInv'
    BY <1>1, <1>2, WorkerFrame
  <1>4. /\ worker'[t] = "done" /\ \A u \in Task \ {t} : worker'[u] = worker[u]
        /\ Queued(worker[t]) = 4 /\ Queued(worker'[t]) = 4
    BY <1>1 DEF IInv, TypeOK, Queued
  <1>5. PipeInv(t)'
    BY <1>1, <1>4 DEF IInv, PipeInv, Completed, Allocated
  <1>6. DataInv(t)'
    BY <1>1, <1>4 DEF IInv, DataInv, Completed, Counted
  <1>7. QED
    BY <1>1, <1>2, <1>3, <1>4, <1>5, <1>6, Frame

-------------------------------------------------------------------------------
\* The operation at the head of a stream is the first that has not completed,
\* so its buffers are allocated, and live until the callback has counted.
LEMMA AtHeadFacts ==
  ASSUME IInv, NEW t \in Task, NEW k \in 1..4, AtHead(t, Ops[k])
  PROVE  /\ Completed(t) = k - 1 /\ Allocated(t)
         /\ t \notin Counted => Live(host_buf[t]) /\ Live(dev_buf[t])
  <1>1. stream[t] \in Seq(Op) /\ stream[t] # << >> /\ Head(stream[t]) = Ops[k]
    BY DEF AtHead, IInv, TypeOK
  <1>2. Len(stream[t]) \in Nat /\ Len(stream[t]) >= 1 /\ stream[t][1] = Ops[k]
    BY <1>1, HeadTailProperties, EmptySeq
  <1>3. Completed(t) \in 0..4 /\ Ops[Completed(t) + 1] = Ops[k]
    BY <1>2 DEF IInv, PipeInv
  <1>4. Completed(t) + 1 \in 1..4 /\ Queued(worker[t]) >= 1
    BY <1>2, <1>3, QueuedRange DEF Completed
  <1>5. \A i, j \in 1..4 : Ops[i] = Ops[j] => i = j
    BY DEF Ops
  <1>6. Completed(t) + 1 = k
    BY <1>3, <1>4, <1>5
  <1>7. Allocated(t)
    BY <1>4 DEF Queued, Allocated
  <1>8. QED
    BY <1>3, <1>6, <1>7 DEF IInv, PipeInv, DataInv, Live

\* A completed operation leaves the rest of the stream in order.
LEMMA PopFacts ==
  ASSUME IInv, NEW t \in Task, NEW k \in 1..4, AtHead(t, Ops[k]), Pop(t),
         worker' = worker
  PROVE  /\ stream' \in [Task -> Seq(Op)]
         /\ \A u \in Task \ {t} : stream'[u] = stream[u]
         /\ Completed(t) = k - 1 /\ Completed(t)' = k
         /\ \A i \in 1..Len(stream'[t]) : stream'[t][i] = Ops[k + i]
  <1>1. stream[t] \in Seq(Op) /\ stream[t] # << >> /\ stream'[t] = Tail(stream[t])
    BY DEF AtHead, IInv, TypeOK, Pop
  <1>2. /\ Len(stream[t]) \in Nat /\ Tail(stream[t]) \in Seq(Op)
        /\ Len(Tail(stream[t])) = Len(stream[t]) - 1
        /\ \A i \in 1..Len(Tail(stream[t])) : Tail(stream[t])[i] = stream[t][i + 1]
    BY <1>1, HeadTailProperties, LenProperties
  <1>3. Completed(t) = k - 1
    BY AtHeadFacts
  <1>4. Completed(t)' = k
    BY <1>1, <1>2, <1>3, QueuedRange DEF Completed
  <1>5. ASSUME NEW i \in 1..Len(stream'[t]) PROVE stream'[t][i] = Ops[k + i]
    <2>1. i + 1 \in 1..Len(stream[t]) /\ stream'[t][i] = stream[t][i + 1]
      BY <1>1, <1>2
    <2>2. stream[t][i + 1] = Ops[Completed(t) + (i + 1)]
      BY <2>1 DEF IInv, PipeInv
    <2>3. Completed(t) + (i + 1) = k + i
      BY <1>2, <1>3, <2>1
    <2>4. QED
      BY <2>1, <2>2, <2>3
  <1>6. QED
    BY <1>1, <1>2, <1>3, <1>4, <1>5 DEF IInv, TypeOK, Pop

LEMMA CopyInIInv ==
  ASSUME IInv, NEW t \in Task, CopyIn(t)
  PROVE  IInv'
  <1>1. /\ AtHead(t, Ops[1]) /\ Pop(t)
        /\ dev_buf' = [dev_buf EXCEPT ![t] = host_buf[t]]
        /\ UNCHANGED << main, next, worker, callback, host_buf, verified, g_completed >>
    BY DEF CopyIn, Ops
  <1>2. /\ stream' \in [Task -> Seq(Op)]
        /\ \A u \in Task \ {t} : stream'[u] = stream[u]
        /\ Completed(t) = 0 /\ Completed(t)' = 1
        /\ \A i \in 1..Len(stream'[t]) : stream'[t][i] = Ops[1 + i]
    BY <1>1, PopFacts
  <1>3. TypeOK'
    BY <1>1, <1>2 DEF IInv, TypeOK
  <1>4. Counted' = Counted
    BY <1>1 DEF Counted
  <1>5. MainInv'
    BY <1>1, <1>3, <1>4, MainFrame
  <1>6. t \notin Counted /\ Live(host_buf[t]) /\ Live(dev_buf[t])
    BY <1>1, <1>2, AtHeadFacts DEF IInv, PipeInv, Counted
  <1>7. dev_buf'[t] = Initial /\ host_buf[t] = Initial
    BY <1>1, <1>2, <1>6 DEF IInv, TypeOK, DataInv
  <1>8. PipeInv(t)' /\ DataInv(t)'
    BY <1>1, <1>2, <1>4, <1>6, <1>7 DEF IInv, PipeInv, DataInv, Allocated, Live, None, Freed,
                                        Initial
  <1>9. QED
    BY <1>1, <1>2, <1>3, <1>5, <1>8, Frame DEF IInv, TypeOK

LEMMA ScaleKernelIInv ==
  ASSUME IInv, NEW t \in Task, ScaleKernel(t)
  PROVE  IInv'
  <1>1. /\ AtHead(t, Ops[2]) /\ Pop(t)
        /\ dev_buf' = [dev_buf EXCEPT ![t] = IF @ = Initial THEN Scaled ELSE @]
        /\ UNCHANGED << main, next, worker, callback, host_buf, verified, g_completed >>
    BY DEF ScaleKernel, Ops
  <1>2. /\ stream' \in [Task -> Seq(Op)]
        /\ \A u \in Task \ {t} : stream'[u] = stream[u]
        /\ Completed(t) = 1 /\ Completed(t)' = 2
        /\ \A i \in 1..Len(stream'[t]) : stream'[t][i] = Ops[2 + i]
    BY <1>1, PopFacts
  <1>3. TypeOK'
    BY <1>1, <1>2 DEF IInv, TypeOK
  <1>4. Counted' = Counted
    BY <1>1 DEF Counted
  <1>5. MainInv'
    BY <1>1, <1>3, <1>4, MainFrame
  <1>6. t \notin Counted /\ Live(host_buf[t]) /\ Live(dev_buf[t])
    BY <1>1, <1>2, AtHeadFacts DEF IInv, PipeInv, Counted
  <1>7. dev_buf'[t] = Scaled
    BY <1>1, <1>2, <1>6 DEF IInv, TypeOK, DataInv
  <1>8. PipeInv(t)' /\ DataInv(t)'
    BY <1>1, <1>2, <1>4, <1>6, <1>7 DEF IInv, PipeInv, DataInv, Allocated, Live, None, Freed,
                                        Scaled
  <1>9. QED
    BY <1>1, <1>2, <1>3, <1>5, <1>8, Frame DEF IInv, TypeOK

LEMMA CopyOutIInv ==
  ASSUME IInv, NEW t \in Task, CopyOut(t)
  PROVE  IInv'
  <1>1. /\ AtHead(t, Ops[3]) /\ Pop(t)
        /\ host_buf' = [host_buf EXCEPT ![t] = dev_buf[t]]
        /\ UNCHANGED << main, next, worker, callback, dev_buf, verified, g_completed >>
    BY DEF CopyOut, Ops
  <1>2. /\ stream' \in [Task -> Seq(Op)]
        /\ \A u \in Task \ {t} : stream'[u] = stream[u]
        /\ Completed(t) = 2 /\ Completed(t)' = 3
        /\ \A i \in 1..Len(stream'[t]) : stream'[t][i] = Ops[3 + i]
    BY <1>1, PopFacts
  <1>3. TypeOK'
    BY <1>1, <1>2 DEF IInv, TypeOK
  <1>4. Counted' = Counted
    BY <1>1 DEF Counted
  <1>5. MainInv'
    BY <1>1, <1>3, <1>4, MainFrame
  <1>6. t \notin Counted /\ Live(host_buf[t]) /\ Live(dev_buf[t])
    BY <1>1, <1>2, AtHeadFacts DEF IInv, PipeInv, Counted
  <1>7. host_buf'[t] = Scaled /\ dev_buf[t] = Scaled
    BY <1>1, <1>2, <1>6 DEF IInv, TypeOK, DataInv
  <1>8. PipeInv(t)' /\ DataInv(t)'
    BY <1>1, <1>2, <1>4, <1>6, <1>7 DEF IInv, PipeInv, DataInv, Allocated, Live, None, Freed,
                                        Scaled
  <1>9. QED
    BY <1>1, <1>2, <1>3, <1>5, <1>8, Frame DEF IInv, TypeOK

LEMMA CallbackVerifyIInv ==
  ASSUME IInv, NEW t \in Task, CallbackVerify(t)
  PROVE  IInv'
  <1>1. /\ AtHead(t, Ops[4]) /\ callback[t] = "idle"
        /\ verified' = [verified EXCEPT ![t] = host_buf[t] = Scaled]
        /\ callback' = [callback EXCEPT ![t] = "verified"]
        /\ UNCHANGED << main, next, worker, stream, host_buf, dev_buf, g_completed >>
    BY DEF CallbackVerify, Ops
  <1>2. Completed(t) = 3 /\ Completed(t)' = 3
    BY <1>1, AtHeadFacts DEF Completed
  <1>3. TypeOK'
    BY <1>1 DEF IInv, TypeOK
  <1>4. Counted' = Counted
    BY <1>1 DEF Counted, IInv, TypeOK
  <1>5. MainInv'
    BY <1>1, <1>3, <1>4, MainFrame
  <1>6. t \notin Counted /\ Live(host_buf[t])
    BY <1>1, <1>2, AtHeadFacts DEF Counted
  <1>7. verified'[t] /\ callback'[t] = "verified"
    <2>1. host_buf[t] = Scaled
      BY <1>2, <1>6 DEF IInv, DataInv
    <2>2. verified' = [verified EXCEPT ![t] = TRUE]
      BY <1>1, <2>1, Zenon
    <2>3. QED
      BY <1>1, <2>2 DEF IInv, TypeOK
  <1>8. PipeInv(t)' /\ DataInv(t)'
    BY <1>1, <1>2, <1>4, <1>6, <1>7 DEF IInv, PipeInv, DataInv, Allocated, Live
  <1>9. QED
    BY <1>1, <1>3, <1>5, <1>8, Frame DEF IInv, TypeOK

LEMMA CallbackCountIInv ==
  ASSUME IInv, NEW t \in Task, CallbackCount(t)
  PROVE  IInv'
  <1>1. /\ AtHead(t, Ops[4]) /\ callback[t] = "verified"
        /\ g_completed' = g_completed + 1
        /\ callback' = [callback EXCEPT ![t] = "counted"]
        /\ UNCHANGED << main, next, worker, stream, host_buf, dev_buf, verified >>
    BY DEF CallbackCount, Ops
  <1>2. Completed(t) = 3 /\ Completed(t)' = 3
    BY <1>1, AtHeadFacts DEF Completed
  <1>3. TypeOK'
    BY <1>1 DEF IInv, TypeOK
  <1>4. Counted' = Counted \cup {t} /\ t \notin Counted
    BY <1>1 DEF Counted, IInv, TypeOK
  <1>5. g_completed' = Cardinality(Counted')
    <2>1. IsFiniteSet(Task) /\ Counted \subseteq Task
      BY WorkloadsAssumption, FS_Interval DEF Counted, Task
    <2>2. IsFiniteSet(Counted)
      BY <2>1, FS_Subset
    <2>3. QED
      BY <1>1, <1>4, <2>2, FS_AddElement DEF IInv, MainInv
  <1>6. MainInv'
    BY <1>1, <1>4, <1>5 DEF IInv, MainInv, Counted
  <1>7. callback'[t] = "counted"
    BY <1>1 DEF IInv, TypeOK
  <1>8. PipeInv(t)' /\ DataInv(t)'
    BY <1>1, <1>2, <1>4, <1>7 DEF IInv, PipeInv, DataInv, Allocated, Live
  <1>9. ASSUME NEW u \in Task \ {t} PROVE PipeInv(u)' /\ DataInv(u)'
    BY <1>1, <1>4 DEF IInv, TypeOK, PipeInv, DataInv, Allocated, Completed
  <1>10. QED
    BY <1>3, <1>6, <1>8, <1>9 DEF IInv

LEMMA CallbackReturnIInv ==
  ASSUME IInv, NEW t \in Task, CallbackReturn(t)
  PROVE  IInv'
  <1>1. /\ AtHead(t, Ops[4]) /\ callback[t] = "counted" /\ Pop(t)
        /\ callback' = [callback EXCEPT ![t] = "returned"]
        /\ UNCHANGED << main, next, worker, host_buf, dev_buf, verified, g_completed >>
    BY DEF CallbackReturn, Ops
  <1>2. /\ stream' \in [Task -> Seq(Op)]
        /\ \A u \in Task \ {t} : stream'[u] = stream[u]
        /\ Completed(t) = 3 /\ Completed(t)' = 4
        /\ \A i \in 1..Len(stream'[t]) : stream'[t][i] = Ops[4 + i]
    BY <1>1, PopFacts
  <1>3. TypeOK'
    BY <1>1, <1>2 DEF IInv, TypeOK
  <1>4. Counted' = Counted
    BY <1>1 DEF Counted, IInv, TypeOK
  <1>5. MainInv'
    BY <1>1, <1>3, <1>4, MainFrame
  <1>6. callback'[t] = "returned"
    BY <1>1 DEF IInv, TypeOK
  <1>7. PipeInv(t)' /\ DataInv(t)'
    BY <1>1, <1>2, <1>4, <1>6 DEF IInv, PipeInv, DataInv, Allocated, Live
  <1>8. QED
    BY <1>1, <1>2, <1>3, <1>5, <1>7, Frame DEF IInv, TypeOK

-------------------------------------------------------------------------------
\* Steps of main that leave the workloads alone.
LEMMA TasksFrame ==
  ASSUME IInv, TypeOK', MainInv',
         UNCHANGED << worker, stream, callback, host_buf, dev_buf, verified >>
  PROVE  IInv'
  BY DEF IInv, PipeInv, DataInv, Completed, Allocated, Counted

LEMMA LaunchIInv ==
  ASSUME IInv, Launch
  PROVE  IInv'
  <1> PICK t \in Task : t = next
    BY DEF IInv, TypeOK
  <1>1. /\ main = "launch" /\ next \in Task /\ worker[next] = "unborn"
        /\ worker' = [worker EXCEPT ![next] = "running"]
        /\ UNCHANGED << stream, callback, host_buf, dev_buf, verified, g_completed >>
    BY DEF Launch, IInv, TypeOK, MainInv, Task
  <1>2. /\ main' \in {"launch", "spin"} /\ next' \in Task
        /\ main' = "launch" => next' = next + 1
    BY <1>1, WorkloadsAssumption DEF Launch, Advance, Task
  <1>3. TypeOK'
    BY <1>1, <1>2 DEF IInv, TypeOK
  <1>4. Counted' = Counted
    BY <1>1 DEF Counted
  <1>5. MainInv'
    <2>1. main' = "launch" => \A u \in Task : u >= next' => u # next /\ u >= next
      BY <1>1, <1>2 DEF Task
    <2>2. main' = "spin" => next' = 1
      BY <1>1 DEF Launch, Advance
    <2>3. QED
      BY <1>1, <1>2, <1>4, <2>1, <2>2 DEF IInv, TypeOK, MainInv
  <1>6. /\ worker'[t] = "running" /\ stream'[t] = stream[t]
        /\ worker[t] = "unborn" /\ Queued("unborn") = 0 /\ Queued("running") = 0
    BY <1>1 DEF Queued, IInv, TypeOK
  <1>7. PipeInv(t)' /\ DataInv(t)'
    BY <1>1, <1>4, <1>6 DEF IInv, PipeInv, DataInv, Allocated, Completed, Live, None, Freed
  <1>8. ASSUME NEW u \in Task \ {t} PROVE PipeInv(u)' /\ DataInv(u)'
    BY <1>1, <1>4 DEF IInv, TypeOK, PipeInv, DataInv, Allocated, Completed
  <1>9. QED
    BY <1>3, <1>5, <1>7, <1>8 DEF IInv

\* A full count means that every callback has counted.
LEMMA SpinIInv ==
  ASSUME IInv, Spin
  PROVE  IInv'
  <1>1. /\ g_completed >= NumWorkloads /\ main' = "join" /\ main = "spin"
        /\ UNCHANGED << next, worker, stream, callback, host_buf, dev_buf, verified,
                        g_completed >>
    BY DEF Spin
  <1>2. TypeOK'
    BY <1>1 DEF IInv, TypeOK
  <1>3. IsFiniteSet(Task) /\ Cardinality(Task) = NumWorkloads
    BY WorkloadsAssumption, FS_Interval DEF Task
  <1>4. Counted = Task
    <2>1. Counted \subseteq Task /\ Cardinality(Counted) \in Nat
      BY <1>3, FS_Subset, FS_CardinalityType DEF Counted
    <2>2. Cardinality(Counted) >= Cardinality(Task)
      BY <1>1, <1>3 DEF IInv, MainInv
    <2>3. Cardinality(Counted) = Cardinality(Task)
      BY <1>3, <2>1, <2>2, FS_Subset, WorkloadsAssumption
    <2>4. QED
      BY <1>3, <2>1, <2>3, FS_Subset
  <1>5. Counted' = Counted /\ next' = 1
    BY <1>1 DEF Counted, IInv, MainInv
  <1>6. MainInv'
    <2>1. \A t \in Task : ~ t < next'
      BY <1>5 DEF Task
    <2>2. QED
      BY <1>1, <1>4, <1>5, <2>1 DEF IInv, MainInv
  <1>7. QED
    BY <1>1, <1>2, <1>6, TasksFrame

LEMMA JoinIInv ==
  ASSUME IInv, Join
  PROVE  IInv'
  <1>1. /\ main = "join" /\ worker[next] = "done" /\ next \in Task
        /\ UNCHANGED << worker, stream, callback, host_buf, dev_buf, verified, g_completed >>
    BY DEF Join, IInv, TypeOK
  <1>2. /\ main' \in {"join", "cleanup"} /\ next' \in Task
        /\ main' = "join" => next' = next + 1
        /\ main' = "cleanup" => next = NumWorkloads
    BY <1>1, WorkloadsAssumption DEF Join, Advance, Task
  <1>3. TypeOK'
    BY <1>1, <1>2 DEF IInv, TypeOK
  <1>4. Counted' = Counted
    BY <1>1 DEF Counted
  <1>5. MainInv'
    BY <1>1, <1>2, <1>4, WorkloadsAssumption DEF IInv, MainInv, Task
  <1>6. QED
    BY <1>1, <1>3, <1>5, TasksFrame

LEMMA CleanupIInv ==
  ASSUME IInv, Cleanup
  PROVE  IInv'
  <1> PICK t \in Task : t = next
    BY DEF IInv, TypeOK
  <1>1. /\ main = "cleanup" /\ next \in Task
        /\ dev_buf' = [dev_buf EXCEPT ![next] = Freed]
        /\ host_buf' = [host_buf EXCEPT ![next] = Freed]
        /\ main' \in {"cleanup", "report"} /\ next' \in Task
        /\ UNCHANGED << worker, stream, callback, verified, g_completed >>
    BY WorkloadsAssumption DEF Cleanup, Advance, Task, IInv, TypeOK
  <1>2. TypeOK'
    BY <1>1 DEF IInv, TypeOK
  <1>3. Counted' = Counted
    BY <1>1 DEF Counted
  <1>4. MainInv'
    BY <1>1, <1>3 DEF IInv, MainInv
  <1>5. /\ host_buf'[t] = Freed /\ dev_buf'[t] = Freed
        /\ worker[t] = "done" /\ t \in Counted
    BY <1>1 DEF IInv, TypeOK, MainInv
  <1>6. PipeInv(t)' /\ DataInv(t)'
    BY <1>1, <1>3, <1>5 DEF IInv, PipeInv, DataInv, Allocated, Completed, Live, None, Freed
  <1>7. QED
    BY <1>1, <1>2, <1>4, <1>6, Frame DEF IInv, TypeOK

LEMMA EndIInv ==
  ASSUME IInv, Report \/ ApiFails \/ UNCHANGED vars
  PROVE  IInv'
  <1>1. /\ \/ main' = main
           \/ main = "report" /\ main' = "exit"
           \/ main' = "aborted"
        /\ UNCHANGED << next, worker, stream, callback, host_buf, dev_buf, verified,
                        g_completed >>
    BY DEF Report, ApiFails, vars
  <1>2. TypeOK'
    BY <1>1 DEF IInv, TypeOK
  <1>3. MainInv'
    BY <1>1 DEF IInv, MainInv, Counted
  <1>4. QED
    BY <1>1, <1>2, <1>3, TasksFrame

-------------------------------------------------------------------------------
\* The invariant that carries the theorems below: at every point of main and of
\* each workload, what has been queued, completed, counted and freed.
THEOREM Invariance == Safety => []IInv
  <1>1. IInv /\ [Next]_vars => IInv'
    <2> SUFFICES ASSUME IInv, [Next]_vars PROVE IInv'
      OBVIOUS
    <2>1. CASE MainStep
      BY <2>1, LaunchIInv, SpinIInv, JoinIInv, CleanupIInv, EndIInv DEF MainStep
    <2>2. CASE ApiFails \/ UNCHANGED vars
      BY <2>2, EndIInv
    <2>3. ASSUME NEW t \in Task, Allocate(t) \/ QueueWork(t) \/ WorkerReturns(t)
          PROVE  IInv'
      BY <2>3, AllocateIInv, QueueIInv, WorkerReturnsIInv
    <2>4. ASSUME NEW t \in Task, StreamStep(t) PROVE IInv'
      BY <2>4, CopyInIInv, ScaleKernelIInv, CopyOutIInv, CallbackVerifyIInv,
         CallbackCountIInv, CallbackReturnIInv DEF StreamStep
    <2>5. QED
      BY <2>1, <2>2, <2>3, <2>4 DEF Next
  <1>2. QED
    BY <1>1, InitIInv, PTL DEF Safety

\* The types of the state of main, the workers, the streams and the callbacks.
THEOREM TypeCorrect == Safety => []TypeOK
  BY Invariance, PTL DEF IInv

\* main never frees a buffer that a queued operation, the callback's check or
\* the submitting thread still uses, for any number of workloads.
THEOREM BuffersOutliveTheirUse == Safety => []NoUseAfterFree
  <1>1. IInv => NoUseAfterFree
    <2> SUFFICES ASSUME IInv, NEW t \in Task, UsesBuffers(t)
                 PROVE  Live(host_buf[t]) /\ Live(dev_buf[t])
      BY DEF NoUseAfterFree
    <2>1. CASE worker[t] \in Op
      BY <2>1 DEF IInv, PipeInv, DataInv, Allocated, Live, Op
    <2>2. ASSUME NEW i \in 1..Len(stream[t]),
                 \/ stream[t][i] \in {"h2d", "kernel", "d2h"}
                 \/ callback[t] \in {"idle", "verified"}
          PROVE  Live(host_buf[t]) /\ Live(dev_buf[t])
      <3>1. Len(stream[t]) \in Nat /\ Completed(t) \in 0..4
        BY LenProperties DEF IInv, TypeOK, PipeInv
      <3>2. Queued(worker[t]) \in 0..4 /\ Completed(t) = Queued(worker[t]) - Len(stream[t])
        BY QueuedRange DEF Completed
      <3>3. Queued(worker[t]) >= 1 /\ Completed(t) + i \in 1..4
        BY <3>1, <3>2
      <3>4. Allocated(t)
        BY <3>3 DEF Queued, Allocated
      <3>5. stream[t][i] = Ops[Completed(t) + i]
        BY DEF IInv, PipeInv
      <3>6. Completed(t) + i = 4 => stream[t][i] = "callback"
        BY <3>5 DEF Ops
      <3>7. t \notin Counted
        <4>1. CASE stream[t][i] \in {"h2d", "kernel", "d2h"}
          <5>1. Completed(t) + i # 4
            BY <3>6, <4>1
          <5>2. Completed(t) < 3
            BY <3>1, <3>3, <5>1
          <5>3. QED
            BY <5>2 DEF IInv, PipeInv, Counted
        <4>2. CASE callback[t] \in {"idle", "verified"}
          BY <4>2 DEF Counted
        <4>3. QED
          BY <2>2, <4>1, <4>2
      <3>8. QED
        BY <3>4, <3>7 DEF IInv, PipeInv, DataInv, Live
    <2>3. QED
      BY <2>1, <2>2 DEF UsesBuffers
  <1>2. QED
    BY <1>1, Invariance, PTL

\* main destroys streams only after their threads ended.
THEOREM CleanupWaitsForThreads == Safety => []CleanupAfterThreads
  <1>1. IInv => CleanupAfterThreads
    BY DEF IInv, MainInv, CleanupAfterThreads
  <1>2. QED
    BY <1>1, Invariance, PTL

\* The report finds every workload verified, for any number of workloads.
THEOREM ReportCorrect == Safety => []ReportsPass
  <1>1. IInv => ReportsPass
    BY DEF IInv, MainInv, PipeInv, Counted, ReportsPass
  <1>2. QED
    BY <1>1, Invariance, PTL
===============================================================================
