--------------------------- MODULE TestRunnerProofs ---------------------------
(***************************************************************************)
(* Theorems about run_tests.py for every number of runs and workers and    *)
(* every set of return codes: every run is counted once, the exit status   *)
(* agrees with the results, and each run's output has a file of its own.   *)
(***************************************************************************)
EXTENDS TestRunner, SequenceTheorems, FiniteSetTheorems, TLAPS

\* The part of the inductive invariant about a single moment of the hand-over:
\* a finished run is waiting in exactly one of as_completed's two sources, or
\* it has been recorded, and then it is in the list if and only if it failed.
HandOver ==
  /\ finished \subseteq InStage("finished")
  /\ NoRepeats(events) /\ NoRepeats(failed)
  /\ \A t \in tasks : InSeq(t, events) => /\ t \in InStage("finished") \ finished
                                          /\ ~ InSeq(t, failed)
  /\ \A t \in tasks : InSeq(t, failed) => /\ t \in InStage("finished") \ finished
                                          /\ return_code[t] # 0
  /\ phase \in {"start", "submit"} =>
       finished = {} /\ events = << >> /\ failed = << >>
  /\ phase \in {"collect", "exit"} =>
       \A t \in InStage("finished") :
          t \in finished \/ InSeq(t, events)
            \/ (return_code[t] # 0 => InSeq(t, failed))

Ended ==
  /\ phase \in {"start", "submit", "collect"} => exit_code = Unset
  /\ phase = "start" => tasks = {}
  /\ phase = "exit" /\ tasks # {} =>
       /\ InStage("finished") = tasks /\ finished = {} /\ events = << >>
       /\ failed = << >> => exit_code = 0
       /\ failed # << >> => exit_code # 0 /\ IsFirstFailureCode(exit_code)

ResultTyped ==
  \A t \in InStage("finished") : return_code[t] \in Codes \cup {TimedOut}

IInv == TypeOK /\ HandOver /\ Ended /\ ResultTyped

-------------------------------------------------------------------------------
LEMMA AppendFacts ==
  ASSUME NEW S, NEW seq \in Seq(S), NEW e \in S
  PROVE  /\ Append(seq, e) \in Seq(S)
         /\ \A x : InSeq(x, Append(seq, e)) <=> InSeq(x, seq) \/ x = e
         /\ NoRepeats(seq) /\ ~ InSeq(e, seq) => NoRepeats(Append(seq, e))
  BY AppendProperties, LenProperties DEF InSeq, NoRepeats

LEMMA TailFacts ==
  ASSUME NEW S, NEW seq \in Seq(S), seq # << >>
  PROVE  /\ Head(seq) \in S /\ Tail(seq) \in Seq(S)
         /\ \A x : InSeq(x, seq) <=> x = Head(seq) \/ InSeq(x, Tail(seq))
         /\ NoRepeats(seq) => NoRepeats(Tail(seq)) /\ ~ InSeq(Head(seq), Tail(seq))
  <1>1. /\ Len(seq) \in Nat \ {0}
        /\ Head(seq) \in S /\ Tail(seq) \in Seq(S)
        /\ Len(Tail(seq)) = Len(seq) - 1
        /\ \A i \in 1..Len(Tail(seq)) : Tail(seq)[i] = seq[i + 1]
        /\ Head(seq) = seq[1]
    BY HeadTailProperties, EmptySeq
  <1>2. ASSUME NEW x, InSeq(x, seq), x # Head(seq) PROVE InSeq(x, Tail(seq))
    <2>1. PICK i \in 1..Len(seq) : seq[i] = x
      BY <1>2 DEF InSeq
    <2>2. i - 1 \in 1..Len(Tail(seq)) /\ Tail(seq)[i - 1] = x
      BY <1>1, <1>2, <2>1
    <2>3. QED
      BY <2>2 DEF InSeq
  <1>3. ASSUME NEW x, x = Head(seq) \/ InSeq(x, Tail(seq)) PROVE InSeq(x, seq)
    <2>1. CASE x = Head(seq)
      BY <1>1, <2>1 DEF InSeq
    <2>2. CASE InSeq(x, Tail(seq))
      <3>1. PICK i \in 1..Len(Tail(seq)) : Tail(seq)[i] = x
        BY <2>2 DEF InSeq
      <3>2. i + 1 \in 1..Len(seq) /\ seq[i + 1] = x
        BY <1>1, <3>1
      <3>3. QED
        BY <3>2 DEF InSeq
    <2>3. QED
      BY <1>3, <2>1, <2>2
  <1>4. ASSUME NoRepeats(seq)
        PROVE  NoRepeats(Tail(seq)) /\ ~ InSeq(Head(seq), Tail(seq))
    BY <1>1, <1>4 DEF NoRepeats, InSeq
  <1>5. QED
    BY <1>1, <1>2, <1>3, <1>4

LEMMA InitIInv == Init => IInv
  BY DEF Init, IInv, TypeOK, HandOver, Ended, ResultTyped, InStage, NoRepeats,
         InSeq

LEMMA NothingToRunIInv == IInv /\ NothingToRun => IInv'
  <1> SUFFICES ASSUME IInv, NothingToRun PROVE IInv'
    OBVIOUS
  <1>1. /\ tasks = {} /\ tasks' = {} /\ phase' = "exit" /\ exit_code' \in {0, 1}
        /\ UNCHANGED << stage, fate, return_code, content, finished, events, failed >>
    BY DEF IInv, Ended, NothingToRun, Exit, pool
  <1>2. TypeOK'
    BY <1>1 DEF IInv, TypeOK
  <1>3. HandOver'
    BY <1>1 DEF IInv, HandOver, TypeOK, InStage, NoRepeats, InSeq
  <1>4. Ended' /\ ResultTyped'
    BY <1>1 DEF IInv, Ended, ResultTyped, InStage
  <1>5. QED
    BY <1>2, <1>3, <1>4 DEF IInv

LEMMA PlanIInv == IInv /\ Plan => IInv'
  <1> SUFFICES ASSUME IInv, Plan PROVE IInv'
    OBVIOUS
  <1>1. /\ finished' = {} /\ events' = << >> /\ failed' = << >>
        /\ phase' = "submit" /\ exit_code' = Unset
        /\ stage' = [t \in tasks' |-> "planned"]
        /\ fate' = [t \in tasks' |-> Unset]
        /\ return_code' = [t \in tasks' |-> Unset]
    BY DEF Plan, IInv, HandOver, Ended
  <1>2. \A f \in DOMAIN content' : content'[f] \subseteq tasks'
    BY DEF Plan
  <1>3. TypeOK'
    BY <1>1, <1>2 DEF TypeOK
  <1>4. InStage("finished")' = {}
    BY <1>1 DEF InStage
  <1>5. HandOver' /\ Ended' /\ ResultTyped'
    BY <1>1, <1>4 DEF HandOver, Ended, ResultTyped, NoRepeats, InSeq
  <1>6. QED
    BY <1>3, <1>5 DEF IInv

\* A step that only moves one task towards the "running" stage.
LEMMA AdvanceIInv ==
  ASSUME IInv, NEW t \in tasks, NEW s \in {"queued", "running"},
         t \notin InStage("finished"),
         stage' = [stage EXCEPT ![t] = s],
         fate' \in [tasks -> Codes \cup {Unset, Hang, SpawnError}],
         \A f \in DOMAIN content' : content'[f] \subseteq tasks,
         UNCHANGED << tasks, phase, return_code, finished, events, failed, exit_code >>
  PROVE  IInv'
  <1>1. InStage("finished")' = InStage("finished")
    BY DEF IInv, TypeOK, InStage
  <1>2. TypeOK'
    BY DEF IInv, TypeOK
  <1>3. HandOver'
    BY <1>1 DEF IInv, HandOver, NoRepeats, InSeq
  <1>4. Ended'
    BY <1>1 DEF IInv, Ended, IsFirstFailureCode
  <1>5. ResultTyped'
    BY <1>1 DEF IInv, ResultTyped
  <1>6. QED
    BY <1>2, <1>3, <1>4, <1>5 DEF IInv

LEMMA SubmitIInv ==
  ASSUME IInv, NEW t \in tasks, Submit(t)
  PROVE  IInv'
  <1>1. t \notin InStage("finished")
    BY DEF Submit, Oldest, InStage
  <1>2. \A f \in DOMAIN content' : content'[f] \subseteq tasks
    BY DEF Submit, IInv, TypeOK
  <1>3. fate' \in [tasks -> Codes \cup {Unset, Hang, SpawnError}]
    BY DEF Submit, IInv, TypeOK
  <1>4. QED
    BY <1>1, <1>2, <1>3, AdvanceIInv DEF Submit

LEMMA StartRunIInv ==
  ASSUME IInv, NEW t \in tasks, StartRun(t)
  PROVE  IInv'
  <1>1. t \notin InStage("finished")
    BY DEF StartRun, Oldest, InStage
  <1>2. \A f \in DOMAIN content' : content'[f] \subseteq tasks
    BY DEF StartRun, IInv, TypeOK
  <1>3. fate' \in [tasks -> Codes \cup {Unset, Hang, SpawnError}]
    BY DEF StartRun, IInv, TypeOK
  <1>4. QED
    BY <1>1, <1>2, <1>3, AdvanceIInv DEF StartRun

LEMMA RunEndsIInv ==
  ASSUME IInv, NEW t \in tasks, RunEnds(t)
  PROVE  IInv'
  <1>1. PICK code \in Codes \cup {TimedOut} : SetResult(t, code)
    BY DEF RunEnds, RunReturns, RunTimesOut, RunRaises
  <1>2. stage[t] = "running"
    BY DEF RunEnds, RunReturns, RunTimesOut, RunRaises, InStage
  <1>3. InStage("finished")' = InStage("finished") \cup {t}
    BY <1>1, <1>2 DEF IInv, TypeOK, SetResult, InStage
  <1>4. t \notin InStage("finished") /\ phase \notin {"start", "exit"}
    BY <1>2 DEF InStage, IInv, Ended
  <1>5. ~ InSeq(t, events) /\ ~ InSeq(t, failed) /\ t \notin finished
    BY <1>4 DEF IInv, HandOver
  <1>6. /\ events \in Seq(tasks) /\ failed \in Seq(tasks)
        /\ UNCHANGED << tasks, phase, fate, finished, failed, exit_code >>
    BY <1>1 DEF SetResult, IInv, TypeOK
  <1>7. /\ events' \in Seq(tasks) /\ NoRepeats(events')
        /\ \A x : InSeq(x, events') <=>
                    InSeq(x, events) \/ (phase = "collect" /\ x = t)
    <2>1. CASE phase = "collect"
      BY <1>1, <1>5, <1>6, <2>1, AppendFacts DEF SetResult, IInv, HandOver
    <2>2. CASE phase # "collect"
      BY <1>1, <1>6, <2>2 DEF SetResult, IInv, HandOver
    <2>3. QED
      BY <2>1, <2>2
  <1>8. /\ return_code' \in [tasks -> Codes \cup {Unset, TimedOut}]
        /\ return_code'[t] \in Codes \cup {TimedOut}
        /\ \A u \in tasks \ {t} : return_code'[u] = return_code[u]
    BY <1>1 DEF SetResult, IInv, TypeOK
  <1>9. TypeOK'
    <2>1. stage' \in [tasks -> {"planned", "queued", "running", "finished"}]
      BY <1>1 DEF SetResult, IInv, TypeOK
    <2>2. \A f \in DOMAIN content' : content'[f] \subseteq tasks
      BY <1>1 DEF SetResult, IInv, TypeOK
    <2>3. QED
      BY <1>3, <1>6, <1>7, <1>8, <2>1, <2>2 DEF IInv, TypeOK
  <1>10. HandOver'
    <2>1. \A u \in tasks : InSeq(u, failed) => u # t
      BY <1>5
    <2>2. phase = "submit" => events' = << >>
      BY <1>1 DEF SetResult, IInv, HandOver
    <2>3. NoRepeats(failed') /\ \A u : InSeq(u, failed') <=> InSeq(u, failed)
      BY <1>6 DEF IInv, HandOver
    <2>4. QED
      BY <1>3, <1>4, <1>5, <1>6, <1>7, <1>8, <2>1, <2>2, <2>3
         DEF IInv, TypeOK, HandOver, InStage
  <1>11. Ended'
    BY <1>4, <1>6 DEF IInv, TypeOK, Ended
  <1>12. ResultTyped'
    BY <1>3, <1>6, <1>8 DEF IInv, ResultTyped, InStage
  <1>13. QED
    BY <1>9, <1>10, <1>11, <1>12 DEF IInv

LEMMA CallAsCompletedIInv ==
  ASSUME IInv, CallAsCompleted
  PROVE  IInv'
  <1>1. /\ finished' = InStage("finished") /\ phase = "submit" /\ phase' = "collect"
        /\ events' = << >> /\ failed' = << >>
        /\ UNCHANGED << tasks, stage, fate, return_code, content, exit_code >>
    BY DEF CallAsCompleted, pool, IInv, HandOver
  <1>2. InStage("finished")' = InStage("finished") /\ InStage("finished") \subseteq tasks
    BY <1>1 DEF InStage
  <1>3. TypeOK'
    BY <1>1, <1>2 DEF IInv, TypeOK
  <1>4. HandOver'
    BY <1>1, <1>2 DEF HandOver, NoRepeats, InSeq
  <1>5. Ended' /\ ResultTyped'
    BY <1>1, <1>2 DEF IInv, Ended, ResultTyped
  <1>6. QED
    BY <1>3, <1>4, <1>5 DEF IInv

\* Recording a future that as_completed has just given up.
LEMMA RecordIInv ==
  ASSUME IInv, NEW t \in tasks, Record(t),
         t \in InStage("finished"), ~ InSeq(t, failed),
         finished' \subseteq finished, t \notin finished',
         events' \in Seq(tasks), NoRepeats(events'), ~ InSeq(t, events'),
         \A u \in tasks \ {t} : /\ u \in finished' <=> u \in finished
                                /\ InSeq(u, events') <=> InSeq(u, events)
  PROVE  IInv'
  <1>1. /\ phase = "collect"
        /\ UNCHANGED << phase, tasks, stage, fate, return_code, content, exit_code >>
    BY DEF Record, pool
  <1>2. InStage("finished")' = InStage("finished") /\ InStage("finished") \subseteq tasks
    BY <1>1 DEF InStage
  <1>3. /\ failed' \in Seq(tasks) /\ NoRepeats(failed')
        /\ \A u : InSeq(u, failed') <=> InSeq(u, failed) \/ (u = t /\ return_code[t] # 0)
    <2>1. CASE return_code[t] # 0
      BY <2>1, AppendFacts DEF Record, IInv, HandOver, TypeOK
    <2>2. CASE ~ (return_code[t] # 0)
      BY <2>2 DEF Record, IInv, HandOver, TypeOK
    <2>3. QED
      BY <2>1, <2>2
  <1>4. TypeOK'
    BY <1>1, <1>3 DEF IInv, TypeOK
  <1>5. HandOver'
    BY <1>1, <1>2, <1>3 DEF IInv, HandOver
  <1>6. Ended' /\ ResultTyped'
    BY <1>1, <1>2 DEF IInv, Ended, ResultTyped
  <1>7. QED
    BY <1>4, <1>5, <1>6 DEF IInv

LEMMA CollectEarlyIInv ==
  ASSUME IInv, NEW t \in tasks, CollectEarly(t)
  PROVE  IInv'
  <1>1. /\ t \in finished /\ finished' = finished \ {t} /\ events' = events
        /\ Record(t)
    BY DEF CollectEarly
  <1>2. t \in InStage("finished") /\ ~ InSeq(t, failed) /\ ~ InSeq(t, events)
    BY <1>1 DEF IInv, HandOver
  <1>3. QED
    BY <1>1, <1>2, RecordIInv DEF IInv, TypeOK, HandOver

LEMMA CollectNextIInv ==
  ASSUME IInv, CollectNext
  PROVE  IInv'
  <1> DEFINE t == Head(events)
  <1>1. /\ events # << >> /\ finished' = finished /\ events' = Tail(events)
        /\ Record(t)
    BY DEF CollectNext
  <1>2. /\ t \in tasks /\ InSeq(t, events)
        /\ events' \in Seq(tasks) /\ NoRepeats(events') /\ ~ InSeq(t, events')
        /\ \A u : InSeq(u, events) <=> u = t \/ InSeq(u, events')
    BY <1>1, TailFacts DEF IInv, TypeOK, HandOver
  <1>3. t \in InStage("finished") /\ t \notin finished /\ ~ InSeq(t, failed)
    BY <1>2 DEF IInv, HandOver
  <1> HIDE DEF t
  <1>4. QED
    BY <1>1, <1>2, <1>3, RecordIInv

LEMMA ReportIInv ==
  ASSUME IInv, Report
  PROVE  IInv'
  <1>1. /\ phase = "collect" /\ phase' = "exit"
        /\ InStage("finished") = tasks /\ finished = {} /\ events = << >>
        /\ UNCHANGED << tasks, stage, fate, return_code, content, finished, events,
                        failed >>
    BY DEF Report, Exit, pool
  <1>2. InStage("finished")' = InStage("finished")
    BY <1>1 DEF InStage
  <1>3. /\ failed = << >> => exit_code' = 0
        /\ failed # << >> => /\ exit_code' \in Codes \cup {1}
                             /\ IsFirstFailureCode(exit_code')
    <2>1. \A i \in 1..Len(failed) : failed[i] \in InStage("finished")
      BY DEF IInv, TypeOK, HandOver, InSeq
    <2>2. \A c : IsFirstFailureCode(c) => c \in Codes \cup {1}
      BY <2>1 DEF IsFirstFailureCode, IInv, ResultTyped
    <2>3. QED
      BY <2>2 DEF Report, Exit
  <1>4. ASSUME failed # << >> PROVE exit_code' # 0
    <2>1. \A i \in 1..Len(failed) : failed[i] \in tasks /\ InSeq(failed[i], failed)
      BY DEF IInv, TypeOK, InSeq
    <2>2. \A i \in 1..Len(failed) : return_code[failed[i]] # 0
      BY <2>1 DEF IInv, HandOver
    <2>3. QED
      BY <1>3, <1>4, <2>2 DEF IsFirstFailureCode
  <1>5. TypeOK'
    BY <1>1, <1>3 DEF IInv, TypeOK
  <1>6. HandOver'
    BY <1>1, <1>2 DEF IInv, HandOver
  <1>7. Ended'
    BY <1>1, <1>2, <1>3, <1>4 DEF Ended, IsFirstFailureCode
  <1>8. ResultTyped'
    BY <1>1, <1>2 DEF IInv, ResultTyped
  <1>9. QED
    BY <1>5, <1>6, <1>7, <1>8 DEF IInv

LEMMA StutterIInv == IInv /\ UNCHANGED vars => IInv'
  BY DEF IInv, TypeOK, HandOver, Ended, ResultTyped, InStage, NoRepeats, InSeq,
         IsFirstFailureCode, vars, env, pool

LEMMA NextIInv == IInv /\ [Next]_vars => IInv'
  <1> SUFFICES ASSUME IInv, [Next]_vars PROVE IInv'
    OBVIOUS
  <1>1. CASE NothingToRun       BY <1>1, NothingToRunIInv
  <1>2. CASE Plan               BY <1>2, PlanIInv
  <1>3. CASE CallAsCompleted    BY <1>3, CallAsCompletedIInv
  <1>4. CASE CollectNext        BY <1>4, CollectNextIInv
  <1>5. CASE Report             BY <1>5, ReportIInv
  <1>6. CASE UNCHANGED vars     BY <1>6, StutterIInv
  <1>7. CASE \E t \in tasks : Submit(t)        BY <1>7, SubmitIInv
  <1>8. CASE \E t \in tasks : CollectEarly(t)  BY <1>8, CollectEarlyIInv
  <1>9. CASE \E t \in tasks : StartRun(t)      BY <1>9, StartRunIInv
  <1>10. CASE \E t \in tasks : RunEnds(t)      BY <1>10, RunEndsIInv
  <1>11. QED
    BY <1>1, <1>2, <1>3, <1>4, <1>5, <1>6, <1>7, <1>8, <1>9, <1>10
       DEF Next, MainStep

\* The inductive invariant holds throughout every execution of the script.
THEOREM Invariance == Safety => []IInv
  <1>1. QED
    BY InitIInv, NextIInv, PTL DEF Safety

-------------------------------------------------------------------------------
\* Types of main's and the pool's state (run_tests.py, main).
THEOREM TypeCorrect == Safety => []TypeOK
  <1>1. IInv => TypeOK
    BY DEF IInv
  <1>2. QED
    BY Invariance, <1>1, PTL

\* as_completed neither loses a run nor yields it twice, so the list of failed
\* runs is exact when the script ends, for any number of runs and workers.
THEOREM CountedOnce == Safety => []EveryRunCountedOnce
  <1>1. IInv => EveryRunCountedOnce
    <2> SUFFICES ASSUME IInv PROVE EveryRunCountedOnce
      OBVIOUS
    <2>1. NoRepeats(failed)
      BY DEF IInv, HandOver
    <2>2. ASSUME phase = "exit", NEW t \in tasks
          PROVE  stage[t] = "finished" /\ (return_code[t] # 0 <=> InSeq(t, failed))
      <3>1. /\ InStage("finished") = tasks /\ finished = {} /\ events = << >>
        BY <2>2 DEF IInv, Ended
      <3>2. ~ InSeq(t, events)
        BY <3>1 DEF InSeq
      <3>3. QED
        BY <2>2, <3>1, <3>2 DEF IInv, HandOver, InStage
    <2>3. QED
      BY <2>1, <2>2 DEF EveryRunCountedOnce
  <1>2. QED
    BY Invariance, <1>1, PTL

\* The exit status is 0 exactly when every run returned 0, and otherwise comes
\* from a failed run or is 1, for every set of 8-bit or signal return codes.
THEOREM ExitStatusCorrect == Safety => []ExitReflectsRuns
  <1>1. IInv => ExitReflectsRuns
    <2> SUFFICES ASSUME IInv, phase = "exit", tasks # {}
                 PROVE  /\ ExitStatus = 0 <=> \A t \in tasks : return_code[t] = 0
                        /\ exit_code \notin {0, 1} =>
                             \E t \in tasks : return_code[t] = exit_code
      BY DEF ExitReflectsRuns
    <2>1. /\ InStage("finished") = tasks
          /\ failed = << >> => exit_code = 0
          /\ failed # << >> => exit_code # 0 /\ IsFirstFailureCode(exit_code)
      BY DEF IInv, Ended
    <2>2. \A t \in tasks : return_code[t] # 0 <=> InSeq(t, failed)
      <3>1. finished = {} /\ events = << >>
        BY DEF IInv, Ended
      <3>2. \A t \in tasks : ~ InSeq(t, events)
        BY <3>1 DEF InSeq
      <3>3. QED
        BY <2>1, <3>1, <3>2 DEF IInv, HandOver
    <2>3. \A i \in 1..Len(failed) : failed[i] \in tasks /\ InSeq(failed[i], failed)
      BY DEF IInv, TypeOK, InSeq
    <2>4. failed = << >> <=> \A t \in tasks : return_code[t] = 0
      <3>1. failed # << >> => 1 \in 1..Len(failed)
        BY EmptySeq DEF IInv, TypeOK
      <3>2. failed = << >> => \A t \in tasks : ~ InSeq(t, failed)
        BY DEF InSeq
      <3>3. QED
        BY <2>2, <2>3, <3>1, <3>2
    <2>5. exit_code \in Codes \cup {0, 1}
      <3>1. CASE failed = << >>
        BY <2>1, <3>1
      <3>2. CASE failed # << >>
        BY <2>1, <2>3, <3>2 DEF IsFirstFailureCode, IInv, ResultTyped, TimedOut
      <3>3. QED
        BY <3>1, <3>2
    <2>6. exit_code % 256 = 0 <=> exit_code = 0
      BY <2>5, RunnerAssumption
    <2>7. exit_code \notin {0, 1} => \E t \in tasks : return_code[t] = exit_code
      BY <2>1, <2>3 DEF IsFirstFailureCode
    <2>8. QED
      BY <2>1, <2>4, <2>6, <2>7 DEF ExitStatus
  <1>2. QED
    BY Invariance, <1>1, PTL

-------------------------------------------------------------------------------
(* The result files.  Planning numbers the runs of an executable, so that     *)
(* two runs share a file only if their executables share a name; from then    *)
(* on a file is emptied and filled by its own run.                            *)

\* The shape of the plan: a run is its executable and its number, and an
\* executable has finitely many.
PlanInv ==
  /\ \A t, u \in tasks : t[1] = u[1] /\ t[2] = u[2] => t = u
  /\ \A t \in tasks : IsFiniteSet({ u \in tasks : u[1] = t[1] })
  /\ \A t \in tasks : FileOf(t) \in DOMAIN content

OwnOutput ==
  \A t \in tasks :
    NameToItself(t) /\ stage[t] \in {"running", "finished"}
      => content[FileOf(t)] = {t}

FilesInv == PlanInv /\ OwnOutput

RunInv == IInv /\ FilesInv /\ config \in Configs

\* The number of argument sets of a well-formed entry.
LEMMA ArgSetsType ==
  ASSUME NEW entry \in Entry
  PROVE  ArgSets(entry) \in Nat
  <1>1. CASE entry.args # "list" /\ UsableRuns(entry) # {}
    <2>1. Len(entry.runs) \in Nat
      BY LenProperties DEF Entry
    <2>2. IsFiniteSet(1..Len(entry.runs))
      BY <2>1, FS_Interval
    <2>3. UsableRuns(entry) \in SUBSET (1..Len(entry.runs))
      BY DEF UsableRuns
    <2>4. Cardinality(UsableRuns(entry)) \in Nat
      BY <2>2, <2>3, FS_Subset, FS_CardinalityType
    <2>5. QED
      BY <1>1, <2>4 DEF ArgSets
  <1>2. CASE ~ (entry.args # "list" /\ UsableRuns(entry) # {})
    BY <1>2 DEF ArgSets
  <1>3. QED
    BY <1>1, <1>2

\* A planned task is one of the numbered runs of its executable.
LEMMA PlannedShape ==
  ASSUME config \in Configs, NEW arch, NEW ppus,
         NEW t \in PlannedTasks(executables, config, arch, ppus)
  PROVE  \E n \in Nat :
           /\ t \in {t[1]} \X (1..n)
           /\ \A u \in PlannedTasks(executables, config, arch, ppus) :
                u[1] = t[1] => u \in {t[1]} \X (1..n)
  <1> DEFINE runs(k) == ArgSets(EntryOf(config, executables[k]))
  <1>1. \A u \in PlannedTasks(executables, config, arch, ppus) :
          \E k : u \in {k} \X (1..runs(k))
    BY DEF PlannedTasks
  <1>2. \A k : runs(k) \in Nat
    <2>1. TAKE k
    <2>2. EntryOf(config, executables[k]) \in Entry
      <3>1. Unlisted \in Entry
        <4>1. << >> \in Seq(RunKind)
          OBVIOUS
        <4>2. QED
          BY <4>1 DEF Unlisted, Entry
      <3>2. QED
        BY <3>1, RunnerAssumption DEF EntryOf
    <2>3. QED
      BY <2>2, ArgSetsType
  <1> HIDE DEF runs
  <1>3. \A u \in PlannedTasks(executables, config, arch, ppus) :
          u \in {u[1]} \X (1..runs(u[1]))
    BY <1>1
  <1>4. QED
    BY <1>2, <1>3

\* Two runs share a file only if their executables share a name.
LEMMA FilesApart ==
  ASSUME PlanInv, NEW t \in tasks, NEW u \in tasks, NameToItself(t), u # t
  PROVE  FileOf(u) # FileOf(t)
  <1> DEFINE S == { v \in tasks : v[1] = t[1] }
  <1>1. CASE u[1] # t[1]
    <2>1. FileName[executables[t[1]]] # FileName[executables[u[1]]]
      BY <1>1 DEF NameToItself, SameName
    <2>2. QED
      BY <2>1 DEF FileOf, FileIn, OutputFile
  <1>2. CASE u[1] = t[1]
    <2>1. u[2] # t[2]
      BY <1>2 DEF PlanInv
    <2>2. IsFiniteSet(S) /\ u \in S /\ t \in S
      BY <1>2 DEF PlanInv
    <2>3. Cardinality(S) > 1
      <3>1. Cardinality(S) \in Nat
        BY <2>2, FS_CardinalityType
      <3>2. Cardinality(S) # 0
        BY <2>2, FS_EmptySet
      <3>3. Cardinality(S) # 1
        BY <2>2, FS_Singleton
      <3>4. QED
        BY <3>1, <3>2, <3>3
    <2>4. { v \in tasks : v[1] = u[1] } = S
      BY <1>2
    <2> HIDE DEF S
    <2>5. /\ FileOf(t) = << FileName[executables[t[1]]], t[2] >>
          /\ FileOf(u) = << FileName[executables[u[1]]], u[2] >>
      BY <2>3, <2>4 DEF FileOf, FileIn, OutputFile, S
    <2>6. QED
      BY <2>1, <2>5
  <1>3. QED
    BY <1>1, <1>2

LEMMA PlanFilesInv ==
  ASSUME Plan, config \in Configs
  PROVE  FilesInv'
  <1>1. /\ tasks' = PlannedTasks(executables, config, ppu_arch, ppu_count)
        /\ stage' = [t \in tasks' |-> "planned"]
        /\ content' = [f \in { FileIn(tasks', t) : t \in tasks' } |-> {}]
        /\ executables' = executables
    BY DEF Plan, env
  <1>2. \A t \in tasks' : \E n \in Nat :
          /\ t \in {t[1]} \X (1..n)
          /\ \A u \in tasks' : u[1] = t[1] => u \in {t[1]} \X (1..n)
    BY <1>1, PlannedShape
  <1>3. \A t, u \in tasks' : t[1] = u[1] /\ t[2] = u[2] => t = u
    BY <1>2
  <1>4. ASSUME NEW t \in tasks'
        PROVE  IsFiniteSet({ u \in tasks' : u[1] = t[1] })
    <2>1. PICK n \in Nat : \A u \in tasks' : u[1] = t[1] => u \in {t[1]} \X (1..n)
      BY <1>2
    <2>2. IsFiniteSet(1..n)
      BY FS_Interval
    <2>3. IsFiniteSet({t[1]} \X (1..n))
      <3>1. IsFiniteSet({t[1]})
        BY FS_Singleton
      <3>2. QED
        BY <2>2, <3>1, FS_Product
    <2>4. { u \in tasks' : u[1] = t[1] } \in SUBSET ({t[1]} \X (1..n))
      BY <2>1
    <2>5. QED
      BY <2>3, <2>4, FS_Subset
  <1>5. ASSUME NEW t \in tasks' PROVE FileOf(t)' \in DOMAIN content'
    BY <1>1 DEF FileOf, FileIn
  <1>6. PlanInv'
    BY <1>3, <1>4, <1>5 DEF PlanInv
  <1>7. OwnOutput'
    BY <1>1 DEF OwnOutput
  <1>8. QED
    BY <1>6, <1>7 DEF FilesInv

\* A step after planning, which stores into the file of one task at most: it
\* leaves that file with its run's output only, or brings no run to its start.
LEMMA StepFilesInv ==
  ASSUME FilesInv, UNCHANGED << tasks, executables >>,
         DOMAIN content' = DOMAIN content, NEW t \in tasks,
         \A f \in DOMAIN content : f # FileOf(t) => content'[f] = content[f],
         \A u \in tasks \ {t} : stage'[u] = stage[u],
         NameToItself(t) /\ stage'[t] \in {"running", "finished"}
           => content'[FileOf(t)] = {t}
  PROVE  FilesInv'
  <1>1. \A u \in tasks : FileOf(u)' = FileOf(u) /\ (NameToItself(u)' <=> NameToItself(u))
    BY DEF FileOf, FileIn, NameToItself, SameName
  <1>2. PlanInv'
    BY <1>1 DEF FilesInv, PlanInv
  <1>3. ASSUME NEW u \in tasks, NameToItself(u), stage'[u] \in {"running", "finished"}
        PROVE  content'[FileOf(u)] = {u}
    <2>1. CASE u = t
      BY <1>3, <2>1
    <2>2. CASE u # t
      <3>1. FileOf(u) # FileOf(t)
        BY <1>3, <2>2, FilesApart DEF FilesInv
      <3>2. content'[FileOf(u)] = content[FileOf(u)]
        BY <3>1 DEF FilesInv, PlanInv
      <3>3. QED
        BY <1>3, <2>2, <3>2 DEF FilesInv, OwnOutput
    <2>3. QED
      BY <2>1, <2>2
  <1>4. OwnOutput'
    BY <1>1, <1>3 DEF OwnOutput
  <1>5. QED
    BY <1>2, <1>4 DEF FilesInv

\* A step that touches neither the files nor the stages.
LEMMA FrameFilesInv ==
  ASSUME FilesInv, UNCHANGED << tasks, executables, stage, content >>
  PROVE  FilesInv'
  BY DEF FilesInv, PlanInv, OwnOutput, FileOf, FileIn, NameToItself, SameName

LEMMA TaskFilesInv ==
  ASSUME IInv, FilesInv, NEW t \in tasks, Submit(t) \/ StartRun(t) \/ RunEnds(t)
  PROVE  FilesInv'
  <1>1. /\ UNCHANGED << tasks, executables >>
        /\ FileOf(t) \in DOMAIN content
        /\ stage \in [tasks -> {"planned", "queued", "running", "finished"}]
    BY DEF Submit, StartRun, RunEnds, RunReturns, RunTimesOut, RunRaises, SetResult,
           env, FilesInv, PlanInv, IInv, TypeOK
  <1>2. CASE Submit(t)
    <2>1. content' = content /\ stage' = [stage EXCEPT ![t] = "queued"]
      BY <1>2 DEF Submit
    <2>2. QED
      BY <1>1, <2>1, StepFilesInv
  <1>3. CASE StartRun(t)
    <2>1. /\ content' = [content EXCEPT ![FileOf(t)] = {t}]
          /\ stage' = [stage EXCEPT ![t] = "running"]
      BY <1>3 DEF StartRun
    <2>2. QED
      BY <1>1, <2>1, StepFilesInv
  <1>4. CASE RunEnds(t)
    <2>1. PICK code : SetResult(t, code)
      BY <1>4 DEF RunEnds, RunReturns, RunTimesOut, RunRaises
    <2>2. stage[t] = "running"
      BY <1>4 DEF RunEnds, RunReturns, RunTimesOut, RunRaises, InStage
    <2>3. /\ content' = [content EXCEPT ![FileOf(t)] = @ \cup {t}]
          /\ stage' = [stage EXCEPT ![t] = "finished"]
      BY <2>1 DEF SetResult
    <2>4. NameToItself(t) => content[FileOf(t)] = {t}
      BY <2>2 DEF FilesInv, OwnOutput
    <2>5. QED
      BY <1>1, <2>3, <2>4, StepFilesInv
  <1>5. QED
    BY <1>2, <1>3, <1>4

LEMMA ConfigFixed ==
  ASSUME [Next]_vars
  PROVE  config' = config
  <1>1. CASE MainStep
    BY <1>1 DEF MainStep, NothingToRun, Plan, CallAsCompleted, CollectNext, Report,
                Submit, CollectEarly, Record, env
  <1>2. CASE \E t \in tasks : StartRun(t) \/ RunEnds(t)
    BY <1>2 DEF StartRun, RunEnds, RunReturns, RunTimesOut, RunRaises, SetResult, env
  <1>3. CASE UNCHANGED vars
    BY <1>3 DEF vars, env
  <1>4. QED
    BY <1>1, <1>2, <1>3 DEF Next

LEMMA NextRunInv == RunInv /\ [Next]_vars => RunInv'
  <1> SUFFICES ASSUME IInv, FilesInv, config \in Configs, [Next]_vars
               PROVE  FilesInv' /\ config' \in Configs
    BY NextIInv DEF RunInv
  <1>1. FilesInv'
    <2>1. CASE Plan
      BY <2>1, PlanFilesInv
    <2>2. ASSUME NEW t \in tasks, Submit(t) \/ StartRun(t) \/ RunEnds(t)
          PROVE  FilesInv'
      BY <2>2, TaskFilesInv
    <2>3. CASE NothingToRun
      BY <2>3, FrameFilesInv DEF NothingToRun, env, pool
    <2>4. CASE CallAsCompleted \/ Report
      BY <2>4, FrameFilesInv DEF CallAsCompleted, Report, env, pool
    <2>5. CASE CollectNext \/ \E t \in tasks : CollectEarly(t)
      BY <2>5, FrameFilesInv DEF CollectNext, CollectEarly, Record, env, pool
    <2>6. CASE UNCHANGED vars
      BY <2>6, FrameFilesInv DEF env, pool, vars
    <2>7. QED
      BY <2>1, <2>2, <2>3, <2>4, <2>5, <2>6 DEF Next, MainStep
  <1>2. QED
    BY <1>1, ConfigFixed

\* A result file holds the output of its own run and nothing else unless two
\* executables have one name, for any configuration, number of runs and workers
\* (run_tests.py:329, the name of the result file).
THEOREM OutputsKept == Safety => []OutputsSeparate
  <1>1. Init => RunInv
    BY InitIInv DEF Init, RunInv, FilesInv, PlanInv, OwnOutput
  <1>2. RunInv => OutputsSeparate
    <2> SUFFICES ASSUME IInv, FilesInv, phase = "exit", NEW t \in tasks, NameToItself(t)
                 PROVE  content[FileOf(t)] = {t}
      BY DEF OutputsSeparate, RunInv
    <2>1. stage[t] = "finished"
      BY DEF IInv, Ended, InStage
    <2>2. QED
      BY <2>1 DEF FilesInv, OwnOutput
  <1>3. QED
    BY <1>1, <1>2, NextRunInv, PTL DEF Safety
===============================================================================
