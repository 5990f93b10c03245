------------------------------ MODULE TestRunner ------------------------------
(***************************************************************************)
(* run_tests.py: main plans the runs, submits them to a ThreadPoolExecutor *)
(* of Parallel workers and collects the results in the order as_completed  *)
(* yields them; a worker runs one sample as a child process with a time    *)
(* limit and its output redirected to a result file.                       *)
(*                                                                         *)
(* External parts, modelled from their use: the executor's queue is FIFO;  *)
(* as_completed first yields, in any order, the futures that were finished *)
(* when it was called and then the others in the order they finish.        *)
(***************************************************************************)
EXTENDS Integers, Sequences, FiniteSets

CONSTANTS
  Exe,        \* executables
  BaseName,   \* [Exe -> names]: the stem that keys test_args.json
  FileName,   \* [Exe -> names]: the file name, which names the result file
  Arch,       \* architectures ppu-smi may report
  NoArch,     \* the architecture could not be determined
  Found,      \* lists of executables find_executables may return
  Configs,    \* contents of test_args.json
  PPUs,       \* answers of get_ppu_count
  Parallel,   \* --parallel
  Codes,      \* return codes of samples that end by themselves
  Hang,       \* fate of a child that never ends by itself
  SpawnError, \* fate of a run whose open or Popen raises
  Unset       \* no value yet

ASSUME PlanAssumption == NoArch \notin Arch

-------------------------------------------------------------------------------
(* The plan: which executables run, with which arguments, into which file. *)
(* An entry of test_args.json keeps only what planning branches on:        *)
(* whether "args" is a list or not, and for every member of "runs" whether *)
(* it is usable, marked "skip", or has arguments that are not a list.      *)

RunKind == {"list", "skip", "notalist"}

Entry == [skip : BOOLEAN, skip_arch : SUBSET Arch, min_ppus : Nat,
          args : {"absent", "list", "notalist"}, runs : Seq(RunKind)]

\* What args_config.get(base_name, {}) amounts to for an unlisted executable.
Unlisted == [skip |-> FALSE, skip_arch |-> {}, min_ppus |-> 1,
             args |-> "absent", runs |-> << >>]

EntryOf(config, e) ==
  IF BaseName[e] \in DOMAIN config THEN config[BaseName[e]] ELSE Unlisted

Selected(entry, arch, ppus) ==
  /\ ~ entry.skip
  /\ arch = NoArch \/ arch \notin entry.skip_arch
  /\ entry.min_ppus <= ppus

\* The members of "runs" that become runs; "args", list or not, hides "runs".
UsableRuns(entry) ==
  IF entry.args = "absent"
  THEN { i \in 1..Len(entry.runs) : entry.runs[i] = "list" }
  ELSE {}

\* len(arg_sets_configs): the list "args" is one set of arguments, and without
\* a usable one there is one run without arguments.
ArgSets(entry) ==
  IF entry.args # "list" /\ UsableRuns(entry) # {}
  THEN Cardinality(UsableRuns(entry))
  ELSE 1

\* A task is <<k, i>>: run i of the k-th executable.
PlannedTasks(executables, config, arch, ppus) ==
  LET entry(k) == EntryOf(config, executables[k])
      kept     == { k \in 1..Len(executables) : Selected(entry(k), arch, ppus) }
  IN  UNION { {k} \X (1..ArgSets(entry(k))) : k \in kept }

\* The order of the list "tasks", in which the runs are submitted.
Before(t, u) == t[1] < u[1] \/ (t[1] = u[1] /\ t[2] < u[2])

\* A result file per executable, whatever its number of runs.
OutputFilePerExecutable(executables, num_runs, t) ==
  << FileName[executables[t[1]]], 0 >>

\* APM_<exe>.txt if the executable has one run, APM_<exe>.run<i>.txt if more.
OutputFile(executables, num_runs, t) ==
  << FileName[executables[t[1]]], IF num_runs > 1 THEN t[2] ELSE 0 >>

-------------------------------------------------------------------------------
(* The run.                                                                *)

\* ThreadPoolExecutor refuses max_workers < 1.  A child's return code is 0..255,
\* or -s when signal s killed it.
ASSUME RunnerAssumption ==
  /\ \A c \in Configs : \A n \in DOMAIN c : c[n] \in Entry
  /\ Parallel \in Nat \ {0}
  /\ Codes \subseteq (-64)..255
  /\ PPUs \subseteq Nat
  /\ Hang \notin Int /\ SpawnError \notin Int /\ Unset \notin Int
  /\ Hang # SpawnError

VARIABLES
  executables, config, ppu_count, ppu_arch,  \* the environment of main
  phase,        \* where main is
  tasks,        \* the planned runs
  stage,        \* of each task: planned, queued, running, finished
  fate,         \* how the child of a running task will behave
  return_code,  \* in the result of a finished task
  finished,     \* as_completed: finished before it was called, not yet yielded
  events,       \* as_completed: finished since, not yet yielded
  failed,       \* main's list of failed runs
  content,      \* of each result file: the tasks whose output is in it
  exit_code

env  == << executables, config, ppu_count, ppu_arch >>
pool == << stage, fate, return_code, content >>
vars == << env, phase, tasks, pool, finished, events, failed, exit_code >>

TimedOut == -1  \* the return code recorded for a timeout and an exception

Init ==
  /\ executables \in Found
  /\ config \in Configs
  /\ ppu_count \in PPUs
  /\ ppu_arch \in Arch \cup {NoArch}
  /\ phase = "start"
  /\ tasks = {} /\ finished = {}
  /\ stage = << >> /\ fate = << >> /\ return_code = << >> /\ content = << >>
  /\ events = << >> /\ failed = << >>
  /\ exit_code = Unset

-------------------------------------------------------------------------------
(* main, the planning part, up to the creation of the executor.            *)

Exit(code) == phase' = "exit" /\ exit_code' = code

NothingToRun ==
  /\ phase = "start"
  /\ \/ (ppu_count = 0 \/ executables = << >>) /\ Exit(1)
     \/ /\ ppu_count # 0 /\ executables # << >>
        /\ PlannedTasks(executables, config, ppu_arch, ppu_count) = {}
        /\ Exit(0)
  /\ UNCHANGED << env, tasks, pool, finished, events, failed >>

FileIn(planned, t) ==
  OutputFile(executables, Cardinality({ u \in planned : u[1] = t[1] }), t)

FileOf(t) == FileIn(tasks, t)

Plan ==
  /\ phase = "start" /\ ppu_count # 0 /\ executables # << >>
  /\ tasks' = PlannedTasks(executables, config, ppu_arch, ppu_count)
  /\ tasks' # {}
  /\ stage' = [t \in tasks' |-> "planned"]
  /\ fate' = [t \in tasks' |-> Unset]
  /\ return_code' = [t \in tasks' |-> Unset]
  /\ content' = [f \in { FileIn(tasks', t) : t \in tasks' } |-> {}]
  /\ phase' = "submit"
  /\ UNCHANGED << env, finished, events, failed, exit_code >>

InStage(s) == { t \in tasks : stage[t] = s }

Oldest(t, S) == t \in S /\ \A u \in S : u = t \/ Before(t, u)

\* executor.submit, in the order of the list of tasks.
Submit(t) ==
  /\ phase = "submit"
  /\ Oldest(t, InStage("planned"))
  /\ stage' = [stage EXCEPT ![t] = "queued"]
  /\ UNCHANGED << env, phase, tasks, fate, return_code, content, finished,
                  events, failed, exit_code >>

-------------------------------------------------------------------------------
(* run_single_test_instance on a worker of the pool.                       *)

\* A free worker takes the oldest task and opens its file, which truncates it.
StartRun(t) ==
  /\ Oldest(t, InStage("queued"))
  /\ Cardinality(InStage("running")) < Parallel
  /\ stage' = [stage EXCEPT ![t] = "running"]
  /\ fate' \in { [fate EXCEPT ![t] = d] : d \in Codes \cup {Hang, SpawnError} }
  /\ content' = [content EXCEPT ![FileOf(t)] = {t}]
  /\ UNCHANGED << env, phase, tasks, return_code, finished, events, failed,
                  exit_code >>

\* A waiter that listens before as_completed is called.
SetResultNotifyingAlways(t, code) ==
  /\ stage' = [stage EXCEPT ![t] = "finished"]
  /\ return_code' = [return_code EXCEPT ![t] = code]
  /\ content' = [content EXCEPT ![FileOf(t)] = @ \cup {t}]
  /\ events' = Append(events, t)
  /\ UNCHANGED << env, phase, tasks, fate, finished, failed, exit_code >>

\* The future gets its result and notifies as_completed if that is waiting.
SetResult(t, code) ==
  /\ stage' = [stage EXCEPT ![t] = "finished"]
  /\ return_code' = [return_code EXCEPT ![t] = code]
  /\ content' = [content EXCEPT ![FileOf(t)] = @ \cup {t}]
  /\ events' = IF phase = "collect" THEN Append(events, t) ELSE events
  /\ UNCHANGED << env, phase, tasks, fate, finished, failed, exit_code >>

RunReturns(t) ==
  /\ t \in InStage("running") /\ fate[t] \in Codes
  /\ SetResult(t, fate[t])

\* subprocess.run without its timeout.
RunWithoutTimeout(t) == FALSE

\* subprocess.TimeoutExpired: the child is killed after the time limit, the
\* hanging one and any one that is merely slow.
RunTimesOut(t) ==
  /\ t \in InStage("running") /\ fate[t] # SpawnError
  /\ SetResult(t, TimedOut)

RunRaises(t) ==
  /\ t \in InStage("running") /\ fate[t] = SpawnError
  /\ SetResult(t, TimedOut)

RunEnds(t) == RunReturns(t) \/ RunTimesOut(t) \/ RunRaises(t)

-------------------------------------------------------------------------------
(* main, the collecting part.                                              *)

\* as_completed takes the finished futures and registers with all the others.
CallAsCompleted ==
  /\ phase = "submit" /\ InStage("planned") = {}
  /\ finished' = InStage("finished")
  /\ phase' = "collect"
  /\ UNCHANGED << env, tasks, pool, events, failed, exit_code >>

\* "if result["return_code"] > 0": forgets samples killed by a signal.
RecordPositiveCodesOnly(t) ==
  /\ phase = "collect"
  /\ failed' = IF return_code[t] > 0 THEN Append(failed, t) ELSE failed
  /\ UNCHANGED << env, phase, tasks, pool, exit_code >>

\* The body of the loop for the future that as_completed yields.
Record(t) ==
  /\ phase = "collect"
  /\ failed' = IF return_code[t] # 0 THEN Append(failed, t) ELSE failed
  /\ UNCHANGED << env, phase, tasks, pool, exit_code >>

CollectEarly(t) ==
  /\ t \in finished
  /\ finished' = finished \ {t} /\ UNCHANGED events
  /\ Record(t)

CollectNext ==
  /\ finished = {} /\ events # << >>
  /\ events' = Tail(events) /\ UNCHANGED finished
  /\ Record(Head(events))

\* next(code for the failed runs), without the test for -1.
FirstOfAllCodes(c) == c = return_code[failed[1]]

\* next((code for the failed runs if code != -1), 1)
IsFirstFailureCode(c) ==
  LET counts(i) == return_code[failed[i]] # TimedOut
  IN  \/ c = 1 /\ \A i \in 1..Len(failed) : ~ counts(i)
      \/ \E i \in 1..Len(failed) : /\ counts(i)
                                   /\ \A j \in 1..(i - 1) : ~ counts(j)
                                   /\ c = return_code[failed[i]]

Report ==
  /\ phase = "collect" /\ InStage("finished") = tasks
  /\ finished = {} /\ events = << >>
  /\ \/ failed = << >> /\ Exit(0)
     \/ failed # << >> /\ \E c \in Codes \cup {1, TimedOut} :
                          IsFirstFailureCode(c) /\ Exit(c)
  /\ UNCHANGED << env, tasks, pool, finished, events, failed >>

\* What the shell sees of sys.exit(main()).
ExitStatus == exit_code % 256

-------------------------------------------------------------------------------
MainStep ==
  \/ NothingToRun \/ Plan \/ CallAsCompleted \/ CollectNext \/ Report
  \/ \E t \in tasks : Submit(t) \/ CollectEarly(t)

Next == MainStep \/ \E t \in tasks : StartRun(t) \/ RunEnds(t)

Safety == Init /\ [][Next]_vars

\* The interpreter and the pool's threads are scheduled, and a child ends or
\* is killed at its time limit.
Fairness ==
  /\ WF_vars(MainStep)
  /\ WF_vars(\E t \in tasks : StartRun(t))
  /\ WF_vars(\E t \in tasks : RunEnds(t))

Spec == Safety /\ Fairness
-------------------------------------------------------------------------------
TypeOK ==
  /\ phase \in {"start", "submit", "collect", "exit"}
  /\ stage \in [tasks -> {"planned", "queued", "running", "finished"}]
  /\ fate \in [tasks -> Codes \cup {Unset, Hang, SpawnError}]
  /\ return_code \in [tasks -> Codes \cup {Unset, TimedOut}]
  /\ finished \subseteq tasks
  /\ events \in Seq(tasks) /\ failed \in Seq(tasks)
  /\ \A f \in DOMAIN content : content[f] \subseteq tasks
  /\ exit_code \in Codes \cup {Unset, 0, 1}

InSeq(t, seq) == \E i \in 1..Len(seq) : seq[i] = t

NoRepeats(seq) == \A i, j \in 1..Len(seq) : seq[i] = seq[j] => i = j

\* No run is lost or reported twice between the worker that finishes it, the
\* hand-over to as_completed and the list of failed runs, whatever finishes
\* while main is still submitting (as_completed's two sources).
EveryRunCountedOnce ==
  /\ NoRepeats(failed)
  /\ phase = "exit" =>
       \A t \in tasks : /\ stage[t] = "finished"
                        /\ return_code[t] # 0 <=> InSeq(t, failed)

\* The status the shell sees is 0 exactly when every planned run returned 0
\* (after the conversion to 8 bits), and an ordinary code in it is the code of
\* some run: the summary and the exit status never disagree.
ExitReflectsRuns ==
  phase = "exit" /\ tasks # {} =>
    /\ ExitStatus = 0 <=> \A t \in tasks : return_code[t] = 0
    /\ exit_code \notin {0, 1} => \E t \in tasks : return_code[t] = exit_code

SameName(t, u) == FileName[executables[t[1]]] = FileName[executables[u[1]]]

\* No other executable has the name of the one that t runs.
NameToItself(t) == \A u \in tasks : SameName(t, u) => u[1] = t[1]

\* When main ends, the result file of a run holds that run's output and nothing
\* else, unless another executable of the same name ran too.
OutputsSeparate ==
  phase = "exit" =>
    \A t \in tasks : NameToItself(t) => content[FileOf(t)] = {t}

\* The script always ends, even when samples hang: the time limit frees their
\* workers and as_completed yields every future.
Terminates == <>(phase = "exit")

\* README.md:80: the script returns "the first non-zero error code encountered
\* on test failure"; run_tests.py:386 adds 1 "if only exceptions occurred".
FirstErrorCodeReturned ==
  phase = "exit" /\ failed # << >> =>
    \/ exit_code = return_code[failed[1]]
    \/ exit_code = 1 /\ \A i \in 1..Len(failed) : return_code[failed[i]] = TimedOut

\* The message of run_tests.py:307, "Skipping run {i+1} for {exe_name} (marked
\* as skip in config)": an executable all of whose runs are marked is not run.
SkippedRunsDoNotStart ==
  \A t \in tasks :
    LET entry == EntryOf(config, executables[t[1]])
    IN  entry.args = "absent" /\ entry.runs # << >>
          => \E i \in 1..Len(entry.runs) : entry.runs[i] # "skip"
===============================================================================
