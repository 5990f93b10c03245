------------------------------ MODULE DeviceTests ------------------------------
(***************************************************************************)
(* The CI of device tests: check_cases.py accepts the allowlist, the build *)
(* packs binaries, assets and manifest into an archive, and               *)
(* run_device_tests.sh validates it twice, after packing with              *)
(* --validate-only and again on the device node, where it then runs every  *)
(* case and searches its output for two patterns.                          *)
(*                                                                         *)
(* A search is a pipeline of printf and grep -q under "set -o pipefail":   *)
(* printf writes the output chunk by chunk, grep reads and exits at the    *)
(* first match, and printf dies of SIGPIPE if it has more to write then.   *)
(*                                                                         *)
(* External: the build puts any of the files in bin/; timeout(1) kills a   *)
(* case at its limit and returns 124.                                      *)
(***************************************************************************)
EXTENDS CiCases

CONSTANTS
  Configs,   \* contents of cases.json
  Codes,     \* statuses of cases that end by themselves
  Outputs,   \* what a case may print: chunks, each the set of texts in it
  Failure,   \* what the failure pattern matches, in a chunk
  PipeSize,  \* how many chunks the pipe holds
  Hang       \* fate of a case that never ends by itself

ASSUME TestsAssumption ==
  /\ Codes \subseteq 0..255 /\ PipeSize \in Nat \ {0} /\ Hang \notin Int
  /\ Failure \notin Text /\ Outputs \subseteq Seq(SUBSET (Text \cup {Failure}))
  /\ \A c \in Configs : c.cases \in Seq(Entry)

VARIABLES
  config, bundle,                \* cases.json; the files of the archive's bin/
  phase, validate_only,          \* where the CI is, and in which call of the script
  at,                            \* the row its loop is at
  case_count, failures, passed,  \* the script's counters
  fate,                          \* how the case will end, and what it prints
  printf, pipe, grep, killed,    \* the pipeline
  verdict, outcome,              \* of each row: the message, and what the case did
  exit_code

script   == << validate_only, at, case_count, failures, passed >>
pipeline == << printf, pipe, grep, killed >>
results  == << verdict, outcome >>
vars == << config, bundle, phase, script, fate, pipeline, results, exit_code >>

TimedOut == 124
None     == -1   \* no status yet

Nothing == [code |-> None, output |-> << >>]

Rows == Manifest(config)
Here == Rows[at]

Init ==
  /\ config \in Configs /\ bundle = {}
  /\ phase = "check" /\ validate_only = TRUE
  /\ at = 1 /\ case_count = 0 /\ failures = 0 /\ passed = 0
  /\ fate = Nothing
  /\ printf = << >> /\ pipe = << >> /\ grep = "found" /\ killed = FALSE
  /\ verdict = [i \in 1..Len(Rows) |-> "none"]
  /\ outcome = [i \in 1..Len(Rows) |-> Nothing]
  /\ exit_code = None

Exit(code) == phase' = "exit" /\ exit_code' = code

-------------------------------------------------------------------------------
(* Before the device: check_cases.py, the build, --validate-only.          *)

CheckCases ==
  /\ phase = "check"
  /\ IF Checked(config) THEN phase' = "build" /\ UNCHANGED exit_code ELSE Exit(1)
  /\ UNCHANGED << config, bundle, script, fate, pipeline, results >>

Files ==
  { config.cases[i].target : i \in 1..Len(config.cases) }
    \cup { AssetAt(config.cases, p) : p \in AssetPlaces(config.cases) }

\* The build fails, or packs what it put in bin/.
Build ==
  /\ phase = "build"
  /\ \/ Exit(1) /\ UNCHANGED bundle
     \/ bundle' \in SUBSET Files /\ phase' = "validate" /\ UNCHANGED exit_code
  /\ UNCHANGED << config, script, fate, pipeline, results >>

\* validate_asset_list: the assets that are unsafe or not there.
BadAssets(assets) ==
  { k \in 1..Len(AssetsOf[assets]) : \/ AssetsOf[assets][k] \in Climbing \cup {Empty}
                                     \/ AssetsOf[assets][k] \notin bundle }

\* The failures recorded for a row.
RowFailures(row) ==
  IF Binary(row) \in Climbing \/ Expected(row) = Empty \/ Description(row) = Empty THEN 1
  ELSE (IF Binary(row) \in bundle THEN 0 ELSE 1) + Cardinality(BadAssets(Assets(row)))

ValidateRow ==
  /\ phase = "validate" /\ at <= Len(Rows)
  /\ at' = at + 1
  /\ IF Binary(Here) = Empty THEN UNCHANGED << case_count, failures >>
     ELSE case_count' = case_count + 1 /\ failures' = failures + RowFailures(Here)
  /\ UNCHANGED << config, bundle, phase, validate_only, passed, fate, pipeline, results,
                  exit_code >>

\* The archive cannot be unpacked or lacks its parts; later, there is no timeout.
ScriptFails ==
  /\ phase = "validate" /\ (at = 1 \/ at > Len(Rows))
  /\ Exit(1)
  /\ UNCHANGED << config, bundle, script, fate, pipeline, results >>

ValidationEnds ==
  /\ phase = "validate" /\ at > Len(Rows)
  /\ at' = 1 /\ failures' = 0
  /\ IF failures # 0 \/ case_count = 0
     THEN Exit(1) /\ UNCHANGED << validate_only, case_count >>
     ELSE IF validate_only
     THEN /\ validate_only' = FALSE /\ case_count' = 0
          /\ UNCHANGED << phase, exit_code >>
     ELSE phase' = "run" /\ UNCHANGED << validate_only, case_count, exit_code >>
  /\ UNCHANGED << config, bundle, passed, fate, pipeline, results >>

-------------------------------------------------------------------------------
(* The cases on the device.                                                *)

\* The loop's next row.
StartCase ==
  /\ phase = "run" /\ at <= Len(Rows)
  /\ IF Binary(Here) = Empty
     THEN at' = at + 1 /\ UNCHANGED << phase, fate >>
     ELSE /\ phase' = "case" /\ UNCHANGED at
          /\ fate' \in [code : Codes \cup {Hang}, output : Outputs]
  /\ UNCHANGED << config, bundle, validate_only, case_count, failures, passed, pipeline,
                  results, exit_code >>

Verdict(word) ==
  /\ verdict' = [verdict EXCEPT ![at] = word]
  /\ phase' = "run" /\ at' = at + 1

Failed(word) == Verdict(word) /\ failures' = failures + 1 /\ UNCHANGED passed

\* printf and grep start, over what the case printed.
Search(next) ==
  /\ phase' = next
  /\ printf' = fate.output /\ pipe' = << >> /\ grep' = "reading" /\ killed' = FALSE

CaseEnds(code) ==
  /\ phase = "case"
  /\ outcome' = [outcome EXCEPT ![at] = [code |-> code, output |-> fate.output]]
  /\ IF code = 0
     THEN Search("expected") /\ UNCHANGED << at, failures, passed, verdict >>
     ELSE Failed("exit") /\ UNCHANGED pipeline
  /\ UNCHANGED << config, bundle, validate_only, case_count, fate, exit_code >>

CaseReturns == fate.code # Hang /\ CaseEnds(fate.code)

\* The case is run without timeout.
NoTimeout == FALSE

\* timeout -k 10 300: the case that hangs, and any that is slow.
CaseTimesOut == CaseEnds(TimedOut)

Searching == phase \in {"expected", "marker"}

Matches(chunk) ==
  IF phase = "expected" THEN Expected(Here) \in chunk ELSE Failure \in chunk

PrintfWrites ==
  /\ Searching /\ printf # << >> /\ grep = "reading" /\ Len(pipe) < PipeSize
  /\ printf' = Tail(printf) /\ pipe' = Append(pipe, Head(printf))
  /\ UNCHANGED << config, bundle, phase, script, fate, grep, killed, results, exit_code >>

\* A write to a pipe that grep has left.
PrintfKilled ==
  /\ Searching /\ printf # << >> /\ grep = "found"
  /\ printf' = << >> /\ killed' = TRUE
  /\ UNCHANGED << config, bundle, phase, script, fate, pipe, grep, results, exit_code >>

GrepReads ==
  /\ Searching /\ grep = "reading" /\ pipe # << >>
  /\ grep' = IF Matches(Head(pipe)) THEN "found" ELSE "reading"
  /\ pipe' = Tail(pipe)
  /\ UNCHANGED << config, bundle, phase, script, fate, printf, killed, results, exit_code >>

GrepEnds ==
  /\ Searching /\ grep = "reading" /\ pipe = << >> /\ printf = << >>
  /\ grep' = "missed"
  /\ UNCHANGED << config, bundle, phase, script, fate, printf, pipe, killed, results, exit_code >>

PipelineDone == Searching /\ printf = << >> /\ grep # "reading"

\* The status of the pipeline is 0.
Found == grep = "found" /\ ~ killed

\* The "continue" after a missing success marker left out.
MissingMarkerCountedOnly ==
  /\ phase = "expected" /\ PipelineDone
  /\ Search("marker")
  /\ failures' = IF Found THEN failures ELSE failures + 1
  /\ UNCHANGED << config, bundle, validate_only, at, passed, verdict, case_count, fate, outcome, exit_code >>

SuccessMarkerSearched ==
  /\ phase = "expected" /\ PipelineDone
  /\ IF Found THEN Search("marker") /\ UNCHANGED << at, failures, passed, verdict >>
              ELSE Failed("did not print") /\ UNCHANGED pipeline
  /\ UNCHANGED << config, bundle, validate_only, case_count, fate, outcome, exit_code >>

FailureMarkerSearched ==
  /\ phase = "marker" /\ PipelineDone
  /\ \/ Found /\ Failed("printed a failure marker")
     \/ ~ Found /\ Verdict("passed") /\ passed' = passed + 1 /\ UNCHANGED failures
  /\ UNCHANGED << config, bundle, validate_only, case_count, fate, pipeline, outcome, exit_code >>

\* The status is the number of failures.
SummaryCountsFailures ==
  /\ phase = "run" /\ at > Len(Rows)
  /\ Exit(failures)
  /\ UNCHANGED << config, bundle, script, fate, pipeline, results >>

Summary ==
  /\ phase = "run" /\ at > Len(Rows)
  /\ Exit(IF failures # 0 THEN 1 ELSE 0)
  /\ UNCHANGED << config, bundle, script, fate, pipeline, results >>

-------------------------------------------------------------------------------
Progress ==
  \/ CheckCases \/ Build \/ ValidateRow \/ ValidationEnds \/ StartCase
  \/ CaseReturns \/ CaseTimesOut
  \/ PrintfWrites \/ PrintfKilled \/ GrepReads \/ GrepEnds
  \/ SuccessMarkerSearched \/ FailureMarkerSearched \/ Summary

Next == Progress \/ ScriptFails

\* The shell and the processes of a pipeline are scheduled; a case ends or is
\* killed at its limit.
Spec == Init /\ [][Next]_vars /\ WF_vars(Progress)
-------------------------------------------------------------------------------
Words == {"none", "exit", "did not print", "printed a failure marker", "passed"}

TypeOK ==
  /\ config \in Configs /\ bundle \subseteq Files
  /\ phase \in {"check", "build", "validate", "run", "case", "expected", "marker", "exit"}
  /\ validate_only \in BOOLEAN /\ killed \in BOOLEAN
  /\ at \in 1..Len(Rows) + 1
  /\ case_count \in Nat /\ failures \in Nat /\ passed \in Nat
  /\ fate \in [code : Codes \cup {Hang, None}, output : Outputs \cup {<< >>}]
  /\ printf \in Seq(SUBSET (Text \cup {Failure})) /\ pipe \in Seq(SUBSET (Text \cup {Failure}))
  /\ grep \in {"reading", "found", "missed"}
  /\ verdict \in [1..Len(Rows) -> Words]
  /\ outcome \in [1..Len(Rows) ->
                    [code : Codes \cup {None, TimedOut}, output : Outputs \cup {<< >>}]]
  /\ exit_code \in {None, 0, 1}

Prints(output, text) == \E k \in 1..Len(output) : text \in output[k]

\* When the CI ends with status 0 the script ran on the device what cases.json
\* lists: each case ran with its own assets, returned 0 and printed its own
\* success marker, whatever the shell made of the manifest's fields.
EveryCasePassed ==
  exit_code = 0 =>
    \A i \in 1..Len(config.cases) :
      LET case == config.cases[i] IN
        /\ case.target \in bundle
        /\ \A k \in 1..Len(AssetsOf[case.assets]) : AssetsOf[case.assets][k] \in bundle
        /\ outcome[i].code = 0 /\ Prints(outcome[i].output, case.success)

\* The last line of the script adds up: the cases its first loop counted are
\* those that passed and failed in its second.
CountsAgree ==
  phase = "run" /\ at > Len(Rows) =>
    /\ case_count = Len(config.cases)
    /\ passed + failures = case_count

\* Cases that hang do not keep the CI from its verdict.
Terminates == <>(phase = "exit")

\* run_device_tests.sh:150 "--- FAILED: ${binary} did not print '${expected}'"
\* and :156 "--- FAILED: ${binary} printed a failure marker": what the script
\* says of a case is so.
VerdictsTrue ==
  \A i \in 1..Len(Rows) :
    /\ verdict[i] = "did not print" => ~ Prints(outcome[i].output, Expected(Rows[i]))
    /\ verdict[i] = "passed" => ~ Prints(outcome[i].output, Failure)
===============================================================================
