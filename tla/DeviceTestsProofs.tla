--------------------------- MODULE DeviceTestsProofs ---------------------------
(***************************************************************************)
(* Theorems about the CI of device tests for every allowlist, whatever its *)
(* texts, the outputs of its cases and the size of a pipe: a status of 0   *)
(* means that every case ran and passed, and the script's counts add up.   *)
(***************************************************************************)
EXTENDS DeviceTests, FiniteSetTheorems, SequenceTheorems, TLAPS

Cases == Len(config.cases)

\* The files of case i are in the archive.
Packed(i) ==
  LET case == config.cases[i] IN
    /\ case.target \in bundle
    /\ \A k \in 1..Len(AssetsOf[case.assets]) : AssetsOf[case.assets][k] \in bundle

\* Case i returned 0 and printed its success marker.
Succeeded(i) ==
  outcome[i].code = 0 /\ Prints(outcome[i].output, config.cases[i].success)

OnDevice == phase \in {"run", "case", "expected", "marker"}

\* What is known of the rows the validating loop has passed, and after it of all.
Validated ==
  /\ phase \notin {"check", "exit"} => Checked(config)
  /\ phase \in {"check", "build"} =>
       at = 1 /\ case_count = 0 /\ failures = 0 /\ passed = 0
  /\ phase = "validate" =>
       /\ case_count = at - 1 /\ passed = 0
       /\ failures = 0 => \A i \in 1..at - 1 : Packed(i)
  /\ OnDevice => case_count = Cases /\ \A i \in 1..Cases : Packed(i)

\* What is known of the cases the second loop has passed.
Counted ==
  /\ OnDevice => passed + failures = at - 1
  /\ OnDevice /\ failures = 0 => \A i \in 1..at - 1 : Succeeded(i)
  /\ phase \in {"case", "expected", "marker"} => at <= Cases

\* Every chunk of a sequence is one of those the case printed.
Printed(chunks) ==
  \A k \in 1..Len(chunks) : \E j \in 1..Len(fate.output) : chunks[k] = fate.output[j]

\* What is known of the case whose output is searched.
Searched ==
  /\ Searching => outcome[at].code = 0 /\ outcome[at].output = fate.output
  /\ phase = "expected" =>
       /\ Printed(printf) /\ Printed(pipe)
       /\ grep = "found" => Prints(fate.output, config.cases[at].success)
  /\ phase = "marker" => Prints(fate.output, config.cases[at].success)

Ended == (phase # "exit" => exit_code = None) /\ EveryCasePassed

IInv == TypeOK /\ Validated /\ Counted /\ Searched /\ Ended
-------------------------------------------------------------------------------
(* What the allowlist and its manifest say.                                *)

LEMMA CasesTyped ==
  ASSUME config \in Configs
  PROVE  /\ config.cases \in Seq(Entry) /\ Cases \in Nat
         /\ \A i \in 1..Cases : config.cases[i] \in Entry
  <1>1. config.cases \in Seq(Entry)
    BY TestsAssumption
  <1>2. Cases \in Nat
    BY <1>1, LenProperties DEF Cases
  <1> QED BY <1>1, <1>2, ElementOfSeq DEF Cases

\* The shell reads back from a row of an accepted case what cases.json has.
LEMMA FieldsOfRow ==
  ASSUME NEW case \in Entry, NEW source, CaseChecked(case, source)
  PROVE  /\ Row(case) \in Seq(Text)
         /\ Binary(Row(case)) = case.target /\ Expected(Row(case)) = case.success
         /\ Assets(Row(case)) = case.assets
         /\ case.target # Empty /\ case.success # Empty
         /\ Description(Row(case)) # Empty
  <1> DEFINE t == case.target
             s == case.success
             d == case.description
             a == case.assets
  <1>1. t \in Text /\ s \in Text /\ d \in Text /\ a \in Text
    BY DEF Entry
  <1>2. /\ Pieces[t] = << t >> /\ Pieces[s] = << s >> /\ Pieces[d] = << d >>
        /\ t # Empty /\ s # Empty /\ d # Empty
    BY TextAssumption DEF CaseChecked, safe_text
  <1>3. Pieces[a] = IF a = Empty THEN << >> ELSE << a >>
    BY <1>1, TextAssumption DEF CaseChecked
  <1>4. Row(case) = << t >> \o << s >> \o << d >> \o (IF a = Empty THEN << >> ELSE << a >>)
    BY <1>2, <1>3 DEF Row
  <1> HIDE DEF t, s, d, a
  <1> DEFINE two   == << t >> \o << s >>
             three == two \o << d >>
  <1>5. two \in Seq(Text) /\ Len(two) = 2 /\ two[1] = t /\ two[2] = s
    <2>1. << t >> \in Seq(Text) /\ << s >> \in Seq(Text)
      BY <1>1
    <2> QED BY <2>1, ConcatProperties
  <1>6. /\ three \in Seq(Text) /\ Len(three) = 3
        /\ three[1] = t /\ three[2] = s /\ three[3] = d
    <2>1. << d >> \in Seq(Text)
      BY <1>1
    <2> HIDE DEF two
    <2> QED BY <1>5, <2>1, ConcatProperties
  <1>7. Row(case) = three \o (IF a = Empty THEN << >> ELSE << a >>)
    BY <1>4
  <1> HIDE DEF three
  <1>8. CASE a = Empty
    <2>1. Row(case) = three
      BY <1>6, <1>7, <1>8, ConcatEmptySeq
    <2>2. /\ Row(case) \in Seq(Text) /\ Len(Row(case)) = 3
          /\ Row(case)[1] = t /\ Row(case)[2] = s /\ Row(case)[3] = d
      BY <1>6, <2>1
    <2> QED BY <1>2, <1>8, <2>2 DEF Binary, Expected, Description, Assets, Field, t, s, d, a
  <1>9. CASE a # Empty
    <2>1. << a >> \in Seq(Text)
      BY <1>1
    <2>2. Row(case) = three \o << a >>
      BY <1>7, <1>9
    <2>3. /\ Row(case) \in Seq(Text) /\ Len(Row(case)) = 4
          /\ Row(case)[1] = t /\ Row(case)[2] = s /\ Row(case)[3] = d /\ Row(case)[4] = a
      <3>1. Len(<< a >>) = 1 /\ << a >>[1] = a
        OBVIOUS
      <3>2. /\ three \o << a >> \in Seq(Text)
            /\ Len(three \o << a >>) = Len(three) + Len(<< a >>)
            /\ \A k \in 1..Len(three) + Len(<< a >>) :
                 (three \o << a >>)[k] = IF k <= Len(three) THEN three[k]
                                         ELSE << a >>[k - Len(three)]
        BY <1>6, <2>1, ConcatProperties
      <3> QED BY <1>6, <2>2, <3>1, <3>2
    <2> QED BY <1>2, <2>3 DEF Binary, Expected, Description, Assets, Field, t, s, d, a
  <1> QED BY <1>8, <1>9

LEMMA RowTyped ==
  ASSUME NEW case \in Entry
  PROVE  Row(case) \in Seq(Text)
  <1> DEFINE pt == Pieces[case.target]
             ps == Pieces[case.success]
             pd == Pieces[case.description]
             pa == Pieces[case.assets]
  <1>1. /\ pt \in Seq(Text) /\ ps \in Seq(Text) /\ pd \in Seq(Text) /\ pa \in Seq(Text)
    BY TextAssumption DEF Entry
  <1>2. Row(case) = pt \o ps \o pd \o pa
    BY DEF Row
  <1> HIDE DEF pt, ps, pd, pa
  <1>3. pt \o ps \in Seq(Text)
    BY <1>1, ConcatProperties
  <1>4. pt \o ps \o pd \in Seq(Text)
    BY <1>1, <1>3, ConcatProperties
  <1>5. pt \o ps \o pd \o pa \in Seq(Text)
    BY <1>1, <1>4, ConcatProperties
  <1> QED BY <1>2, <1>5

LEMMA RowsTyped ==
  ASSUME config \in Configs
  PROVE  /\ Cases \in Nat /\ Len(Rows) = Cases
         /\ \A i \in 1..Cases : /\ config.cases[i] \in Entry
                                /\ Rows[i] = Row(config.cases[i])
  <1>1. Cases \in Nat /\ \A i \in 1..Cases : config.cases[i] \in Entry
    BY CasesTyped
  <1>2. \A i \in 1..Cases : Row(config.cases[i]) \in Seq(Text)
    BY <1>1, RowTyped
  <1>3. Rows = [i \in 1..Cases |-> Row(config.cases[i])]
    BY DEF Rows, Manifest, Cases
  <1>4. Rows \in [1..Cases -> Seq(Text)]
    BY <1>2, <1>3
  <1>5. Rows \in Seq(Seq(Text))
    BY <1>1, <1>4, SeqDef
  <1>6. Len(Rows) = Cases
    BY <1>1, <1>4, <1>5, LenProperties
  <1>7. \A i \in 1..Cases : Rows[i] = Row(config.cases[i])
    BY <1>3
  <1> QED BY <1>1, <1>6, <1>7

LEMMA RowsOfCases ==
  ASSUME config \in Configs, Checked(config)
  PROVE  \A i \in 1..Cases :
           /\ Binary(Rows[i]) = config.cases[i].target
           /\ Expected(Rows[i]) = config.cases[i].success
           /\ Assets(Rows[i]) = config.cases[i].assets
           /\ Binary(Rows[i]) # Empty /\ Expected(Rows[i]) # Empty
           /\ Description(Rows[i]) # Empty
  <1>1. \A i \in 1..Cases :
          CaseChecked(config.cases[i], config.samples[config.cases[i].sample].source)
    BY DEF Checked, Cases
  <1> QED BY <1>1, RowsTyped, FieldsOfRow

\* A row without failures is one whose files are all there.
LEMMA FailuresOfRow ==
  ASSUME config \in Configs, Checked(config), NEW i \in 1..Cases
  PROVE  /\ RowFailures(Rows[i]) \in Nat
         /\ RowFailures(Rows[i]) = 0 => Packed(i)
  <1> DEFINE a == config.cases[i].assets
             Bad == BadAssets(a)
  <1>1. /\ Binary(Rows[i]) = config.cases[i].target /\ Assets(Rows[i]) = a
        /\ Expected(Rows[i]) # Empty /\ Description(Rows[i]) # Empty
    BY RowsOfCases
  <1>2. a \in Text
    BY CasesTyped DEF Entry
  <1>3. Len(AssetsOf[a]) \in Nat
    BY <1>2, TextAssumption, LenProperties
  <1>4. Bad \in SUBSET (1..Len(AssetsOf[a]))
    BY DEF BadAssets
  <1>5. IsFiniteSet(Bad)
    <2>1. IsFiniteSet(1..Len(AssetsOf[a]))
      <3>1. 1 \in Int /\ Len(AssetsOf[a]) \in Int
        BY <1>3
      <3> HIDE DEF a
      <3> QED BY <3>1, FS_Interval
    <2> QED BY <1>4, <2>1, FS_Subset
  <1>6. Cardinality(Bad) \in Nat /\ (Cardinality(Bad) = 0 <=> Bad = {})
    BY <1>5, FS_CardinalityType, FS_EmptySet
  <1>7. Bad = {} => \A k \in 1..Len(AssetsOf[a]) : AssetsOf[a][k] \in bundle
    BY DEF BadAssets
  <1> HIDE DEF Bad
  <1>8. RowFailures(Rows[i]) = IF Binary(Rows[i]) \in Climbing THEN 1
          ELSE (IF Binary(Rows[i]) \in bundle THEN 0 ELSE 1) + Cardinality(Bad)
    BY <1>1 DEF RowFailures, Bad
  <1>9. RowFailures(Rows[i]) \in Nat
    BY <1>6, <1>8
  <1>10. RowFailures(Rows[i]) = 0 => Binary(Rows[i]) \in bundle /\ Bad = {}
    BY <1>6, <1>8
  <1> QED BY <1>1, <1>7, <1>9, <1>10 DEF Packed
-------------------------------------------------------------------------------
(* The steps.                                                              *)

LEMMA ConfigFrame ==
  ASSUME config' = config
  PROVE  Rows' = Rows /\ Cases' = Cases /\ Here' = (Rows[at'])
  BY DEF Rows, Manifest, Cases, Here

LEMMA InitInvariant == Init => IInv
  <1> SUFFICES ASSUME Init PROVE IInv
    OBVIOUS
  <1> USE DEF Init
  <1>1. TypeOK
    <2>1. Len(Rows) \in Nat
      BY RowsTyped
    <2>2. << >> \in Seq(SUBSET (Text \cup {Failure}))
      BY EmptySeq
    <2>3. fate \in [code : Codes \cup {Hang, None}, output : Outputs \cup {<< >>}]
      BY DEF Nothing
    <2>4. verdict \in [1..Len(Rows) -> Words]
      BY DEF Words
    <2>5. outcome \in [1..Len(Rows) ->
                         [code : Codes \cup {None, TimedOut}, output : Outputs \cup {<< >>}]]
      BY DEF Nothing
    <2>6. at \in 1..Len(Rows) + 1
      BY <2>1
    <2> QED BY <2>2, <2>3, <2>4, <2>5, <2>6 DEF TypeOK
  <1> QED BY <1>1 DEF IInv, Validated, Counted, Searched, Ended, EveryCasePassed, OnDevice,
                      Searching, None

LEMMA CheckInvariant == ASSUME IInv, CheckCases PROVE IInv'
  <1> USE DEF CheckCases, Exit, script, pipeline, results
  <1>1. TypeOK'
    BY ConfigFrame DEF IInv, TypeOK, Files
  <1>2. Validated' /\ Counted' /\ Searched' /\ Ended'
    BY DEF IInv, Validated, Counted, Searched, Ended, EveryCasePassed, OnDevice, Searching, None
  <1> QED BY <1>1, <1>2 DEF IInv

LEMMA BuildInvariant == ASSUME IInv, Build PROVE IInv'
  <1> USE DEF Build, Exit, script, pipeline, results
  <1>1. TypeOK'
    <2>1. Files' = Files
      BY DEF Files
    <2>2. bundle' \subseteq Files
      BY DEF IInv, TypeOK
    <2> HIDE DEF Build
    <2>3. UNCHANGED << config, script, fate, pipeline, results >>
      BY DEF Build
    <2>4. phase' \in {"validate", "exit"} /\ exit_code' \in {exit_code, 1}
      BY DEF Build
    <2> QED BY <2>1, <2>2, <2>3, <2>4, ConfigFrame DEF IInv, TypeOK
  <1>2. Validated' /\ Counted' /\ Searched' /\ Ended'
    BY DEF IInv, Validated, Counted, Searched, Ended, EveryCasePassed, OnDevice, Searching, None
  <1> QED BY <1>1, <1>2 DEF IInv

\* From the build on, the allowlist is one that was accepted.
LEMMA Accepted ==
  ASSUME IInv, phase \notin {"check", "exit"}
  PROVE  /\ config \in Configs /\ Checked(config) /\ Cases \in Nat /\ Len(Rows) = Cases
         /\ at \in 1..Cases + 1 /\ case_count \in Nat /\ failures \in Nat /\ passed \in Nat
         /\ exit_code = None
  BY RowsTyped DEF IInv, TypeOK, Validated, Ended

\* The allowlist and the archive stay what they are; so does what is known of them.
LEMMA ArchiveFrame ==
  ASSUME UNCHANGED << config, bundle >>
  PROVE  /\ Rows' = Rows /\ Cases' = Cases /\ Files' = Files /\ (Checked(config)' <=> Checked(config))
         /\ \A i : Packed(i)' <=> Packed(i)
  BY ConfigFrame DEF Files, Packed

LEMMA ValidateRowInvariant == ASSUME IInv, ValidateRow PROVE IInv'
  <1>1. /\ phase = "validate" /\ at <= Len(Rows) /\ at' = at + 1
        /\ UNCHANGED << config, bundle, phase, validate_only, passed, fate, pipeline, results,
                        exit_code >>
    BY DEF ValidateRow
  <1>2. /\ config \in Configs /\ Checked(config) /\ Cases \in Nat /\ Len(Rows) = Cases
        /\ at \in 1..Cases /\ case_count \in Nat /\ failures \in Nat /\ passed \in Nat
        /\ exit_code = None
    BY <1>1, Accepted
  <1>3. /\ Binary(Here) # Empty
        /\ RowFailures(Here) \in Nat /\ (RowFailures(Here) = 0 => Packed(at))
    BY <1>2, RowsOfCases, FailuresOfRow DEF Here
  <1>4. case_count' = case_count + 1 /\ failures' = failures + RowFailures(Here)
    BY <1>3 DEF ValidateRow
  <1>5. TypeOK'
    <2>1. at' \in 1..Len(Rows) + 1 /\ case_count' \in Nat /\ failures' \in Nat
      BY <1>1, <1>2, <1>3, <1>4
    <2> QED BY <1>1, <2>1, ArchiveFrame DEF IInv, TypeOK, pipeline, results
  <1>6. Validated'
    <2>1. case_count' = at' - 1 /\ passed' = 0
      BY <1>1, <1>2, <1>4 DEF IInv, Validated
    <2>2. ASSUME failures' = 0, NEW i \in 1..at' - 1 PROVE Packed(i)'
      <3>1. failures = 0 /\ RowFailures(Here) = 0
        BY <1>2, <1>3, <1>4, <2>2
      <3>2. Packed(i)
        BY <1>1, <1>2, <1>3, <3>1 DEF IInv, Validated
      <3> QED BY <1>1, <3>2, ArchiveFrame
    <2> QED BY <1>1, <1>2, <2>1, <2>2, ArchiveFrame DEF Validated, OnDevice
  <1>7. Counted' /\ Searched' /\ Ended'
    BY <1>1, <1>2 DEF Counted, Searched, Ended, EveryCasePassed, OnDevice, Searching, None
  <1> QED BY <1>5, <1>6, <1>7 DEF IInv

LEMMA ScriptFailsInvariant == ASSUME IInv, ScriptFails PROVE IInv'
  <1>1. /\ phase = "validate" /\ phase' = "exit" /\ exit_code' = 1
        /\ UNCHANGED << config, bundle, script, fate, pipeline, results >>
    BY DEF ScriptFails, Exit
  <1>2. TypeOK'
    BY <1>1, ArchiveFrame DEF IInv, TypeOK, script, pipeline, results
  <1>3. Validated' /\ Counted' /\ Searched' /\ Ended'
    BY <1>1 DEF Validated, Counted, Searched, Ended, EveryCasePassed, OnDevice, Searching
  <1> QED BY <1>2, <1>3 DEF IInv

LEMMA ValidationEndsInvariant == ASSUME IInv, ValidationEnds PROVE IInv'
  <1>1. /\ phase = "validate" /\ at > Len(Rows) /\ at' = 1 /\ failures' = 0
        /\ UNCHANGED << config, bundle, passed, fate, pipeline, results >>
    BY DEF ValidationEnds
  <1>2. /\ config \in Configs /\ Checked(config) /\ Cases \in Nat /\ Len(Rows) = Cases
        /\ at = Cases + 1 /\ case_count = Cases /\ failures \in Nat /\ passed = 0
        /\ exit_code = None
    BY <1>1, Accepted DEF IInv, Validated
  <1>3. CASE phase' = "exit"
    <2>1. exit_code' = 1 /\ UNCHANGED << validate_only, case_count >>
      BY <1>1, <1>3 DEF ValidationEnds, Exit
    <2>2. TypeOK'
      BY <1>1, <1>2, <1>3, <2>1, ArchiveFrame DEF IInv, TypeOK, pipeline, results
    <2>3. Validated' /\ Counted' /\ Searched' /\ Ended'
      BY <1>3, <2>1 DEF Validated, Counted, Searched, Ended, EveryCasePassed, OnDevice, Searching
    <2> QED BY <2>2, <2>3 DEF IInv
  <1>4. CASE phase' = "validate"
    <2>1. validate_only' = FALSE /\ case_count' = 0 /\ exit_code' = None
      BY <1>1, <1>2, <1>4 DEF ValidationEnds, Exit
    <2>2. TypeOK'
      <3>1. at' \in 1..Len(Rows) + 1 /\ case_count' \in Nat /\ failures' \in Nat
        BY <1>1, <1>2, <2>1
      <3>2. exit_code' \in {None, 0, 1} /\ validate_only' \in BOOLEAN
        BY <2>1
      <3> QED BY <1>1, <1>4, <3>1, <3>2, ArchiveFrame DEF IInv, TypeOK, pipeline, results
    <2>3. Validated' /\ Counted' /\ Searched' /\ Ended'
      BY <1>1, <1>2, <1>4, <2>1, ArchiveFrame
      DEF Validated, Counted, Searched, Ended, EveryCasePassed, OnDevice, Searching, None
    <2> QED BY <2>2, <2>3 DEF IInv
  <1>5. CASE phase' = "run"
    <2>1. failures = 0 /\ UNCHANGED << validate_only, case_count, exit_code >>
      BY <1>1, <1>5 DEF ValidationEnds, Exit
    <2>2. TypeOK'
      BY <1>1, <1>2, <1>5, <2>1, ArchiveFrame DEF IInv, TypeOK, pipeline, results
    <2>3. \A i \in 1..Cases : Packed(i)
      BY <1>1, <1>2, <2>1 DEF IInv, Validated
    <2>4. Validated' /\ Counted' /\ Searched' /\ Ended'
      BY <1>1, <1>2, <1>5, <2>1, <2>3, ArchiveFrame
      DEF Validated, Counted, Searched, Ended, EveryCasePassed, OnDevice, Searching, None
    <2> QED BY <2>2, <2>4 DEF IInv
  <1> QED BY <1>1, <1>3, <1>4, <1>5 DEF ValidationEnds, Exit

LEMMA StartCaseInvariant == ASSUME IInv, StartCase PROVE IInv'
  <1>1. /\ phase = "run" /\ at <= Len(Rows)
        /\ UNCHANGED << config, bundle, validate_only, case_count, failures, passed, pipeline,
                        results, exit_code >>
    BY DEF StartCase
  <1>2. /\ config \in Configs /\ Checked(config) /\ Cases \in Nat /\ Len(Rows) = Cases
        /\ at \in 1..Cases /\ exit_code = None
    BY <1>1, Accepted
  <1>3. Binary(Here) # Empty
    BY <1>2, RowsOfCases DEF Here
  <1>4. phase' = "case" /\ at' = at /\ fate' \in [code : Codes \cup {Hang}, output : Outputs]
    BY <1>3 DEF StartCase
  <1>5. TypeOK'
    BY <1>1, <1>4, ArchiveFrame DEF IInv, TypeOK, pipeline, results
  <1>6. Validated'
    BY <1>1, <1>4, ArchiveFrame DEF IInv, Validated, OnDevice
  <1>7. Counted'
    BY <1>1, <1>2, <1>4, ArchiveFrame DEF IInv, Counted, OnDevice, Succeeded, results
  <1>8. Searched' /\ Ended'
    BY <1>1, <1>2, <1>4 DEF Searched, Searching, Ended, EveryCasePassed, None
  <1> QED BY <1>5, <1>6, <1>7, <1>8 DEF IInv

\* A case has its verdict, and the loop goes on with the next one.
LEMMA VerdictInvariant ==
  ASSUME IInv, phase \in {"case", "expected", "marker"}, NEW word \in Words,
         UNCHANGED << config, bundle, validate_only, case_count, fate, pipeline, exit_code >>,
         Verdict(word),
         outcome' \in [1..Len(Rows) ->
                         [code : Codes \cup {None, TimedOut}, output : Outputs \cup {<< >>}]],
         \A i \in 1..at - 1 : outcome'[i] = outcome[i],
         \/ failures' = failures + 1 /\ passed' = passed
         \/ failures' = failures /\ passed' = passed + 1 /\ Succeeded(at) /\ outcome' = outcome
  PROVE  IInv'
  <1>1. phase' = "run" /\ at' = at + 1 /\ verdict' = [verdict EXCEPT ![at] = word]
    BY DEF Verdict
  <1>2. /\ config \in Configs /\ Checked(config) /\ Cases \in Nat /\ Len(Rows) = Cases
        /\ at \in 1..Cases /\ exit_code = None /\ failures \in Nat /\ passed \in Nat
    BY Accepted DEF IInv, Counted
  <1>3. TypeOK'
    <2>1. verdict' \in [1..Len(Rows) -> Words]
      BY <1>1 DEF IInv, TypeOK
    <2>2. at' \in 1..Len(Rows) + 1 /\ failures' \in Nat /\ passed' \in Nat
      BY <1>1, <1>2
    <2> QED BY <1>1, <2>1, <2>2, ArchiveFrame DEF IInv, TypeOK, pipeline
  <1>4. Validated'
    BY <1>1, ArchiveFrame DEF IInv, Validated, OnDevice
  <1>5. Counted'
    <2>1. passed' + failures' = at' - 1
      <3>1. passed + failures = at - 1
        BY DEF IInv, Counted, OnDevice
      <3>2. \/ failures' = failures + 1 /\ passed' = passed
            \/ failures' = failures /\ passed' = passed + 1
        OBVIOUS
      <3>3. CASE failures' = failures + 1 /\ passed' = passed
        BY <1>1, <1>2, <3>1, <3>3
      <3>4. CASE failures' = failures /\ passed' = passed + 1
        BY <1>1, <1>2, <3>1, <3>4
      <3> QED BY <3>2, <3>3, <3>4
    <2>2. ASSUME failures' = 0, NEW i \in 1..at' - 1 PROVE Succeeded(i)'
      <3>1. failures = 0 /\ Succeeded(at) /\ outcome' = outcome
        BY <1>2, <2>2
      <3>2. Succeeded(i)
        BY <1>1, <1>2, <3>1 DEF IInv, Counted, OnDevice
      <3> QED BY <3>1, <3>2 DEF Succeeded
    <2> QED BY <1>1, <2>1, <2>2 DEF Counted
  <1>6. Searched' /\ Ended'
    BY <1>1, <1>2 DEF Searched, Searching, Ended, EveryCasePassed, None
  <1> QED BY <1>3, <1>4, <1>5, <1>6 DEF IInv

\* What a case prints, and what is on its way through the pipe, are chunks.
LEMMA ChunksTyped ==
  ASSUME TypeOK
  PROVE  /\ fate.output \in Seq(SUBSET (Text \cup {Failure}))
         /\ fate.output \in Outputs \cup {<< >>}
         /\ fate.code \in Codes \cup {Hang, None}
         /\ << >> \in Seq(SUBSET (Text \cup {Failure}))
  <1>1. << >> \in Seq(SUBSET (Text \cup {Failure}))
    BY EmptySeq
  <1>2. /\ fate.output \in Outputs \cup {<< >>}
        /\ fate.code \in Codes \cup {Hang, None}
    BY DEF TypeOK
  <1>3. Outputs \subseteq Seq(SUBSET (Text \cup {Failure}))
    BY TestsAssumption
  <1> QED BY <1>1, <1>2, <1>3

LEMMA CaseEndsInvariant ==
  ASSUME IInv, NEW code \in Codes \cup {None, TimedOut}, CaseEnds(code)
  PROVE  IInv'
  <1>1. /\ phase = "case"
        /\ outcome' = [outcome EXCEPT ![at] = [code |-> code, output |-> fate.output]]
        /\ UNCHANGED << config, bundle, validate_only, case_count, fate, exit_code >>
    BY DEF CaseEnds
  <1>2. /\ config \in Configs /\ Checked(config) /\ Cases \in Nat /\ Len(Rows) = Cases
        /\ at \in 1..Cases /\ exit_code = None
    BY <1>1, Accepted DEF IInv, Counted
  <1>3. outcome' \in [1..Len(Rows) ->
                       [code : Codes \cup {None, TimedOut}, output : Outputs \cup {<< >>}]]
    <2>1. fate.output \in Outputs \cup {<< >>}
      BY ChunksTyped DEF IInv
    <2> QED BY <1>1, <2>1 DEF IInv, TypeOK
  <1>4. \A i \in 1..at - 1 : outcome'[i] = outcome[i]
    BY <1>1, <1>2 DEF IInv, TypeOK
  <1>5. outcome'[at] = [code |-> code, output |-> fate.output]
    BY <1>1, <1>2 DEF IInv, TypeOK
  <1>6. CASE code # 0
    <2>1. /\ Verdict("exit") /\ failures' = failures + 1 /\ passed' = passed
          /\ UNCHANGED pipeline
      BY <1>6 DEF CaseEnds, Failed
    <2> QED BY <1>1, <1>3, <1>4, <2>1, VerdictInvariant DEF Words
  <1>7. CASE code = 0
    <2>1. /\ phase' = "expected" /\ printf' = fate.output /\ pipe' = << >>
          /\ grep' = "reading" /\ killed' = FALSE
          /\ UNCHANGED << at, failures, passed, verdict >>
      BY <1>7 DEF CaseEnds, Search
    <2>2. TypeOK'
      BY <1>1, <1>3, <2>1, ChunksTyped, ArchiveFrame DEF IInv, TypeOK
    <2>3. Validated'
      BY <1>1, <2>1, ArchiveFrame DEF IInv, Validated, OnDevice
    <2>4. Counted'
      <3>1. \A i \in 1..at - 1 : Succeeded(i)' <=> Succeeded(i)
        BY <1>1, <1>4 DEF Succeeded
      <3> QED BY <1>1, <1>2, <2>1, <3>1, ArchiveFrame DEF IInv, Counted, OnDevice
    <2>5. Searched'
      <3>1. outcome'[at'].code = 0 /\ outcome'[at'].output = fate'.output
        BY <1>1, <1>5, <1>7, <2>1
      <3>2. Printed(printf)' /\ Printed(pipe)'
        BY <1>1, <2>1, EmptySeq DEF Printed
      <3> QED BY <2>1, <3>1, <3>2 DEF Searched, Searching
    <2>6. Ended'
      BY <1>1, <1>2 DEF Ended, EveryCasePassed, None
    <2> QED BY <2>2, <2>3, <2>4, <2>5, <2>6 DEF IInv
  <1> QED BY <1>6, <1>7

-------------------------------------------------------------------------------
(* The pipeline.                                                           *)

LEMMA PrintedTail ==
  ASSUME NEW S, NEW chunks \in Seq(S), chunks # << >>, Printed(chunks)
  PROVE  /\ Tail(chunks) \in Seq(S) /\ Printed(Tail(chunks))
         /\ Head(chunks) \in S
         /\ \E j \in 1..Len(fate.output) : Head(chunks) = fate.output[j]
  <1>1. Len(chunks) \in Nat \ {0} /\ Head(chunks) = chunks[1]
    BY EmptySeq
  <1>2. /\ Tail(chunks) \in Seq(S) /\ Len(Tail(chunks)) = Len(chunks) - 1
        /\ Head(chunks) \in S
        /\ \A i \in 1..Len(Tail(chunks)) : Tail(chunks)[i] = chunks[i + 1]
    BY HeadTailProperties
  <1>3. \A k \in 1..Len(chunks) : \E j \in 1..Len(fate.output) : chunks[k] = fate.output[j]
    BY DEF Printed
  <1>4. Printed(Tail(chunks))
    <2>1. \A k \in 1..Len(Tail(chunks)) : k + 1 \in 1..Len(chunks)
      BY <1>1, <1>2
    <2>2. ASSUME NEW k \in 1..Len(Tail(chunks))
          PROVE  \E j \in 1..Len(fate.output) : Tail(chunks)[k] = fate.output[j]
      <3>1. Tail(chunks)[k] = chunks[k + 1]
        BY <1>2
      <3>2. k + 1 \in 1..Len(chunks)
        BY <2>1
      <3> QED BY <1>3, <3>1, <3>2
    <2> QED BY <2>2 DEF Printed
  <1>5. \E j \in 1..Len(fate.output) : Head(chunks) = fate.output[j]
    <2>1. 1 \in 1..Len(chunks)
      BY <1>1
    <2> QED BY <1>1, <1>3, <2>1
  <1> QED BY <1>2, <1>4, <1>5

LEMMA PrintedAppend ==
  ASSUME NEW S, NEW chunks \in Seq(S), Printed(chunks), NEW c \in S,
         \E j \in 1..Len(fate.output) : c = fate.output[j]
  PROVE  Append(chunks, c) \in Seq(S) /\ Printed(Append(chunks, c))
  BY AppendProperties, LenProperties DEF Printed

\* What a step of the pipeline does to everything but the searched chunks.
LEMMA PipelineInvariant ==
  ASSUME IInv, Searching,
         UNCHANGED << config, bundle, phase, script, fate, results, exit_code >>,
         printf' \in Seq(SUBSET (Text \cup {Failure})),
         pipe' \in Seq(SUBSET (Text \cup {Failure})),
         grep' \in {"reading", "found", "missed"}, killed' \in BOOLEAN,
         phase = "expected" =>
           /\ Printed(printf)' /\ Printed(pipe)'
           /\ grep' = "found" => Prints(fate.output, config.cases[at].success)
  PROVE  IInv'
  <1>1. TypeOK'
    BY ArchiveFrame DEF IInv, TypeOK, script, results
  <1>2. Validated'
    BY ArchiveFrame DEF IInv, Validated, OnDevice, script
  <1>3. Counted'
    <2>1. \A i : Succeeded(i)' <=> Succeeded(i)
      BY DEF Succeeded, results
    <2> QED BY <2>1, ArchiveFrame DEF IInv, Counted, OnDevice, script
  <1>4. Searched'
    BY DEF IInv, Searched, Searching, script, results
  <1>5. Ended'
    BY DEF IInv, Ended, EveryCasePassed, results
  <1> QED BY <1>1, <1>2, <1>3, <1>4, <1>5 DEF IInv

LEMMA PrintfWritesInvariant == ASSUME IInv, PrintfWrites PROVE IInv'
  <1>1. /\ Searching /\ printf # << >> /\ grep = "reading"
        /\ printf' = Tail(printf) /\ pipe' = Append(pipe, Head(printf))
        /\ UNCHANGED << config, bundle, phase, script, fate, grep, killed, results, exit_code >>
    BY DEF PrintfWrites
  <1>2. /\ printf \in Seq(SUBSET (Text \cup {Failure}))
        /\ pipe \in Seq(SUBSET (Text \cup {Failure}))
        /\ grep \in {"reading", "found", "missed"} /\ killed \in BOOLEAN
    BY DEF IInv, TypeOK
  <1>3. /\ printf' \in Seq(SUBSET (Text \cup {Failure}))
        /\ pipe' \in Seq(SUBSET (Text \cup {Failure}))
    BY <1>1, <1>2, HeadTailProperties, AppendProperties
  <1>4. ASSUME phase = "expected" PROVE Printed(printf)' /\ Printed(pipe)'
    <2>1. Printed(printf) /\ Printed(pipe)
      BY <1>4 DEF IInv, Searched
    <2>2. Printed(Tail(printf)) /\ Printed(Append(pipe, Head(printf)))
      BY <1>1, <1>2, <2>1, PrintedTail, PrintedAppend
    <2> QED BY <1>1, <2>2 DEF Printed
  <1> QED BY <1>1, <1>2, <1>3, <1>4, PipelineInvariant

LEMMA PrintfKilledInvariant == ASSUME IInv, PrintfKilled PROVE IInv'
  <1>1. /\ Searching /\ printf' = << >> /\ killed' = TRUE
        /\ UNCHANGED << config, bundle, phase, script, fate, pipe, grep, results, exit_code >>
    BY DEF PrintfKilled
  <1>2. /\ << >> \in Seq(SUBSET (Text \cup {Failure})) /\ Len(<< >>) = 0
        /\ pipe \in Seq(SUBSET (Text \cup {Failure}))
        /\ grep \in {"reading", "found", "missed"}
    BY EmptySeq DEF IInv, TypeOK
  <1>3. phase = "expected" =>
          /\ Printed(printf)' /\ Printed(pipe)'
          /\ grep' = "found" => Prints(fate.output, config.cases[at].success)
    BY <1>1, <1>2 DEF IInv, Searched, Printed
  <1> QED BY <1>1, <1>2, <1>3, PipelineInvariant

LEMMA GrepReadsInvariant == ASSUME IInv, GrepReads PROVE IInv'
  <1>1. /\ Searching /\ pipe # << >> /\ grep = "reading"
        /\ grep' = IF Matches(Head(pipe)) THEN "found" ELSE "reading"
        /\ pipe' = Tail(pipe)
        /\ UNCHANGED << config, bundle, phase, script, fate, printf, killed, results, exit_code >>
    BY DEF GrepReads
  <1>2. /\ printf \in Seq(SUBSET (Text \cup {Failure}))
        /\ pipe \in Seq(SUBSET (Text \cup {Failure})) /\ killed \in BOOLEAN
    BY DEF IInv, TypeOK
  <1>3. Tail(pipe) \in Seq(SUBSET (Text \cup {Failure}))
    BY <1>1, <1>2, HeadTailProperties
  <1>4. ASSUME phase = "expected" PROVE Printed(printf)' /\ Printed(pipe)'
    <2>1. Printed(printf) /\ Printed(pipe)
      BY <1>4 DEF IInv, Searched
    <2>2. Printed(Tail(pipe))
      BY <1>1, <1>2, <2>1, PrintedTail
    <2> QED BY <1>1, <2>1, <2>2 DEF Printed
  <1>5. ASSUME phase = "expected", grep' = "found"
        PROVE  Prints(fate.output, config.cases[at].success)
    <2>1. Printed(pipe)
      BY <1>5 DEF IInv, Searched
    <2>2. PICK j \in 1..Len(fate.output) : Head(pipe) = fate.output[j]
      BY <1>1, <1>2, <2>1, PrintedTail
    <2>3. Expected(Here) \in Head(pipe)
      BY <1>1, <1>5 DEF Matches
    <2>4. Expected(Here) = config.cases[at].success
      BY <1>5, Accepted, RowsOfCases DEF IInv, Counted, Here
    <2> QED BY <2>2, <2>3, <2>4 DEF Prints
  <1>6. grep' \in {"reading", "found", "missed"}
    BY <1>1
  <1> QED BY <1>1, <1>2, <1>3, <1>4, <1>5, <1>6, PipelineInvariant

LEMMA GrepEndsInvariant == ASSUME IInv, GrepEnds PROVE IInv'
  <1>1. /\ Searching /\ grep' = "missed"
        /\ UNCHANGED << config, bundle, phase, script, fate, printf, pipe, killed, results,
                        exit_code >>
    BY DEF GrepEnds
  <1>2. /\ printf \in Seq(SUBSET (Text \cup {Failure}))
        /\ pipe \in Seq(SUBSET (Text \cup {Failure})) /\ killed \in BOOLEAN
    BY DEF IInv, TypeOK
  <1>3. phase = "expected" => Printed(printf)' /\ Printed(pipe)'
    BY <1>1 DEF IInv, Searched, Printed
  <1> QED BY <1>1, <1>2, <1>3, PipelineInvariant

-------------------------------------------------------------------------------
(* The end of a search, and of the script.                                 *)

LEMMA SuccessMarkerInvariant == ASSUME IInv, SuccessMarkerSearched PROVE IInv'
  <1>1. /\ phase = "expected" /\ PipelineDone
        /\ UNCHANGED << config, bundle, validate_only, case_count, fate, outcome, exit_code >>
    BY DEF SuccessMarkerSearched
  <1>2. outcome \in [1..Len(Rows) ->
                       [code : Codes \cup {None, TimedOut}, output : Outputs \cup {<< >>}]]
    BY DEF IInv, TypeOK
  <1>3. CASE ~ Found
    <2>1. /\ Verdict("did not print") /\ failures' = failures + 1 /\ passed' = passed
          /\ UNCHANGED pipeline
      BY <1>3 DEF SuccessMarkerSearched, Failed
    <2> QED BY <1>1, <1>2, <2>1, VerdictInvariant DEF Words
  <1>4. CASE Found
    <2>1. /\ phase' = "marker" /\ printf' = fate.output /\ pipe' = << >>
          /\ grep' = "reading" /\ killed' = FALSE
          /\ UNCHANGED << at, failures, passed, verdict >>
      BY <1>4 DEF SuccessMarkerSearched, Search
    <2>2. TypeOK'
      BY <1>1, <2>1, ChunksTyped, ArchiveFrame DEF IInv, TypeOK
    <2>3. Validated'
      BY <1>1, <2>1, ArchiveFrame DEF IInv, Validated, OnDevice
    <2>4. Counted'
      BY <1>1, <2>1, ArchiveFrame DEF IInv, Counted, OnDevice, Succeeded
    <2>5. Searched'
      BY <1>1, <1>4, <2>1 DEF IInv, Searched, Searching, Found
    <2>6. Ended'
      BY <1>1, <2>1 DEF IInv, Ended, EveryCasePassed, None
    <2> QED BY <2>2, <2>3, <2>4, <2>5, <2>6 DEF IInv
  <1> QED BY <1>3, <1>4

LEMMA FailureMarkerInvariant == ASSUME IInv, FailureMarkerSearched PROVE IInv'
  <1>1. /\ phase = "marker"
        /\ UNCHANGED << config, bundle, validate_only, case_count, fate, pipeline, outcome,
                        exit_code >>
    BY DEF FailureMarkerSearched
  <1>2. outcome \in [1..Len(Rows) ->
                       [code : Codes \cup {None, TimedOut}, output : Outputs \cup {<< >>}]]
    BY DEF IInv, TypeOK
  <1>3. Succeeded(at)
    BY <1>1 DEF IInv, Searched, Searching, Succeeded
  <1>4. CASE Failed("printed a failure marker")
    BY <1>1, <1>2, <1>4, VerdictInvariant DEF Failed, Words
  <1>5. CASE Verdict("passed") /\ passed' = passed + 1 /\ UNCHANGED failures
    BY <1>1, <1>2, <1>3, <1>5, VerdictInvariant DEF Words
  <1> QED BY <1>4, <1>5 DEF FailureMarkerSearched

LEMMA SummaryInvariant == ASSUME IInv, Summary PROVE IInv'
  <1>1. /\ phase = "run" /\ at > Len(Rows) /\ phase' = "exit"
        /\ exit_code' = IF failures # 0 THEN 1 ELSE 0
        /\ UNCHANGED << config, bundle, script, fate, pipeline, results >>
    BY DEF Summary, Exit
  <1>2. Cases \in Nat /\ at = Cases + 1
    BY <1>1, Accepted
  <1>3. TypeOK'
    BY <1>1, ArchiveFrame DEF IInv, TypeOK, script, pipeline, results
  <1>4. Validated' /\ Counted' /\ Searched'
    BY <1>1 DEF Validated, Counted, Searched, Searching, OnDevice
  <1>5. Ended'
    <2>1. ASSUME exit_code' = 0, NEW i \in 1..Cases PROVE Packed(i) /\ Succeeded(i)
      BY <1>1, <1>2, <2>1 DEF IInv, Validated, Counted, OnDevice
    <2> QED BY <1>1, <2>1 DEF Ended, EveryCasePassed, Packed, Succeeded, Cases, results
  <1> QED BY <1>3, <1>4, <1>5 DEF IInv

LEMMA StutterInvariant == ASSUME IInv, UNCHANGED vars PROVE IInv'
  <1> USE DEF vars, script, pipeline, results
  <1>1. TypeOK'
    BY ArchiveFrame DEF IInv, TypeOK
  <1>2. Validated'
    BY ArchiveFrame DEF IInv, Validated, OnDevice
  <1>3. Counted'
    BY ArchiveFrame DEF IInv, Counted, OnDevice, Succeeded
  <1>4. Searched'
    BY DEF IInv, Searched, Searching, Printed
  <1>5. Ended'
    BY DEF IInv, Ended, EveryCasePassed
  <1> QED BY <1>1, <1>2, <1>3, <1>4, <1>5 DEF IInv

LEMMA StepInvariant == IInv /\ [Next]_vars => IInv'
  <1> SUFFICES ASSUME IInv, [Next]_vars PROVE IInv'
    OBVIOUS
  <1>1. CASE CaseReturns
    <2>1. fate.code \in Codes \cup {None, TimedOut} /\ CaseEnds(fate.code)
      BY <1>1, ChunksTyped DEF IInv, CaseReturns
    <2> QED BY <2>1, CaseEndsInvariant
  <1>2. CASE CaseTimesOut
    BY <1>2, CaseEndsInvariant DEF CaseTimesOut
  <1> QED BY <1>1, <1>2, CheckInvariant, BuildInvariant, ValidateRowInvariant,
             ScriptFailsInvariant, ValidationEndsInvariant, StartCaseInvariant,
             PrintfWritesInvariant, PrintfKilledInvariant, GrepReadsInvariant,
             GrepEndsInvariant, SuccessMarkerInvariant, FailureMarkerInvariant,
             SummaryInvariant, StutterInvariant DEF Next, Progress

-------------------------------------------------------------------------------
\* The script's and the CI's state keeps its types.
THEOREM TypesHold == Spec => []TypeOK
  <1>1. IInv => TypeOK
    BY DEF IInv
  <1> QED BY <1>1, InitInvariant, StepInvariant, PTL DEF Spec

\* The CI ends with status 0 only if every case of cases.json ran with its own
\* assets, returned 0 and printed its own success marker.
THEOREM StatusIsEarned == Spec => []EveryCasePassed
  <1>1. IInv => EveryCasePassed
    BY DEF IInv, Ended
  <1> QED BY <1>1, InitInvariant, StepInvariant, PTL DEF Spec

\* The cases the validating loop counted are those the script reports as passed
\* or failed.
THEOREM CountsAddUp == Spec => []CountsAgree
  <1>1. IInv => CountsAgree
    <2> SUFFICES ASSUME IInv, phase = "run", at > Len(Rows)
                 PROVE  case_count = Len(config.cases) /\ passed + failures = case_count
      BY DEF CountsAgree
    <2>1. Cases \in Nat /\ at = Cases + 1
      BY Accepted
    <2> QED BY <2>1 DEF IInv, Validated, Counted, OnDevice, Cases
  <1> QED BY <1>1, InitInvariant, StepInvariant, PTL DEF Spec
===============================================================================
