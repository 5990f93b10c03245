-------------------------------- MODULE CiCases --------------------------------
(***************************************************************************)
(* The allowlist of device tests, .github/ci/cases.json: what check_cases.py *)
(* accepts, the manifest the CI's CMakeLists.txt writes from it, and the    *)
(* fields run_device_tests.sh reads back.  The shell splits a row at runs   *)
(* of tabs, so an empty field vanishes and the later ones move up.          *)
(*                                                                         *)
(* A configuration is [well_formed, samples, cases]: whether schema, keys  *)
(* and architecture are what check_cases.py asks for, the samples          *)
(* [source, binary_dir], and the cases of all of them in order, [sample,   *)
(* target, success, description, assets].                                  *)
(***************************************************************************)
EXTENDS Integers, Sequences, FiniteSets

CONSTANTS
  Text,      \* the texts of cases.json
  Empty,     \* the text of no characters
  Blank,     \* texts of nothing but white space
  Safe,      \* texts that SAFE_NAME matches
  Climbing,  \* texts with a "/" or a ".."
  Pieces,    \* [Text -> Seq(Text)]: what splitting a text at its tabs leaves
  AssetsOf,  \* [Text -> Seq(Text)]: the names in a list of assets
  Declares   \* [sources -> SUBSET Text]: the targets of a sample's CMakeLists.txt

ASSUME TextAssumption ==
  /\ Empty \in Blank /\ Blank \cup Safe \cup Climbing \subseteq Text
  /\ Pieces \in [Text -> Seq(Text)] /\ Pieces[Empty] = << >>
  /\ \A t \in Safe : Pieces[t] = << t >> /\ t \notin Blank
  /\ AssetsOf \in [Text -> Seq(Text)] /\ AssetsOf[Empty] = << >>
  /\ \A t \in Text : (\A k \in 1..Len(AssetsOf[t]) : AssetsOf[t][k] \in Safe) =>
       Pieces[t] = IF t = Empty THEN << >> ELSE << t >>

\* A case of cases.json.
Entry ==
  [sample : Nat, target : Text, success : Text, description : Text, assets : Text]

\* safe_text without its rule that the text is not blank.
safe_text_or_blank(t) == Len(Pieces[t]) <= 1

\* Not blank, and no tab or line break in it.
safe_text(t) == t \notin Blank /\ Pieces[t] = << t >>

SampleChecked(sample) ==
  /\ sample.source \in DOMAIN Declares
  /\ sample.binary_dir \in Safe

CaseChecked(case, source) ==
  /\ case.target \in Safe /\ case.target \in Declares[source]
  /\ safe_text(case.success) /\ safe_text(case.description)
  /\ \A k \in 1..Len(AssetsOf[case.assets]) : AssetsOf[case.assets][k] \in Safe

\* The k-th asset of case i, over all cases.
AssetPlaces(cases) ==
  UNION { {i} \X (1..Len(AssetsOf[cases[i].assets])) : i \in 1..Len(cases) }

AssetAt(cases, p) == AssetsOf[cases[p[1]].assets][p[2]]

\* check_cases.py ends with status 0.
Checked(config) ==
  LET samples == config.samples
      cases   == config.cases
      places  == AssetPlaces(cases)
  IN  /\ config.well_formed /\ samples # << >>
      /\ \A s \in 1..Len(samples) : /\ SampleChecked(samples[s])
                                    /\ \E i \in 1..Len(cases) : cases[i].sample = s
      /\ \A i \in 1..Len(cases) : CaseChecked(cases[i], samples[cases[i].sample].source)
      /\ \A s, u \in 1..Len(samples) : samples[s].binary_dir = samples[u].binary_dir => s = u
      /\ \A i, j \in 1..Len(cases) : cases[i].target = cases[j].target => i = j
      /\ \A p, q \in places : AssetAt(cases, p) = AssetAt(cases, q) => p = q

\* A row of ci-cases.tsv, as "read" splits it.
Row(case) ==
  Pieces[case.target] \o Pieces[case.success] \o Pieces[case.description]
    \o Pieces[case.assets]

Manifest(config) == [i \in 1..Len(config.cases) |-> Row(config.cases[i])]

\* IFS=$'\t' read -r binary expected description assets: the last takes the rest.
Field(row, k) ==
  IF Len(row) < k THEN Empty
  ELSE IF k < 4 \/ Len(row) = 4 THEN row[k]
  ELSE CHOOSE t \in Text : Pieces[t] = SubSeq(row, 4, Len(row))

Binary(row)      == Field(row, 1)
Expected(row)    == Field(row, 2)
Description(row) == Field(row, 3)
Assets(row)      == Field(row, 4)
===============================================================================
