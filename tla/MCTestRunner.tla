----------------------------- MODULE MCTestRunner -----------------------------
(* Small instances of TestRunner for TLC. *)
EXTENDS TestRunner, TLC

\* "a1" and "a2" are two builds of one sample, in different directories.
MCExe  == {"a1", "a2", "b"}
MCName == [e \in MCExe |-> IF e = "b" THEN "b" ELSE "a"]

Runs(kinds)   == [Unlisted EXCEPT !.runs = kinds]
Multi(n)      == Runs([i \in 1..n |-> "list"])

\* Passed, waived (EXIT_SKIPPED), killed by SIGSEGV.
PoolCodes == {0, 2, -11}

\* Every way an entry selects, hides or drops runs.  At most three runs at once:
\* two of "b" and one of "a", or one of each build of "a".
PoolEntries ==
  { Runs(<< "skip", "list", "notalist" >>), [Unlisted EXCEPT !.skip = TRUE],
    [Unlisted EXCEPT !.skip_arch = {"ppu0015"}], [Unlisted EXCEPT !.min_ppus = 2],
    [Unlisted EXCEPT !.args = "notalist"], [Multi(1) EXCEPT !.args = "list"] }
PoolFound   == { << >>, << "b" >>, << "a1", "b" >>, << "a1", "a2" >> }
PoolConfigs == { << >>, "b" :> Multi(2) } \cup { "a" :> x : x \in PoolEntries }

\* Every run of the only listed executable is marked "skip".
SkipConfigs == { "a" :> Runs(<< "skip", "skip" >>), "a" :> Runs(<< "skip", "list" >>) }
===============================================================================
