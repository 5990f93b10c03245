---------------------------- MODULE MCDeviceTests ----------------------------
(* Small instances of DeviceTests for TLC. *)
EXTENDS DeviceTests, TLC

\* "a" and "b" are targets, "f" an asset; ".." is a name that SAFE_NAME matches.
\* "ok" and "words" are ordinary texts, "  " is blank, "ok tab" has a tab.
MCText    == {"", "  ", "a", "b", "f", "..", "ok", "words", "ok tab", "f,b"}
MCPieces  == [t \in MCText |-> CASE t = "" -> << >> [] t = "ok tab" -> << "ok", "words" >>
                                 [] OTHER -> << t >>]
MCAssets  == [t \in MCText |-> CASE t = "" -> << >> [] t = "f,b" -> << "f", "b" >>
                                 [] OTHER -> << t >>]

Case(s, target, success, description, assets) ==
  [sample |-> s, target |-> target, success |-> success, description |-> description,
   assets |-> assets]

Samples == << [source |-> "s", binary_dir |-> "a"], [source |-> "t", binary_dir |-> "b"] >>

MCDeclares == [s |-> {"a"}, t |-> {"a", "b"}]

Config(first, second) ==
  [well_formed |-> TRUE, samples |-> Samples, cases |-> << first, second >>]

First == Case(1, "a", "ok", "words", "f")

\* One thing about one of two cases differs from what is accepted.
MCConfigs ==
  { Config(First, Case(2, t, s, d, x)) :
      t \in {"b", "a", ".."}, s \in {"words", "", "ok tab"}, d \in {"ok", "", "  "},
      x \in {"", "..", "f"} }
    \cup { [Config(First, Case(2, "b", "words", "ok", "")) EXCEPT !.well_formed = w,
                !.samples = n] : w \in BOOLEAN, n \in {Samples, << Samples[1], Samples[1] >>} }
    \cup { Config(Case(1, "a", "ok", "", "f"), Case(2, "b", "words", "ok", "")) }

\* One case, more output.
OneCase == { [well_formed |-> TRUE, samples |-> << Samples[1] >>, cases |-> << First >>] }

MCOutputs ==
  { << >>, << {"ok"} >>, << {}, {"words"} >>, << {"words"}, {"ok", Failure} >>,
    << {"ok"}, {"words"}, {} >> }

LongOutputs == { << {"ok"}, {}, {} >>, << {}, {"ok"} >>, << {Failure}, {"ok"}, {} >> }
===============================================================================
