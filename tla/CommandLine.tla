------------------------------ MODULE CommandLine ------------------------------
(***************************************************************************)
(* helper_string.h: how samples read their command line.  An argument is   *)
(* [dashes, name, value]: the dashes before the name, the name, and the    *)
(* number after "=", or None.  Of the strings only what the functions      *)
(* compare is kept: whether a name is one letter long, and its lower case. *)
(* No option of a sample is the beginning of another one's name, so a      *)
(* prefix that matches is the name.                                        *)
(***************************************************************************)
EXTENDS Integers, Sequences

CONSTANTS
  OptionName,
  None,
  Letters,  \* the names of one letter
  Lower     \* [OptionName -> OptionName]: the name in lower case

LineAssumption ==
  /\ None \notin Int /\ Letters \subseteq OptionName
  /\ Lower \in [OptionName -> OptionName]

Argument == [dashes : Nat, name : OptionName, value : Int \cup {None}]

\* skip_leading: the dashes stay if at most one character follows them.
DashesSkipped(arg) == arg.dashes = 0 \/ ~ (arg.name \in Letters /\ arg.value = None)

\* The comparisons ignore case.
Names(arg, name) == DashesSkipped(arg) /\ Lower[arg.name] = Lower[name]

hasArg(args, name) == \E i \in 1..Len(args) : Names(args[i], name)

\* find_argument, for the key "name" or "name=".
Matched(args, name, needs_value) ==
  { i \in 1..Len(args) : Names(args[i], name) /\ (needs_value => args[i].value # None) }

First(S) == CHOOSE i \in S : \A j \in S : i <= j

\* getArgInt: 0 if there is no such argument, or no value.
getArgInt(args, name, needs_value) ==
  LET found == Matched(args, name, needs_value) IN
    IF found = {} \/ args[First(found)].value = None THEN 0 ELSE args[First(found)].value
===============================================================================
