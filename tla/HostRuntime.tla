------------------------------ MODULE HostRuntime ------------------------------
(***************************************************************************)
(* The state of a sample whose host side is what matters, and what it      *)
(* relies on of the HGGC runtime, which is not in this repository: main    *)
(* and its threads run concurrently; what a stream is given runs in order, *)
(* some time later.  A call that fails and is wrapped in checkHggcErrors   *)
(* ends the process.                                                       *)
(***************************************************************************)
EXTENDS Integers, Sequences

VARIABLES
  main,    \* where main is, and its locals; main.exit is the process's status
  thread,  \* the same of each thread it starts
  stream,  \* what each stream has yet to run
  res      \* the resources the runtime has handed out

machine == << main, thread, stream, res >>

Running == main.exit = "none"

Enqueued(s, op) == [stream EXCEPT ![s] = Append(@, op)]

Popped(s) == [stream EXCEPT ![s] = Tail(@)]

Pending(s, op) == \E i \in 1..Len(stream[s]) : stream[s][i] = op
===============================================================================
