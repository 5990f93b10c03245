----------------------------- MODULE SlicedDispatch -----------------------------
(***************************************************************************)
(* An array cut into slices, one for each device: openmp_ppu_dispatch.hg,  *)
(* where the threads of a team scale slices of one array in place, and     *)
(* mpi_ppu_dispatch.cpp, where ranks get their slice from the root, take   *)
(* its gradient and give it back.                                          *)
(*                                                                         *)
(* External: a team may be smaller than asked for; a rank leaves           *)
(* MPI_Scatter no sooner than the root has come to it, and the root leaves *)
(* MPI_Gather no sooner than all have; MPI_Abort ends all ranks; a copy    *)
(* waits for the kernels of its device.                                    *)
(*                                                                         *)
(* main is [program, exit, team, verdict]; thread is [pc] of each thread   *)
(* or rank; stream is the kernels of its device; res is [host, dev, root]: *)
(* the array's elements, the device's buffers, and which ranks' slices the *)
(* root has.  An element is "none", "input", "result", or "garbage".       *)
(***************************************************************************)
EXTENDS HostRuntime

CONSTANTS NumDevices, PerDevice

SlicesAssumption == NumDevices \in Nat \ {0} /\ PerDevice \in Nat \ {0}

Worker  == 0..NumDevices - 1
Total   == NumDevices * PerDevice
Element == 0..Total - 1

Root == 0

Init ==
  /\ \E program \in {"openmp", "mpi"}, team \in 1..NumDevices :
       /\ main = [program |-> program, exit |-> "none", verdict |-> "none",
                  team |-> IF program = "mpi" THEN NumDevices ELSE team]
       /\ thread = [w \in Worker |-> IF program = "mpi" THEN "scatter" ELSE "malloc"]
       /\ res = [host |-> [i \in Element |-> IF program = "mpi" THEN "none" ELSE "input"],
                 dev |-> [w \in Worker |-> << >>], root |-> {}]
  /\ stream = [w \in Worker |-> << >>]

Team == 0..main.team - 1

slice_len == Total \div main.team

Slice(w) == w * slice_len..(w + 1) * slice_len - 1

At(w, label) == Running /\ w \in Team /\ thread[w] = label

Goto(w, label) == thread' = [thread EXCEPT ![w] = label]

\* A rank has come to, or past, a place.
Past(w, labels) == thread[w] \notin labels

-------------------------------------------------------------------------------
(* MPI                                                                     *)

\* MPI_Scatter of the temperatures the root has made.
Scatter(w) ==
  /\ At(w, "scatter") /\ (w = Root \/ Past(Root, {"scatter"}))
  /\ res' = [res EXCEPT !.host = [i \in Element |-> IF i \in Slice(w) THEN "input" ELSE @[i]]]
  /\ Goto(w, "malloc")
  /\ UNCHANGED << main, stream >>

Computing == {"scatter", "malloc", "upload", "launch", "download", "free"}

\* MPI_Gather: a rank sends its slice; the root waits for those of all.
Gather(w) ==
  /\ At(w, "gather")
  /\ w = Root => \A r \in Team : r = Root \/ Past(r, Computing \cup {"gather"})
  /\ res' = [res EXCEPT !.root = IF w = Root THEN Team ELSE @]
  /\ Goto(w, IF w = Root THEN "verify" ELSE "finalize")
  /\ UNCHANGED << main, stream >>

\* Rank boundaries are passed over, their difference is not central.
Interior == { i \in Element : i % PerDevice \notin {0, PerDevice - 1} }

\* FAIL is printed, and is all that comes of it.
VerifyGradients ==
  /\ At(Root, "verify") /\ main.program = "mpi"
  /\ main' = [main EXCEPT !.verdict =
       IF \A i \in Interior : res.host[i] = "result" THEN "PASS" ELSE "FAIL"]
  /\ Goto(Root, "finalize")
  /\ UNCHANGED << stream, res >>

Finalize ==
  /\ Running /\ main.program = "mpi" /\ \A r \in Team : thread[r] = "finalize"
  /\ main' = [main EXCEPT !.exit = "success"]
  /\ UNCHANGED << thread, stream, res >>

-------------------------------------------------------------------------------
(* compute_gradient of a rank, and the body of the parallel region.        *)

Garbage(w) == [i \in Slice(w) |-> "garbage"]

Malloc(w) ==
  /\ At(w, "malloc")
  /\ res' = [res EXCEPT !.dev[w] = Garbage(w)]
  /\ Goto(w, "upload")
  /\ UNCHANGED << main, stream >>

Upload(w) ==
  /\ At(w, "upload")
  /\ res' = [res EXCEPT !.dev[w] = [i \in Slice(w) |-> res.host[i]]]
  /\ Goto(w, "launch")
  /\ UNCHANGED << main, stream >>

Launch(w) ==
  /\ At(w, "launch")
  /\ stream' = Enqueued(w, "kernel")
  /\ Goto(w, "download")
  /\ UNCHANGED << main, res >>

\* The device runs the kernel.
Kernel(w) ==
  /\ Running /\ stream[w] # << >>
  /\ res' = [res EXCEPT !.dev[w] =
               [i \in Slice(w) |-> IF @[i] = "input" THEN "result" ELSE "garbage"]]
  /\ stream' = Popped(w)
  /\ UNCHANGED << main, thread >>

Download(w) ==
  /\ At(w, "download") /\ stream[w] = << >>
  /\ res' = [res EXCEPT !.host = [i \in Element |-> IF i \in Slice(w) THEN res.dev[w][i]
                                                                     ELSE @[i]]]
  /\ Goto(w, "free")
  /\ UNCHANGED << main, stream >>

FreeBuffer(w) ==
  /\ At(w, "free")
  /\ res' = [res EXCEPT !.dev[w] = << >>]
  /\ Goto(w, IF main.program = "mpi" THEN "gather" ELSE "joined")
  /\ UNCHANGED << main, stream >>

\* verify_result, when the team has joined.
VerifyResult ==
  /\ Running /\ main.program = "openmp" /\ \A w \in Team : thread[w] = "joined"
  /\ LET ok == \A i \in Element : res.host[i] = "result" IN
       main' = [main EXCEPT !.verdict = IF ok THEN "PASS" ELSE "FAIL",
                            !.exit = IF ok THEN "success" ELSE "failure"]
  /\ UNCHANGED << thread, stream, res >>

-------------------------------------------------------------------------------
\* A call fails: the process exits, or the rank aborts all.
ApiFails ==
  /\ Running /\ \E w \in Team : thread[w] # "joined"
  /\ main' = [main EXCEPT !.exit = "error"]
  /\ UNCHANGED << thread, stream, res >>

Step(w) ==
  \/ Scatter(w) \/ Gather(w) \/ Malloc(w) \/ Upload(w) \/ Launch(w) \/ Kernel(w)
  \/ Download(w) \/ FreeBuffer(w)

Progress == VerifyGradients \/ Finalize \/ VerifyResult \/ \E w \in Worker : Step(w)

Next == Progress \/ ApiFails

Spec == Init /\ [][Next]_machine /\ WF_machine(Progress)
-------------------------------------------------------------------------------
Value == {"none", "input", "result", "garbage"}

TypeOK ==
  /\ main \in [program : {"openmp", "mpi"}, exit : {"none", "success", "failure", "error"},
               verdict : {"none", "PASS", "FAIL"}, team : 1..NumDevices]
  /\ thread \in [Worker -> Computing \cup {"gather", "verify", "finalize", "joined"}]
  /\ stream \in [Worker -> Seq({"kernel"})]
  /\ res \in [host : [Element -> Value], root : SUBSET Worker,
              dev : [Worker -> {<< >>} \cup UNION { [Slice(w) -> Value] : w \in Worker }]]
  /\ \A w \in Worker : res.dev[w] \in {<< >>} \cup [Slice(w) -> Value]

\* No element is computed twice, or before it has come: slices do not overlap.
NoForeignAccess == \A i \in Element : res.host[i] # "garbage"

\* Success means that every element was computed and, with MPI, that the root had
\* every slice when it looked; a team too small for the array is a failure.
SuccessIsEarned ==
  main.exit = "success" =>
    /\ \A i \in Element : res.host[i] = "result"
    /\ main.verdict = "PASS"
    /\ main.program = "mpi" => res.root = Worker

\* A team that joined, and ranks that finalised, have freed their buffers.
NothingLeaks ==
  main.exit \in {"success", "failure"} => \A w \in Worker : res.dev[w] = << >>
===============================================================================
