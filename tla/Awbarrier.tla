------------------------------ MODULE Awbarrier -------------------------------
(***************************************************************************)
(* The device's arrive-wait barrier, as the kernels use it: it counts the  *)
(* arrivals that are due in a phase, and the last of them ends the phase.  *)
(* cp.async.awbar.arrive makes one more due, for when the copies that the  *)
(* thread has issued so far are done.  None of it is in this repository.   *)
(***************************************************************************)
EXTENDS Integers

\* awbar.arrive: the last arrival that is due ends the phase.
Arrived(bar, count) ==
  IF bar.pending = 1 THEN [phase |-> bar.phase + 1, pending |-> count]
                     ELSE [phase |-> bar.phase, pending |-> bar.pending - 1]

\* cp.async.awbar.arrive: one more arrival is due, when the copies so far are done.
Expecting(bar) == [phase |-> bar.phase, pending |-> bar.pending + 1]
===============================================================================
