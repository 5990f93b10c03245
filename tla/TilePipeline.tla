----------------------------- MODULE TilePipeline -----------------------------
(***************************************************************************)
(* What a pipeline of two buffers promises: tiles become available one     *)
(* after the other, every consumer takes every one of them in order, and   *)
(* at no time are more than two held for the slowest consumer.             *)
(***************************************************************************)
EXTENDS Naturals

CONSTANTS Consumers, NumTiles

VARIABLES filled,  \* the number of tiles made available
          taken    \* for each consumer, the number of tiles it is done with

vars == << filled, taken >>

Init ==
  /\ filled = 0
  /\ taken = [c \in Consumers |-> 0]

Fill ==
  /\ filled < NumTiles
  /\ \A c \in Consumers : filled < taken[c] + 2
  /\ filled' = filled + 1
  /\ UNCHANGED taken

Take(c) ==
  /\ taken[c] < filled
  /\ taken' = [taken EXCEPT ![c] = @ + 1]
  /\ UNCHANGED filled

Next == Fill \/ \E c \in Consumers : Take(c)

Spec == Init /\ [][Next]_vars
===============================================================================
