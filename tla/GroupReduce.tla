------------------------------ MODULE GroupReduce ------------------------------
(***************************************************************************)
(* cooperative_sync.hg, block_groups_reduction: a block sums the ranks of  *)
(* its threads with tree_sum, then every tile sums the ranks of its own,   *)
(* all in one shared array.                                                *)
(*                                                                         *)
(* Here threads run one by one: a group's sync lets a thread pass when     *)
(* every member of the group has arrived.  reg is each thread's            *)
(* [phase, pc, span, seed, gathered]: the reduction it is in, what it does *)
(* after the sync it waits at, tree_sum's locals, and what its calls of    *)
(* tree_sum returned.  smem is the shared array.                           *)
(***************************************************************************)
EXTENDS DeviceKernel, Sequences

CONSTANTS BlockSize, TileSize

\* tree_sum halves a group until one thread has the sum: 64 threads, and 16.
SizesAssumption ==
  /\ BlockSize \in Nat /\ TileSize \in Nat \ {0, 1}
  /\ BlockSize >= TileSize /\ BlockSize % TileSize = 0
  /\ \E j \in 1..BlockSize : 2^j = BlockSize
  /\ \E j \in 1..TileSize : 2^j = TileSize

Thread == 0..BlockSize - 1

Garbage == -1000  \* what shared memory holds before it is written

Init ==
  /\ host = "groups" /\ gmem = << >>
  /\ reg = [t \in Thread |-> [phase |-> "block", pc |-> "store", span |-> BlockSize \div 2,
                              seed |-> t, gathered |-> << >>]]
  /\ smem = [t \in Thread |-> Garbage]
  /\ round = [t \in Thread |-> 0]

InTile(t) == reg[t].phase = "tile"

Members(t) ==
  IF InTile(t) THEN { u \in Thread : u \div TileSize = t \div TileSize } ELSE Thread

Rank(t) == IF InTile(t) THEN t % TileSize ELSE t

\* The element of the array that is the thread's own.
Slot(t) == IF InTile(t) THEN (t - (t % TileSize)) + Rank(t) ELSE Rank(t)

\* The sync the thread waits at is complete.
GroupSynced(t) == \A u \in Members(t) : round[u] >= round[t]

At(t, label) == reg[t].pc = label /\ GroupSynced(t)

Store(t) ==
  /\ At(t, "store")
  /\ smem' = [smem EXCEPT ![Slot(t)] = reg[t].seed]
  /\ reg' = [reg EXCEPT ![t].pc = "add"]
  /\ Arrive(t)
  /\ UNCHANGED << host, gmem >>

Reads(t) == reg[t].pc = "add" /\ Rank(t) < reg[t].span

\* The threads of the upper half take the -1 they will return.
SumOrMinusOne(t) == IF Reads(t) THEN reg[t].seed + smem[Slot(t) + reg[t].span] ELSE -1

Sum(t) == IF Reads(t) THEN reg[t].seed + smem[Slot(t) + reg[t].span] ELSE reg[t].seed

\* The sum, and on to the loop's next span or out of it.
Added(t) ==
  [reg EXCEPT ![t].seed = Sum(t), ![t].span = @ \div 2,
              ![t].pc = IF reg[t].span \div 2 > 0 THEN "store" ELSE "return"]

\* The loop goes on without the sync at its end.
AddWithoutSync(t) ==
  /\ At(t, "add")
  /\ reg' = Added(t)
  /\ IF reg[t].span \div 2 > 0 THEN UNCHANGED round ELSE Arrive(t)
  /\ UNCHANGED << host, gmem, smem >>

\* The sync between the stores and the sums left out.
AddBeforeSync(t) ==
  /\ reg[t].pc = "add"
  /\ reg' = Added(t)
  /\ Arrive(t)
  /\ UNCHANGED << host, gmem, smem >>

\* The sync moved into the branch: only the threads that sum arrive.
AddSyncInBranch(t) ==
  /\ At(t, "add")
  /\ reg' = Added(t)
  /\ IF Reads(t) THEN Arrive(t) ELSE UNCHANGED round
  /\ UNCHANGED << host, gmem, smem >>

Add(t) ==
  /\ At(t, "add")
  /\ reg' = Added(t)
  /\ Arrive(t)
  /\ UNCHANGED << host, gmem, smem >>

\* tree_sum returns; after the block's call comes block.sync.
Return(t) ==
  /\ At(t, "return")
  /\ reg' = [reg EXCEPT ![t].gathered = Append(@, IF Rank(t) = 0 THEN reg[t].seed ELSE -1),
                        ![t].pc = IF InTile(t) THEN "done" ELSE "split"]
  /\ IF InTile(t) THEN UNCHANGED round ELSE Arrive(t)
  /\ UNCHANGED << host, gmem, smem >>

\* tiled_partition, and the second call of tree_sum.
Split(t) ==
  /\ At(t, "split")
  /\ reg' = [reg EXCEPT ![t].phase = "tile", ![t].seed = t % TileSize,
                        ![t].span = TileSize \div 2, ![t].pc = "store"]
  /\ UNCHANGED << host, gmem, smem, round >>

Next == \E t \in Thread : Store(t) \/ Add(t) \/ Return(t) \/ Split(t)

Safety == Init /\ [][Next]_machine

\* The hardware schedules every thread of a resident block.
Spec == Safety /\ \A t \in Thread : WF_machine(Store(t) \/ Add(t) \/ Return(t) \/ Split(t))
-------------------------------------------------------------------------------
TypeOK ==
  /\ reg \in [Thread -> [phase : {"block", "tile"}, span : 0..BlockSize, seed : Nat,
                         pc : {"store", "add", "return", "split", "done"},
                         gathered : Seq(Nat \cup {-1})]]
  /\ round \in [Thread -> Nat]
  /\ DOMAIN smem = Thread

\* No thread may store to an element of the array that another may be reading:
\* the two syncs of a level separate its stores, its sums and the next level's
\* stores, and the tiles use disjoint parts of the array.
NoRace ==
  \A t, u \in Thread :
    t # u /\ At(t, "store") /\ Reads(u) /\ GroupSynced(u) => Slot(t) # Slot(u) + reg[u].span

SumOfRanks(size) == (size * (size - 1)) \div 2

\* Rank 0 of the block, and of each tile, gets the sum of its group's ranks;
\* every other thread gets -1.
GroupSums ==
  \A t \in Thread : \A i \in 1..Len(reg[t].gathered) :
    LET size == << BlockSize, TileSize >>[i] IN
      reg[t].gathered[i] = IF t % size = 0 THEN SumOfRanks(size) ELSE -1

Ended == \A t \in Thread : reg[t].pc = "done"

\* No thread is left waiting in a sync.
Terminates == <>Ended
===============================================================================
