------------------------------ MODULE TwoPassScan ------------------------------
(***************************************************************************)
(* stream_compact.hg, the third strategy: compact_scan_flags numbers the   *)
(* passing elements of each block with a scan in shared memory, main adds  *)
(* up the blocks' totals, compact_scan_scatter stores each element at its  *)
(* block's prefix plus its number.  The output keeps the order.            *)
(*                                                                         *)
(* host is [stage, prime, total]; gmem is [flags, block_sums,              *)
(* block_prefixes, output]; smem is each block's s_scan; reg is val of     *)
(* each thread of a warp.                                                  *)
(***************************************************************************)
EXTENDS DeviceKernel, FiniteSets

CONSTANTS N, Block

SizesAssumption ==
  /\ N \in Nat \ {0} /\ Block \in Nat \ {0} /\ WarpSize \in Nat \ {0}
  /\ Block % WarpSize = 0
  /\ \E k \in 0..Block : 2^k = Block

Index    == 0..N - 1
GridSize == CeilDiv(N, Block)   \* GRID
Blocks   == 0..GridSize - 1
Thread   == 0..Block - 1

Unwritten == -1

Init ==
  /\ host \in [stage : {"flags"}, prime : SUBSET Index, total : {0}]
  /\ gmem = [flags |-> [i \in Index |-> Unwritten], output |-> [i \in Index |-> Unwritten],
             block_sums     |-> [b \in Blocks |-> Unwritten],
             block_prefixes |-> [b \in Blocks |-> Unwritten]]
  /\ smem = [b \in Blocks |-> [t \in Thread |-> Unwritten]]
  /\ round = Launched(GridSize, Block \div WarpSize)
  /\ reg = [w \in Warps |-> [t \in Lanes(w) |-> 0]]

IndexOf(w, t) == w[1] * Block + t

Flag(w, t) == IF IndexOf(w, t) \in host.prime THEN 1 ELSE 0

Turn(w, rounds) == host.stage = "flags" /\ round[w] \in rounds /\ Synced(w) /\ Arrive(w)

\* The loop over offsets: a round that reads and a round that adds for each.
LastRound == 2 * Log2(Block) + 1
ReadRounds == { r \in 1..LastRound - 1 : r % 2 = 1 }
AddRounds  == { r \in 1..LastRound - 1 : r % 2 = 0 }
Offset(w) == 2^((round[w] - 1) \div 2)

\* The block's shared array after a warp's lanes stored value.
Shared(w, value) ==
  [smem EXCEPT ![w[1]] = [t \in Thread |-> IF t \in Lanes(w) THEN value[t] ELSE @[t]]]

Flags(w) == [t \in Lanes(w) |-> Flag(w, t)]

\* Threads past the end return at once.
StoreFlagOrReturn(w) ==
  /\ Turn(w, {0}) /\ \A t \in Lanes(w) : IndexOf(w, t) < N
  /\ smem' = Shared(w, Flags(w))
  /\ UNCHANGED << host, gmem, reg >>

StoreFlag(w) ==
  /\ Turn(w, {0})
  /\ smem' = Shared(w, Flags(w))
  /\ UNCHANGED << host, gmem, reg >>

ReadBelow(w) ==
  /\ Turn(w, ReadRounds)
  /\ reg' = [reg EXCEPT ![w] =
               [t \in Lanes(w) |-> IF t >= Offset(w) THEN smem[w[1]][t - Offset(w)] ELSE 0]]
  /\ UNCHANGED << host, gmem, smem >>

Sums(w) == [t \in Lanes(w) |-> smem[w[1]][t] + reg[w][t]]

\* The sync between reading and adding left out.
AddBeforeSync(w) ==
  /\ host.stage = "flags" /\ round[w] \in AddRounds /\ Arrive(w)
  /\ smem' = Shared(w, Sums(w))
  /\ UNCHANGED << host, gmem, reg >>

AddBelow(w) ==
  /\ Turn(w, AddRounds)
  /\ smem' = Shared(w, Sums(w))
  /\ UNCHANGED << host, gmem, reg >>

Exclusive(w, t) == smem[w[1]][t] - Flag(w, t)

WriteFlags(w) ==
  /\ Turn(w, {LastRound})
  /\ gmem' = [gmem EXCEPT
       !.flags = [i \in Index |-> LET t == i - w[1] * Block IN
                                  IF t \in Lanes(w) THEN Exclusive(w, t) ELSE @[i]],
       !.block_sums[w[1]] = IF Block - 1 \in Lanes(w) THEN smem[w[1]][Block - 1] ELSE @]
  /\ UNCHANGED << host, smem, reg >>

\* The prefix sums of the block totals that main computes.
HostPrefix ==
  LET sum[b \in 0..GridSize] == IF b = 0 THEN 0 ELSE sum[b - 1] + gmem.block_sums[b - 1]
  IN  sum

AddUpBlocks ==
  /\ host.stage = "flags" /\ KernelEnded(LastRound)
  /\ gmem' = [gmem EXCEPT !.block_prefixes = [b \in Blocks |-> HostPrefix[b]]]
  /\ host' = [host EXCEPT !.total = HostPrefix[GridSize], !.stage = "scatter"]
  /\ round' = Launched(GridSize, Block \div WarpSize)
  /\ UNCHANGED << smem, reg >>

Position(i) == gmem.block_prefixes[i \div Block] + gmem.flags[i]

Scatter(w) ==
  /\ host.stage = "scatter" /\ round[w] = 0 /\ Arrive(w)
  /\ LET mine == { i \in host.prime : i - w[1] * Block \in Lanes(w) } IN
       gmem' = [gmem EXCEPT !.output =
                  [p \in Index |-> IF \E i \in mine : Position(i) = p
                                     THEN CHOOSE i \in mine : Position(i) = p
                                     ELSE @[p]]]
  /\ UNCHANGED << host, smem, reg >>

ReadBack ==
  /\ host.stage = "scatter" /\ KernelEnded(0)
  /\ host' = [host EXCEPT !.stage = "done"]
  /\ UNCHANGED << gmem, smem, reg, round >>

Next ==
  \/ \E w \in Warps : \/ StoreFlag(w) \/ ReadBelow(w) \/ AddBelow(w) \/ WriteFlags(w)
                      \/ Scatter(w)
  \/ AddUpBlocks \/ ReadBack

Safety == Init /\ [][Next]_machine

\* The device runs every warp, and main is not stopped.
Spec == Safety /\ WF_machine(Next)
-------------------------------------------------------------------------------
TypeOK ==
  /\ host \in [stage : {"flags", "scatter", "done"}, prime : SUBSET Index, total : 0..N]
  /\ \A b \in Blocks : \A t \in Thread : smem[b][t] \in -1..Block
  /\ \A w \in Warps : \A t \in Lanes(w) : reg[w][t] \in -1..Block
  /\ gmem \in [flags : [Index -> -1..Block - 1], output : [Index -> Index \cup {Unwritten}],
               block_sums : [Blocks -> -1..Block], block_prefixes : [Blocks -> -1..N]]
  /\ \A w \in Warps : round[w] \in 0..LastRound + 1

Ended == host.stage = "done"

\* validate_ordered: the output is the passing elements in the order of the
\* input, in whatever order the warps of both kernels run.
OrderedOutput ==
  Ended =>
    /\ host.total = Cardinality(host.prime)
    /\ { gmem.output[p] : p \in 0..host.total - 1 } = host.prime
    /\ \A p, q \in 0..host.total - 1 : p < q => gmem.output[p] < gmem.output[q]

\* Both kernels end and main reads the result.
Terminates == <>Ended
===============================================================================
