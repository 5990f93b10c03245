----------------------------- MODULE BlellochScan -----------------------------
(***************************************************************************)
(* scan.hg: an exclusive prefix sum in three kernels.  Each block scans    *)
(* two elements per thread by an up-sweep and a down-sweep in shared       *)
(* memory; one block scans the block totals the same way; the last kernel  *)
(* adds each block's prefix.  The host launches them one after another.    *)
(* Sums of unsigned int do not overflow in the sizes main runs.            *)
(*                                                                         *)
(* host is [pass, n]: the kernel that runs (4 when all have ended) and the *)
(* length; gmem is [out, block_sums, block_prefixes].                      *)
(***************************************************************************)
EXTENDS DeviceKernel, FiniteSets

CONSTANTS
  BlockSize,  \* kBlockSize
  Sizes       \* the lengths main scans

SizesAssumption ==
  /\ BlockSize \in Nat \ {0} /\ WarpSize \in Nat \ {0} /\ BlockSize % WarpSize = 0
  /\ Sizes \subseteq Nat \ {0}
  /\ \A size \in Sizes : CeilDiv(size, 2 * BlockSize) <= 2 * BlockSize  \* one block scans the totals
  /\ \E k \in 0..2 * BlockSize : 2^k = 2 * BlockSize

Elems == 2 * BlockSize   \* ELEMS_PER_BLOCK

NumBlocks == CeilDiv(host.n, Elems)

\* The input, different powers of 2: a sum tells which elements it is of.
Input(i) == 2^i

Array(size) == [i \in 0..size - 1 |-> 0]

Shared(blocks) == [b \in 0..blocks - 1 |-> Array(Elems)]

Init ==
  /\ host \in [pass : {1}, n : Sizes]
  /\ gmem = [out |-> Array(host.n), block_sums |-> Array(NumBlocks),
             block_prefixes |-> Array(NumBlocks)]
  /\ smem = Shared(NumBlocks)
  /\ reg = << >>
  /\ round = Launched(NumBlocks, BlockSize \div WarpSize)

\* The elements of the block, and of its part of the array, that a warp's
\* threads load and store.
Own(w) == Lanes(w) \cup { t + BlockSize : t \in Lanes(w) }

-------------------------------------------------------------------------------
(* block_scan_kernel, run in pass 1 and, over the totals, in pass 2        *)

Levels    == Log2(Elems)
UpRound   == 1..Levels
DownRound == Levels + 1..2 * Levels
LastRound == 2 * Levels + 1

Size == IF host.pass = 1 THEN host.n ELSE NumBlocks

Source(i) == IF i >= Size THEN 0 ELSE IF host.pass = 1 THEN Input(i) ELSE gmem.block_sums[i]

\* How many threads take part, and the distance of the elements they combine.
Active(r) == IF r \in UpRound THEN 2^(Levels - r) ELSE 2^(r - Levels - 1)
Offset(r) == IF r \in UpRound THEN 2^(r - 1) ELSE 2^(2 * Levels - r)

\* Neighbours of a level instead of pairs.
NeighbourOf(t, r) == << Offset(r) * (t + 1) - 1, Offset(r) * (t + 2) - 1 >>

\* ai and bi
PairOf(t, r) == << Offset(r) * (2 * t + 1) - 1, Offset(r) * (2 * t + 2) - 1 >>

Pairs(w) == { PairOf(t, round[w]) : t \in { t \in Lanes(w) : t < Active(round[w]) } }

Turn(w, rounds) == host.pass \in {1, 2} /\ round[w] \in rounds /\ Synced(w) /\ Arrive(w)

Loaded(w) == [i \in DOMAIN smem[w[1]] |->
                IF i \in Own(w) THEN Source(w[1] * Elems + i) ELSE smem[w[1]][i]]

\* A warp past the end returns before the syncs.
LoadOrReturn(w) ==
  /\ Turn(w, {0}) /\ \A t \in Lanes(w) : w[1] * Elems + t < Size
  /\ smem' = [smem EXCEPT ![w[1]] = Loaded(w)]
  /\ UNCHANGED << host, gmem, reg >>

Load(w) ==
  /\ Turn(w, {0})
  /\ smem' = [smem EXCEPT ![w[1]] = Loaded(w)]
  /\ UNCHANGED << host, gmem, reg >>

Swept(m, pairs) ==
  [i \in DOMAIN m |-> IF \E p \in pairs : p[2] = i
                        THEN m[i] + m[(CHOOSE p \in pairs : p[2] = i)[1]]
                        ELSE m[i]]

\* The last element is not cleared.
TopNotCleared(m) == m

\* The total cleared before it is saved.
TotalOfCleared(m) == 0

\* Thread 0 saves the block's total in pass 1...
Total(m) == m[Elems - 1]

\* ...and clears the last element.
Cleared(m) == [m EXCEPT ![Elems - 1] = 0]

UpSweep(w) ==
  /\ Turn(w, UpRound)
  /\ LET swept == Swept(smem[w[1]], Pairs(w))
         top   == round[w] = Levels /\ w[2] = 0
     IN /\ smem' = [smem EXCEPT ![w[1]] = IF top THEN Cleared(swept) ELSE swept]
        /\ gmem' = IF top /\ host.pass = 1
                     THEN [gmem EXCEPT !.block_sums[w[1]] = Total(swept)] ELSE gmem
  /\ UNCHANGED << host, reg >>

DownSweep(w) ==
  /\ Turn(w, DownRound)
  /\ smem' = [smem EXCEPT ![w[1]] =
                [i \in DOMAIN @ |-> IF \E p \in Pairs(w) : p[1] = i
                                      THEN @[(CHOOSE p \in Pairs(w) : p[1] = i)[2]]
                                      ELSE Swept(@, Pairs(w))[i]]]
  /\ UNCHANGED << host, gmem, reg >>

Stored(w, out) == [i \in DOMAIN out |-> LET t == i - w[1] * Elems IN
                                          IF t \in Own(w) THEN smem[w[1]][t] ELSE out[i]]

Store(w) ==
  /\ Turn(w, {LastRound})
  /\ gmem' = IF host.pass = 1 THEN [gmem EXCEPT !.out = Stored(w, @)]
                              ELSE [gmem EXCEPT !.block_prefixes = Stored(w, @)]
  /\ UNCHANGED << host, smem, reg >>

-------------------------------------------------------------------------------
\* propagate_kernel
Propagate(w) ==
  /\ host.pass = 3 /\ round[w] = 0 /\ Arrive(w)
  /\ gmem' = [gmem EXCEPT !.out =
                [i \in DOMAIN @ |-> IF i - w[1] * Elems \in Own(w)
                                      THEN @[i] + gmem.block_prefixes[w[1]] ELSE @[i]]]
  /\ UNCHANGED << host, smem, reg >>

\* The kernels of exclusive_scan_gpu run one after another in one stream.
NextPass ==
  /\ host.pass < 4 /\ KernelEnded(IF host.pass = 3 THEN 0 ELSE LastRound)
  /\ host' = [host EXCEPT !.pass = @ + 1]
  /\ LET blocks == IF host'.pass = 2 THEN 1 ELSE NumBlocks IN
       /\ round' = IF host'.pass = 4 THEN NoKernel ELSE Launched(blocks, BlockSize \div WarpSize)
       /\ smem' = Shared(blocks)
  /\ UNCHANGED << gmem, reg >>

Next ==
  \/ \E w \in Warps : Load(w) \/ UpSweep(w) \/ DownSweep(w) \/ Store(w) \/ Propagate(w)
  \/ NextPass

Safety == Init /\ [][Next]_machine

\* The device runs every warp.
Spec == Safety /\ WF_machine(Next)
-------------------------------------------------------------------------------
\* exclusive_scan_cpu
Reference[i \in 0..host.n] == IF i = 0 THEN 0 ELSE Reference[i - 1] + Input(i - 1)

TypeOK ==
  /\ host \in [pass : 1..4, n : Sizes]
  /\ \A b \in DOMAIN smem : \A i \in 0..Elems - 1 : smem[b][i] \in 0..Reference[host.n]
  /\ \A w \in Warps : round[w] \in 0..LastRound + 1

\* The result is the exclusive prefix sum, in every order of the warps.  (The
\* header's "arbitrary-length" ends where the totals no longer fit one block.)
ScanCorrect == host.pass = 4 => \A i \in 0..host.n - 1 : gmem.out[i] = Reference[i]

Touched(w) == { p[1] : p \in Pairs(w) } \cup { p[2] : p \in Pairs(w) }

\* Between two __syncthreads no two warps sweep over the same element.
NoRace ==
  \A v, w \in Warps :
    Concurrent(v, w) /\ host.pass \in {1, 2} /\ {round[v], round[w]} \subseteq UpRound \cup DownRound
      => Touched(v) \cap Touched(w) = {}

Ended == host.pass = 4

\* The three kernels end.
Terminates == <>Ended
===============================================================================
