----------------------------- MODULE StreamCompact -----------------------------
(***************************************************************************)
(* stream_compact.hg, the two strategies that claim output slots with      *)
(* atomics: compact_naive, one slot per passing thread, and compact_ballot,*)
(* which claims a warp's slots within the block and a block's slots in the *)
(* grid.  (TwoPassScan is the third one.)  main runs each on a fresh count.*)
(* An element is its index; the predicate is any set of them.              *)
(*                                                                         *)
(* host is [strategy, prime]: the strategy that runs, or "done", and the   *)
(* elements that pass; gmem is [count, output].  In the naive strategy reg *)
(* holds the slots claimed; in the other it is each warp's warp_base and   *)
(* smem each block's [count, offset].                                      *)
(***************************************************************************)
EXTENDS DeviceKernel, FiniteSets, Functions

CONSTANTS N, Block

SizesAssumption ==
  /\ N \in Nat \ {0} /\ Block \in Nat \ {0} /\ WarpSize \in Nat \ {0}
  /\ Block % WarpSize = 0

Index  == 0..N - 1
Blocks == 0..CeilDiv(N, Block) - 1

Unwritten == -1

Init ==
  /\ host \in [strategy : {"naive", "ballot"}, prime : SUBSET Index]
  /\ gmem = [count |-> 0, output |-> [p \in Index |-> Unwritten]]
  /\ smem = [b \in Blocks |-> [count |-> Unwritten, offset |-> Unwritten]]
  /\ round = IF host.strategy = "ballot" THEN Launched(CeilDiv(N, Block), Block \div WarpSize)
                                         ELSE NoKernel
  /\ reg = [w \in Warps |-> 0]

-------------------------------------------------------------------------------
(* compact_naive, of which a thread that does not pass changes nothing     *)

Claimed == DOMAIN reg

ClaimSlot(i) ==
  /\ host.strategy = "naive" /\ i \in host.prime \ Claimed
  /\ reg' = [j \in Claimed \cup {i} |-> IF j = i THEN gmem.count ELSE reg[j]]
  /\ gmem' = [gmem EXCEPT !.count = @ + 1]
  /\ UNCHANGED << host, smem, round >>

StoreElement(i) ==
  /\ host.strategy = "naive" /\ i \in Claimed /\ i \notin Range(gmem.output)
  /\ gmem' = [gmem EXCEPT !.output[reg[i]] = i]
  /\ UNCHANGED << host, smem, reg, round >>

-------------------------------------------------------------------------------
(* compact_ballot                                                          *)

IndexOf(w, lane) == w[1] * Block + w[2] * WarpSize + lane

\* __ballot_sync: the lanes whose element is there and passes.
Ballot(w) == { lane \in 0..WarpSize - 1 : IndexOf(w, lane) \in host.prime }

Turn(w, r) == host.strategy = "ballot" /\ round[w] = r /\ Synced(w) /\ Arrive(w)

\* Thread 0 clears the block's count; everyone syncs.
ClearCount(w) ==
  /\ Turn(w, 0)
  /\ smem' = IF w[2] = 0 THEN [smem EXCEPT ![w[1]].count = 0] ELSE smem
  /\ UNCHANGED << host, gmem, reg >>

Claim(w) ==
  LET c == Cardinality(Ballot(w)) IN
    /\ reg' = IF c > 0 THEN [reg EXCEPT ![w] = smem[w[1]].count] ELSE reg
    /\ smem' = [smem EXCEPT ![w[1]].count = @ + c]

\* Lane 0 claims the warp's slots, if any, and shares their base with the warp.
ClaimInBlock(w) ==
  /\ Turn(w, 1)
  /\ Claim(w)
  /\ UNCHANGED << host, gmem >>

ClaimBlockSlots(b) ==
  /\ smem' = [smem EXCEPT ![b].offset = gmem.count]
  /\ gmem' = [gmem EXCEPT !.count = @ + smem[b].count]

\* Every warp claims the block's slots.
ClaimInGridTwice(w) ==
  /\ Turn(w, 2)
  /\ ClaimBlockSlots(w[1])
  /\ UNCHANGED << host, reg >>

\* Thread 0 claims the block's slots; everyone syncs.
ClaimInGrid(w) ==
  /\ Turn(w, 2)
  /\ IF w[2] = 0 THEN ClaimBlockSlots(w[1]) ELSE UNCHANGED << smem, gmem >>
  /\ UNCHANGED << host, reg >>

\* Lanes up to and including the lane itself.
SlotFromOne(w, lane) ==
  smem[w[1]].offset + reg[w] + Cardinality({ l \in Ballot(w) : l <= lane })

SlotOf(w, lane) ==
  smem[w[1]].offset + reg[w] + Cardinality({ l \in Ballot(w) : l < lane })

Scatter(w) ==
  /\ Turn(w, 3)
  /\ gmem' = [gmem EXCEPT !.output =
                [p \in Index |->
                   IF \E lane \in Ballot(w) : SlotOf(w, lane) = p
                     THEN IndexOf(w, CHOOSE lane \in Ballot(w) : SlotOf(w, lane) = p)
                     ELSE @[p]]]
  /\ UNCHANGED << host, smem, reg >>

-------------------------------------------------------------------------------
\* The kernel has ended and main reads the count and the output.
ReadBack ==
  /\ \/ /\ host.strategy = "naive"
        /\ host.prime \subseteq Claimed /\ Claimed \subseteq Range(gmem.output)
     \/ host.strategy = "ballot" /\ KernelEnded(3)
  /\ host' = [host EXCEPT !.strategy = "done"]
  /\ UNCHANGED << gmem, smem, reg, round >>

Next ==
  \/ \E i \in Index : ClaimSlot(i) \/ StoreElement(i)
  \/ \E w \in Warps : ClearCount(w) \/ ClaimInBlock(w) \/ ClaimInGrid(w) \/ Scatter(w)
  \/ ReadBack

Safety == Init /\ [][Next]_machine

\* The device runs every thread of the kernel.
Spec == Safety /\ WF_machine(Next)
-------------------------------------------------------------------------------
Slots == Index \cup {Unwritten, N}

TypeOK ==
  /\ host \in [strategy : {"naive", "ballot", "done"}, prime : SUBSET Index]
  /\ gmem \in [count : 0..N, output : [Index -> Index \cup {Unwritten}]]
  /\ smem \in [Blocks -> [count : Slots, offset : Slots]]
  /\ Range(reg) \subseteq Index
  /\ \A w \in Warps : round[w] \in 0..4

Ended == host.strategy = "done"

\* validate_unordered: the first count slots hold the elements that pass, each
\* once, although blocks, warps and threads claim slots in any order.
OutputIsPrimes ==
  Ended => /\ gmem.count = Cardinality(host.prime)
           /\ { gmem.output[p] : p \in 0..gmem.count - 1 } = host.prime

\* The README: the ballot strategy's output "is ordered within each block".
OrderedWithinBlock ==
  Ended /\ Warps # {} =>
    \A p, q \in 0..gmem.count - 1 :
      p < q /\ gmem.output[p] \div Block = gmem.output[q] \div Block
        => gmem.output[p] < gmem.output[q]

\* The kernel ends and main reads the result.
Terminates == <>Ended
===============================================================================
