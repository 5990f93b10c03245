---------------------------- MODULE BitonicBlockSort ----------------------------
(***************************************************************************)
(* warp_bitonic_sort.hg: a block sorts its elements with a bitonic         *)
(* network, first each warp in registers, then all warps in shared memory. *)
(* N is a multiple of the block size, so every thread has an element; the  *)
(* blocks are independent and one is modelled.                             *)
(*                                                                         *)
(* host is main's input and a history variable, overlap: did a warp store  *)
(* what another had yet to load.  gmem is the block's part of the array;   *)
(* reg is each warp's [stage, step, pc, val, partner_val]: its place in    *)
(* the network, what it does next, its lanes' registers.  There is one     *)
(* __syncthreads after each step of the second phase, which round counts.  *)
(***************************************************************************)
EXTENDS DeviceKernel, FiniteSets

CONSTANTS
  BlockSize,  \* kBlockSize
  Values      \* the elements

SizesAssumption ==
  /\ \E k \in 1..WarpSize : WarpSize = 2^k
  /\ \E k \in 0..BlockSize : BlockSize = WarpSize * 2^k
  /\ Values \subseteq Int

Thread   == 0..BlockSize - 1
LaneBits == Log2(WarpSize)

Init ==
  /\ host \in [input : [Thread -> Values], overlap : {FALSE}]
  /\ gmem = host.input /\ smem = host.input
  /\ round = Launched(1, BlockSize \div WarpSize)
  /\ reg = [w \in Warps |-> [stage |-> 1, step |-> 1, pc |-> "load",
                             val |-> [t \in Lanes(w) |-> host.input[t]],
                             partner_val |-> [t \in Lanes(w) |-> host.input[t]]]]

Bit(t, i) == (t \div 2^i) % 2

\* Every sequence is sorted upwards.
KeepAscendingOnly(t, stage, step, mine, other) ==
  IF (Bit(t, step - 1) = 0) <=> (mine <= other) THEN mine ELSE other

\* What a thread keeps of the two values it compares.
Keep(t, stage, step, mine, other) ==
  LET ascending == Bit(t, stage) = 0
      lower     == Bit(t, step - 1) = 0
  IN  IF (ascending <=> lower) <=> (mine <= other) THEN mine ELSE other

\* A stage starts one step too high.
NextStepOneHigh(stage, step) ==
  IF step > 1 THEN << stage, step - 1 >> ELSE << stage + 1, stage + 2 >>

\* The stage is never advanced.
NextStepSameStage(stage, step) ==
  IF step > 1 THEN << stage, step - 1 >> ELSE << stage, stage >>

\* The loops over stages and, within a stage, downwards over steps.
NextStep(stage, step) ==
  IF step > 1 THEN << stage, step - 1 >> ELSE << stage + 1, stage + 1 >>

Partner(w, t) == FlipBit(t, 2^(reg[w].step - 1))

InRegisters(w) == reg[w].stage <= LaneBits
Finished(w)    == reg[w].stage > Log2(BlockSize)

\* The warp's registers with what every lane keeps of mine and other, one step on.
Exchanged(w, other) ==
  LET stage == reg[w].stage
      step  == reg[w].step
      next  == NextStep(stage, step)
  IN  [reg[w] EXCEPT !.stage = next[1], !.step = next[2], !.pc = "load",
                     !.val = [t \in Lanes(w) |-> Keep(t, stage, step, @[t], other[t])]]

SharedStore(w) == [t \in Thread |-> IF t \in Lanes(w) THEN reg'[w].val[t] ELSE smem[t]]

-------------------------------------------------------------------------------
\* warp_bitonic_sort_ascending: one exchange by shuffle; the last one is
\* followed by the store to shared memory and a __syncthreads.
Shuffle(w) ==
  LET last == reg[w].stage = LaneBits /\ reg[w].step = 1 IN
    /\ InRegisters(w)
    /\ reg' = [reg EXCEPT ![w] = Exchanged(w, [t \in Lanes(w) |-> @.val[Partner(w, t)]])]
    /\ smem' = IF last THEN SharedStore(w) ELSE smem
    /\ IF last THEN Arrive(w) ELSE UNCHANGED round
    /\ UNCHANGED << host, gmem >>

Load(w) ==
  /\ reg[w].pc = "load" /\ ~ InRegisters(w) /\ ~ Finished(w) /\ Synced(w)
  /\ reg' = [reg EXCEPT ![w].pc = "store",
                        ![w].val = [t \in Lanes(w) |-> smem[t]],
                        ![w].partner_val = [t \in Lanes(w) |-> smem[Partner(w, t)]]]
  /\ UNCHANGED << host, gmem, smem, round >>

\* Some warp will load in this step what w is about to overwrite.
StillNeeded(w) ==
  \E v \in Warps \ {w} : /\ round[v] = round[w] /\ reg[v].pc = "load"
                         /\ \E t \in Lanes(v) : Partner(w, t) \in Lanes(w)

Store(w) ==
  /\ reg[w].pc = "store"
  /\ reg' = [reg EXCEPT ![w] = Exchanged(w, @.partner_val)]
  /\ smem' = SharedStore(w)
  /\ host' = [host EXCEPT !.overlap = @ \/ StillNeeded(w)]
  /\ Arrive(w)
  /\ UNCHANGED gmem

WriteBack(w) ==
  /\ reg[w].pc = "load" /\ Finished(w) /\ Synced(w)
  /\ gmem' = [t \in Thread |-> IF t \in Lanes(w) THEN smem[t] ELSE gmem[t]]
  /\ reg' = [reg EXCEPT ![w].pc = "done"]
  /\ UNCHANGED << host, smem, round >>

Next == \E w \in Warps : Shuffle(w) \/ Load(w) \/ Store(w) \/ WriteBack(w)

Safety == Init /\ [][Next]_machine

\* The hardware schedules every warp of a resident block.
Spec == Safety /\ WF_machine(Next)
-------------------------------------------------------------------------------
TypeOK ==
  /\ host \in [input : [Thread -> Values], overlap : BOOLEAN]
  /\ {gmem, smem} \subseteq [Thread -> Values]
  /\ \A w \in Warps : /\ reg[w].stage \in 1..Log2(BlockSize) + 1
                      /\ reg[w].step \in 1..reg[w].stage
                      /\ reg[w].pc \in {"load", "store", "done"}
                      /\ {reg[w].val, reg[w].partner_val} \subseteq [Lanes(w) -> Values]

SameElements(a, b) ==
  \A x \in Values :
    Cardinality({ t \in Thread : a[t] = x }) = Cardinality({ t \in Thread : b[t] = x })

\* What main compares the result with: the block's elements, sorted.
IsReference(out) ==
  /\ \A t, u \in Thread : t < u => out[t] <= out[u]
  /\ SameElements(out, host.input)

Ended == \A w \in Warps : reg[w].pc = "done"

\* The block is sorted, whatever order the warps run in.
BlockSorted == Ended => IsReference(gmem)

\* The network itself is right: as long as no warp stores what another has yet
\* to load in the same step, the block ends sorted.
SortedUnlessOverlap == Ended /\ ~ host.overlap => IsReference(gmem)

\* Every warp gets through every __syncthreads.
Terminates == <>Ended
===============================================================================
