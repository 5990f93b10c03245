----------------------------- MODULE BlockSortMerge -----------------------------
(***************************************************************************)
(* parallel_sort.hg: blocks sort their part of the input by odd-even       *)
(* transposition in shared memory, then one block merges two sorted parts  *)
(* by a bitonic merge; parallel_sort on the host launches the kernels and  *)
(* swaps the buffers.                                                      *)
(*                                                                         *)
(* host is [pc, n, from, width]: the kernel parallel_sort waits for,       *)
(* "sort" or "merge", or "done", the size and its locals; gmem is          *)
(* [src, buf, dst].  An element is a pair of its key and its value.        *)
(***************************************************************************)
EXTENDS DeviceKernel, FiniteSets, Functions

CONSTANTS
  Capacity,  \* BLOCK_CAPACITY
  Sizes,     \* the sizes of the input: powers of 2 up to 2 * BLOCK_CAPACITY
  Keys

SizesAssumption ==
  /\ Capacity \in Nat \ {0} /\ WarpSize \in Nat \ {0} /\ Capacity % WarpSize = 0
  /\ Sizes \subseteq 1..2 * Capacity /\ Keys \subseteq Nat
  /\ \E k \in 0..Capacity : 2^k = Capacity

n == host.n

MaxKey  == 1000                 \* 0xFFFFFFFF, above every key
Padding == << MaxKey, 0 >>
Garbage == << MaxKey + 1, 0 >>  \* memory that was not written

LessByKey(a, b) == a[1] < b[1]

\* The comparator of both kernels: by key, equal keys by value.
Less(a, b) == a[1] < b[1] \/ (a[1] = b[1] /\ a[2] < b[2])

-------------------------------------------------------------------------------
(* The launched kernel                                                     *)

Launch(blocks, threads) ==
  /\ smem' = [b \in 0..blocks - 1 |-> [t \in 0..threads - 1 |-> Garbage]]
  /\ round' = Launched(blocks, threads \div WarpSize)

Init ==
  /\ \E size \in Sizes :
       /\ host = [pc |-> "sort", n |-> size, from |-> "buf", width |-> Capacity]
       /\ \E keys \in [0..size - 1 -> Keys] :
            LET unwritten == [i \in 0..size - 1 |-> Garbage] IN
              gmem = [src |-> [i \in 0..size - 1 |-> << keys[i], i >>],
                      buf |-> unwritten, dst |-> unwritten]
  /\ smem = [b \in 0..CeilDiv(n, Capacity) - 1 |-> [t \in 0..Capacity - 1 |-> Garbage]]
  /\ reg = << >>
  /\ round = Launched(CeilDiv(n, Capacity), Capacity \div WarpSize)

\* The exchange of every thread of a warp with its partner, the partner above.
Exchange(m, partner) ==
  LET swaps == { t \in DOMAIN partner : Less(m[partner[t]], m[t]) }
      down  == [t \in swaps |-> m[partner[t]]]
      up    == [i \in { partner[t] : t \in swaps } |-> CHOOSE t \in swaps : partner[t] = i]
  IN  [i \in DOMAIN m |-> IF i \in swaps THEN down[i]
                          ELSE IF i \in DOMAIN up THEN m[up[i]] ELSE m[i]]

Element(a, i) == IF i < n THEN a[i] ELSE Padding

-------------------------------------------------------------------------------
(* block_sort_kernel: load, Capacity phases, write back                    *)

SortLast == Capacity + 1

\* Every thread is active in every phase.
AllPairs(w) ==
  [t \in { t \in Lanes(w) : t + 1 < Capacity } |-> t + 1]

SortPairs(w) ==
  [t \in { t \in Lanes(w) : t % 2 = (round[w] - 1) % 2 /\ t + 1 < Capacity } |-> t + 1]

\* Array a after the warp stored its lanes' elements that are below n.
Written(w, base, a) == [i \in DOMAIN a |-> IF i - base \in Lanes(w) THEN smem[w[1]][i - base]
                                                                  ELSE a[i]]

SortTurn(w) ==
  /\ host.pc = "sort" /\ Synced(w) /\ Arrive(w)
  /\ UNCHANGED << host, reg >>

SortLoad(w) ==
  /\ SortTurn(w) /\ round[w] = 0
  /\ smem' = [smem EXCEPT ![w[1]] =
                [t \in DOMAIN @ |-> IF t \in Lanes(w) THEN Element(gmem.src, w[1] * Capacity + t)
                                                     ELSE @[t]]]
  /\ UNCHANGED gmem

SortPhase(w) ==
  /\ SortTurn(w) /\ round[w] \in 1..Capacity
  /\ smem' = [smem EXCEPT ![w[1]] = Exchange(@, SortPairs(w))]
  /\ UNCHANGED gmem

SortWrite(w) ==
  /\ SortTurn(w) /\ round[w] = SortLast
  /\ gmem' = [gmem EXCEPT !.buf = Written(w, w[1] * Capacity, @)]
  /\ UNCHANGED smem

-------------------------------------------------------------------------------
(* merge_blocks_kernel: load left, load right reversed, strides, write     *)

MergeLast == 3 + Log2(Capacity)

MergePairs(w) ==
  LET stride == Capacity \div 2^(round[w] - 2)
  IN  [t \in { t \in Lanes(w) : t < FlipBit(t, stride) } |-> FlipBit(t, stride)]

FromArray == gmem[host.from]

OtherBuffer == IF host.from = "buf" THEN "dst" ELSE "buf"

\* Where the right run's element goes.
RightSlot(t) == host.width + (host.width - 1 - t)

LeftBase(w) == w[1] * 2 * host.width

Loaders(w) == { t \in Lanes(w) : t < host.width }

MergeTurn(w) ==
  /\ host.pc = "merge" /\ Synced(w) /\ Arrive(w)
  /\ UNCHANGED << host, reg >>

MergeLoadLeft(w) ==
  /\ MergeTurn(w) /\ round[w] = 0
  /\ smem' = [smem EXCEPT ![w[1]] =
                [t \in DOMAIN @ |-> IF t \in Loaders(w) THEN Element(FromArray, LeftBase(w) + t)
                                                       ELSE @[t]]]
  /\ UNCHANGED gmem

MergeLoadRight(w) ==
  /\ MergeTurn(w) /\ round[w] = 1
  /\ smem' = [smem EXCEPT ![w[1]] =
                [s \in DOMAIN @ |->
                   IF \E t \in Loaders(w) : RightSlot(t) = s
                     THEN LET t == CHOOSE t \in Loaders(w) : RightSlot(t) = s
                          IN  Element(FromArray, LeftBase(w) + host.width + t)
                     ELSE @[s]]]
  /\ UNCHANGED gmem

MergeStride(w) ==
  /\ MergeTurn(w) /\ round[w] \in 2..MergeLast - 1
  /\ smem' = [smem EXCEPT ![w[1]] = Exchange(@, MergePairs(w))]
  /\ UNCHANGED gmem

MergeWrite(w) ==
  /\ MergeTurn(w) /\ round[w] = MergeLast
  /\ gmem' = [gmem EXCEPT ![OtherBuffer] = Written(w, LeftBase(w), @)]
  /\ UNCHANGED smem

-------------------------------------------------------------------------------
(* parallel_sort                                                           *)

\* One width too many.
MergeUpToN(in, width) ==
  /\ IF width <= n
       THEN Launch(CeilDiv(n, 2 * width), 2 * Capacity) /\ UNCHANGED gmem
       ELSE /\ smem' = << >> /\ round' = NoKernel
            /\ gmem' = [gmem EXCEPT !.dst = gmem[in]]
  /\ host' = [host EXCEPT !.pc = IF width <= n THEN "merge" ELSE "done",
                          !.from = in, !.width = width]

\* The loop over widths: the next merge, or the copy that puts the result in dst.
MergeOrFinish(in, width) ==
  /\ IF width < n
       THEN Launch(CeilDiv(n, 2 * width), 2 * Capacity) /\ UNCHANGED gmem
       ELSE /\ smem' = << >> /\ round' = NoKernel
            /\ gmem' = [gmem EXCEPT !.dst = gmem[in]]
  /\ host' = [host EXCEPT !.pc = IF width < n THEN "merge" ELSE "done",
                          !.from = in, !.width = width]

AfterSort ==
  /\ host.pc = "sort" /\ KernelEnded(SortLast)
  /\ MergeOrFinish(host.from, host.width)
  /\ UNCHANGED reg

\* The width is not doubled.
AfterMergeSameWidth ==
  /\ host.pc = "merge" /\ KernelEnded(MergeLast)
  /\ MergeOrFinish(OtherBuffer, host.width)
  /\ UNCHANGED reg

AfterMerge ==
  /\ host.pc = "merge" /\ KernelEnded(MergeLast)
  /\ MergeOrFinish(OtherBuffer, 2 * host.width)
  /\ UNCHANGED reg

Next ==
  \/ AfterSort \/ AfterMerge
  \/ \E w \in Warps :
        \/ SortLoad(w) \/ SortPhase(w) \/ SortWrite(w)
        \/ MergeLoadLeft(w) \/ MergeLoadRight(w) \/ MergeStride(w) \/ MergeWrite(w)

Safety == Init /\ [][Next]_machine

\* The device runs the kernel's warps, and the host is not stopped.
Spec == Safety /\ WF_machine(Next)
-------------------------------------------------------------------------------
Item == Keys \X (0..2 * Capacity)

TypeOK ==
  /\ host \in [pc : {"sort", "merge", "done"}, n : Sizes, from : {"buf", "dst"},
               width : {Capacity, 2 * Capacity}]
  /\ \A b \in {"src", "buf", "dst"} : DOMAIN gmem[b] = 0..n - 1
  /\ Range(gmem.buf) \cup Range(gmem.dst) \cup UNION { Range(smem[b]) : b \in DOMAIN smem }
       \subseteq Item \cup {Padding, Garbage}
  /\ \A w \in Warps : round[w] \in 0..MergeLast + Capacity

Ended == host.pc = "done"

\* The result is the stable sort of the input: sorted by key, equal keys in the
\* order of the input (the values are the positions), and nothing lost to the
\* padding of a short block or to an exchange.
SortedStable ==
  Ended =>
    /\ \A i, j \in 0..n - 1 : i < j => Less(gmem.dst[i], gmem.dst[j])
    /\ Range(gmem.dst) = Range(gmem.src)

Sorting == host.pc = "sort"

Touched(w) ==
  LET pairs == IF Sorting THEN SortPairs(w) ELSE MergePairs(w)
  IN  DOMAIN pairs \cup Range(pairs)

Exchanges(w) == round[w] \in (IF Sorting THEN 1..Capacity ELSE 2..MergeLast - 1)

\* Between two __syncthreads no two warps of a block exchange the same element.
NoRace ==
  \A v, w \in Warps :
    Concurrent(v, w) /\ Exchanges(v) /\ Exchanges(w) => Touched(v) \cap Touched(w) = {}

\* Every launch ends and the host returns.
Terminates == <>Ended
===============================================================================
