-------------------------------- MODULE WarpOps --------------------------------
(***************************************************************************)
(* The kernels whose threads work together by what a warp does in step, or *)
(* by atomic operations: warp_redux.hg, warp_vote_kernels.hgh, spmv.hg,    *)
(* warp_aggregated_atomics_cg.hg, binary_partition_cg.hg and, of           *)
(* atomic_intrinsics, atomic_kernel.hgh with compute_gold.cpp.             *)
(*                                                                         *)
(* What a warp shuffles, votes on and reduces is one step, as its threads  *)
(* run in step.  The groups it splits into go on separately: the leader of *)
(* each does its atomic operations on device memory one at a time, in any  *)
(* order with those of other groups and warps.                             *)
(*                                                                         *)
(* host is the launch: the kernel, its number of threads with an element,  *)
(* and its input.  gmem has the kernel's arrays.  reg[w].stage says of each*)
(* group of the warp what its leader does next, and reg[w].old of each     *)
(* thread what its leader broadcast.  smem and round are not used.         *)
(***************************************************************************)
EXTENDS DeviceKernel, Sequences, FiniteSets, FiniteSetsExt

CONSTANTS
  BlockSize,  \* threads of a block
  Labels,     \* buckets of the histogram
  Elements,   \* numbers of elements of the histogram, and of threads with atomic operations
  Reals,      \* the floats that are split by sign, as integers
  FltMax,     \* a float above all of them
  Rows, Band, \* sizes and half bandwidths of the matrices
  AtomicIncLimit, AtomicDecLimit  \* where the counters wrap

SizesAssumption ==
  /\ WarpSize \in {2^k : k \in 1..5} /\ BlockSize \in Nat /\ BlockSize % WarpSize = 0
  /\ Elements \subseteq Nat /\ Rows \subseteq Nat /\ Band \subseteq Nat
  /\ {AtomicIncLimit, AtomicDecLimit} \subseteq Nat
  /\ Reals \subseteq Int /\ FltMax \in Nat
  /\ \A v \in Reals : -FltMax < v /\ v < FltMax

Lane == 0..WarpSize - 1

WarpIndex(w) == w[1] * (BlockSize \div WarpSize) + w[2]

Threads(w) == { WarpIndex(w) * WarpSize + l : l \in Lane }

\* The threads that do not return at "if (idx >= n) return".
Active(w) == { t \in Threads(w) : t < host.n }

Launch(kernel, block, n, input, arrays) ==
  /\ host = [kernel |-> kernel, n |-> n, input |-> input]
  /\ gmem = arrays /\ smem = << >>
  /\ round = Launched(CeilDiv(n, block), block \div WarpSize)
  /\ reg = [w \in DOMAIN round |-> [started |-> FALSE, stage |-> << >>, old |-> << >>]]

\* The warp starts one of these kernels, and not all its threads return at once.
Runs(w, kernels) == host.kernel \in kernels /\ ~reg[w].started /\ Active(w) # {}

WholeWarp(w) ==
  /\ reg' = [reg EXCEPT ![w].started = TRUE]
  /\ UNCHANGED << host, smem, round >>

\* The warps past the last element.
Returns(w) == ~reg[w].started /\ Active(w) = {} /\ WholeWarp(w) /\ UNCHANGED gmem
-------------------------------------------------------------------------------
(* warp_redux: a sum, a minimum, a maximum or a parity of a warp's values. *)

Operations == {"add", "min", "max", "xor"}

Combine(op, a, b) ==
  CASE op = "add" -> a + b
    [] op = "min" -> IF b < a THEN b ELSE a
    [] op = "max" -> IF b > a THEN b ELSE a
    [] op = "xor" -> (a + b) % 2

\* __shfl_down_sync: past the end of the warp a lane gets its own value.
ShflDown(v, offset) == [l \in Lane |-> IF l + offset < WarpSize THEN v[l + offset] ELSE v[l]]

\* Lane 0's value after the loop over the halved offsets.
ShuffleReduce(op, v) ==
  LET after[k \in 0..Log2(WarpSize)] ==
        IF k = 0 THEN v
        ELSE LET other == ShflDown(after[k - 1], WarpSize \div 2^k)
             IN  [l \in Lane |-> Combine(op, after[k - 1][l], other[l])]
  IN  after[Log2(WarpSize)][0]

SumOver(v) == MapThenSumSet(LAMBDA i : v[i], DOMAIN v)

\* ppu.redux.sync
Redux(op, v) ==
  LET values == { v[l] : l \in Lane }
  IN  CASE op = "add" -> SumOver(v)
        [] op = "min" -> Min(values)
        [] op = "max" -> Max(values)
        [] op = "xor" -> SumOver(v) % 2

OfWarp(w, f) == [l \in Lane |-> f[WarpIndex(w) * WarpSize + l]]

WarpRedux(w) ==
  /\ Runs(w, {"redux"})
  /\ LET v == OfWarp(w, host.input.values) IN
       gmem' = [gmem EXCEPT !.redux[WarpIndex(w)] = Redux(host.input.op, v),
                            !.shfl[WarpIndex(w)] = ShuffleReduce(host.input.op, v)]
  /\ WholeWarp(w)

InitRedux ==
  \E op \in Operations :
  \E values \in [Lane -> IF op = "xor" THEN {0, 1} ELSE -1..1] :
    Launch("redux", BlockSize, WarpSize, [op |-> op, values |-> values],
           [redux |-> [i \in {0} |-> 0], shfl |-> [i \in {0} |-> 0]])

\* compare_results
ReduxAgrees == gmem.redux = gmem.shfl
-------------------------------------------------------------------------------
(* warp_vote_ops: four warps vote on a pattern of four regions, and three on *)
(* which half of the block they are in.                                    *)

VoteGroups == 4

\* 0xffffffff is some number that is not 0.
Pattern(size) ==
  [i \in 0..size - 1 |->
     CASE i < size \div 4 -> 0
       [] i \in (2 * size) \div 8 .. (4 * size) \div 8 - 1 -> IF i % 2 = 1 THEN i ELSE 0
       [] i \in (2 * size) \div 4 .. (3 * size) \div 4 - 1 -> IF i % 2 = 1 THEN 0 ELSE i
       [] OTHER -> size]

VoteAny(w) ==
  /\ Runs(w, {"any_vote"})
  /\ LET vote == IF \E t \in Threads(w) : host.input[t] # 0 THEN 1 ELSE 0
     IN  gmem' = [t \in DOMAIN gmem |-> IF t \in Threads(w) THEN vote ELSE gmem[t]]
  /\ WholeWarp(w)

VoteAll(w) ==
  /\ Runs(w, {"all_vote"})
  /\ LET vote == IF \A t \in Threads(w) : host.input[t] # 0 THEN 1 ELSE 0
     IN  gmem' = [t \in DOMAIN gmem |-> IF t \in Threads(w) THEN vote ELSE gmem[t]]
  /\ WholeWarp(w)

\* Three entries of each thread; the third keeps main's false unless all agree.
VoteMixed(w) ==
  LET upper(t) == t >= (3 * WarpSize) \div 2
      any == \E t \in Threads(w) : upper(t)
      all == \A t \in Threads(w) : upper(t)
      entry(i) == CASE i % 3 = 0 -> any
                    [] i % 3 = 1 -> upper(i \div 3)
                    [] i % 3 = 2 -> all \/ gmem[i]
  IN  /\ Runs(w, {"mixed_vote"})
      /\ gmem' = [i \in DOMAIN gmem |-> IF i \div 3 \in Threads(w) THEN entry(i) ELSE gmem[i]]
      /\ WholeWarp(w)

InitVote ==
  LET size == VoteGroups * WarpSize IN
  \/ \E kernel \in {"any_vote", "all_vote"} :
       Launch(kernel, size, size, Pattern(size), [t \in 0..size - 1 |-> 0])
  \/ Launch("mixed_vote", 3 * WarpSize, 3 * WarpSize, << >>, [i \in 0..9 * WarpSize - 1 |-> FALSE])

\* The sum of a region: warp_size if all of its warp voted 1.
Region(k) == SumOver([i \in k * WarpSize..(k + 1) * WarpSize - 1 |-> gmem[i]])

VerifyAny == Region(0) = 0 /\ \A k \in 1..3 : Region(k) = WarpSize

VerifyAll == (\A k \in 0..2 : Region(k) = 0) /\ Region(3) = WarpSize

VerifyMixed ==
  LET size == 3 * WarpSize IN
  \A i \in DOMAIN gmem :
    gmem[i] = CASE i % 3 = 0 -> i >= size
                [] i % 3 = 1 -> i >= (size * 3) \div 2
                [] i % 3 = 2 -> i >= size * 2
-------------------------------------------------------------------------------
(* spmv: a banded matrix in compressed rows, times a vector x whose        *)
(* elements tell the columns apart.  Values are doubled, to be integers.   *)

StartCol(i, band) == Max({i - band, 0})
EndCol(i, n, band) == Min({i + band, n - 1})

BandedMatrix(n, band) ==
  LET ptr[i \in 0..n] ==
        IF i = 0 THEN 0
        ELSE ptr[i - 1] + (EndCol(i - 1, n, band) - StartCol(i - 1, band)) + 1
      row(j) == CHOOSE i \in 0..n - 1 : ptr[i] <= j /\ j < ptr[i + 1]
      col == [j \in 0..ptr[n] - 1 |-> StartCol(row(j), band) + (j - ptr[row(j)])]
  IN  [ n |-> n, band |-> band, row_ptr |-> ptr, col_idx |-> col,
        values |-> [j \in DOMAIN col |-> IF col[j] = row(j) THEN 4 ELSE -1] ]

X(c) == 3^c

\* The sum of values[j] * x[col_idx[j]] for j in steps from the first to below the end.
PartialSum(m, first, end, step) ==
  SumOver([j \in { i \in first..end - 1 : (i - first) % step = 0 }
             |-> m.values[j] * X(m.col_idx[j])])

\* A thread for each row.
SpmvScalar(w) ==
  /\ Runs(w, {"spmv_scalar"})
  /\ LET m == host.input IN
       gmem' = [row \in DOMAIN gmem |->
                  IF row \in Active(w)
                  THEN PartialSum(m, m.row_ptr[row], m.row_ptr[row + 1], 1) ELSE gmem[row]]
  /\ WholeWarp(w)

\* A warp for each row: its lanes take every WarpSize-th element and add up.
SpmvVector(w) ==
  /\ Runs(w, {"spmv_vector"})
  /\ LET m == host.input
         row == WarpIndex(w)
         lanes == [l \in Lane |-> PartialSum(m, m.row_ptr[row] + l, m.row_ptr[row + 1], WarpSize)]
     IN  gmem' = [gmem EXCEPT ![row] = ShuffleReduce("add", lanes)]
  /\ WholeWarp(w)

InitSpmv ==
  \E n \in Rows, band \in Band :
    LET m == BandedMatrix(n, band)
        y == [i \in 0..n - 1 |-> 0]
    IN  \/ Launch("spmv_scalar", BlockSize, n, m, y)
        \/ Launch("spmv_vector", BlockSize, n * WarpSize, m, y)

\* Each row's product, from the band and not from its compressed form.
BandedProduct ==
  LET n == host.input.n
      near(i) == { c \in 0..n - 1 : c # i /\ c - i \in -host.input.band..host.input.band }
  IN  \A i \in 0..n - 1 : gmem[i] = 4 * X(i) - SumOver([c \in near(i) |-> X(c)])
-------------------------------------------------------------------------------
(* Groups of a warp, each with a leader that works on device memory.       *)

Splits(w, kernels, groups, first) ==
  /\ Runs(w, kernels)
  /\ reg' = [reg EXCEPT ![w] =
               [started |-> TRUE, stage |-> [g \in groups |-> first],
                old |-> [t \in UNION groups |-> 0]]]
  /\ UNCHANGED << host, gmem, smem, round >>

At(w, g, kernels, stage) ==
  host.kernel \in kernels /\ g \in DOMAIN reg[w].stage /\ reg[w].stage[g] = stage

Advance(w, g, stage) ==
  reg' = [reg EXCEPT ![w].stage[g] = stage] /\ UNCHANGED << host, smem, round >>

(* warp_aggregated_atomics_cg: a histogram of labels, each element with a  *)
(* weight; a sum of weights tells whose they are.                          *)

Histograms == {"weighted_histogram", "naive_histogram"}

Weight(t) == 2^t
TotalWeight(threads) == MapThenSumSet(Weight, threads)
Label(g) == host.input[CHOOSE t \in g : TRUE]

\* thread_rank
Rank(g, t) == Cardinality({ u \in g : u < t })

\* labeled_partition of the active threads
SplitByLabel(w) ==
  Splits(w, {"weighted_histogram"},
         { { t \in Active(w) : host.input[t] = l } : l \in Labels } \ {{}}, "count")

\* naive_histogram_kernel: each thread for itself
SplitSingly(w) == Splits(w, {"naive_histogram"}, { {t} : t \in Active(w) }, "count")

\* The leader's atomicAdd of the group's size, whose result every member gets.
AddCount(w, g) ==
  /\ At(w, g, Histograms, "count")
  /\ gmem' = [gmem EXCEPT !.count[Label(g)] = @ + Cardinality(g)]
  /\ reg' = [reg EXCEPT ![w].stage[g] = "weight",
               ![w].old = [t \in DOMAIN @ |-> IF t \in g /\ host.kernel = "weighted_histogram"
                                              THEN gmem.count[Label(g)] ELSE @[t]]]
  /\ UNCHANGED << host, smem, round >>

\* Its atomicAdd of the weights, and each member's inclusive_scan.
AddWeight(w, g) ==
  /\ At(w, g, Histograms, "weight")
  /\ LET scanned(t) == TotalWeight({ u \in g : u <= t }) IN
       gmem' = [gmem EXCEPT !.weight[Label(g)] = @ + TotalWeight(g),
                            !.scan = [t \in DOMAIN @ |-> IF t \in g /\ host.kernel = "weighted_histogram"
                                                         THEN scanned(t) ELSE @[t]]]
  /\ Advance(w, g, "done")

InitHistogram ==
  \E n \in Elements : \E labels \in [0..n - 1 -> Labels] :
  \E kernel \in Histograms :
    Launch(kernel, BlockSize, n, labels,
           [ count |-> [l \in Labels |-> 0], weight |-> [l \in Labels |-> 0],
             scan |-> [t \in 0..n - 1 |-> 0] ])

\* The elements of a label in the histogram are all and only its own.
HistogramRight ==
  \A l \in Labels :
    LET own == { t \in 0..host.n - 1 : host.input[t] = l } IN
      gmem.count[l] = Cardinality(own) /\ gmem.weight[l] = TotalWeight(own)
-------------------------------------------------------------------------------
(* binary_partition_cg: a warp's values split by sign.                     *)

\* The bits of a float, as a signed integer: of the negative ones the larger is below.
IntMin == -(3 * FltMax)
Bits(v) == IF v >= 0 THEN v ELSE IntMin - v

Positive(g) == \A t \in g : host.input[t] >= 0

SplitBySign(w) ==
  LET positive == { t \in Threads(w) : host.input[t] >= 0 } IN
    Splits(w, {"conditional_route"}, { positive, Threads(w) \ positive } \ {{}}, "extreme")

\* The group's largest, or smallest, value, by atomicMax or atomicMin on its bits.
RouteExtreme(w, g) ==
  /\ At(w, g, {"conditional_route"}, "extreme")
  /\ LET values == { host.input[t] : t \in g }
         i == WarpIndex(w)
     IN  gmem' = IF Positive(g) THEN [gmem EXCEPT !.pos_max[i] = Max({@, Bits(Max(values))})]
                                ELSE [gmem EXCEPT !.neg_min[i] = Min({@, Bits(Min(values))})]
  /\ Advance(w, g, "count")

RouteCount(w, g) ==
  /\ At(w, g, {"conditional_route"}, "count")
  /\ LET i == WarpIndex(w) IN
       gmem' = IF Positive(g) THEN [gmem EXCEPT !.pos_count[i] = @ + Cardinality(g)]
                              ELSE [gmem EXCEPT !.neg_count[i] = @ + Cardinality(g)]
  /\ Advance(w, g, "done")

InitRoute ==
  \E data \in [Lane -> Reals] :
    Launch("conditional_route", BlockSize, WarpSize, data,
           [ pos_max |-> [i \in {0} |-> Bits(-FltMax)], neg_min |-> [i \in {0} |-> Bits(FltMax)],
             pos_count |-> [i \in {0} |-> 0], neg_count |-> [i \in {0} |-> 0] ])

\* What main compares: the extremes of the signs that occur, and how many there are.
RoutedRight ==
  \A i \in DOMAIN gmem.pos_max :
    LET data == { << l, host.input[i * WarpSize + l] >> : l \in Lane }
        positive == { p \in data : p[2] >= 0 }
        values(s) == { p[2] : p \in s }
    IN  /\ gmem.pos_count[i] = Cardinality(positive)
        /\ gmem.neg_count[i] = Cardinality(data \ positive)
        /\ positive # {} => gmem.pos_max[i] = Bits(Max(values(positive)))
        /\ data \ positive # {} => gmem.neg_min[i] = Bits(Min(values(data \ positive)))
-------------------------------------------------------------------------------
(* atomic_intrinsics: every thread does each operation once, on a slot of  *)
(* its own; a behaviour looks at one slot.  The slots of the bitwise       *)
(* operations are sets of bits; 1 << tid is one of them for each thread.  *)

BitSet(n) == { b \in 0..9 : (n \div 2^b) % 2 = 1 }

Slots == {"And", "Or", "Xor", "Add", "Sub", "Exch", "Max", "Min", "Inc", "Dec", "Cas"}

BitwiseSeed == BitSet(255)

\* The slot before the launch.
Seed(slot) == CASE slot \in {"And", "Xor"} -> BitwiseSeed [] slot = "Or" -> {} [] OTHER -> 0

\* The operation of thread tid, as the slot's next value.
AtomicOp(slot, old, tid) ==
  CASE slot = "And"  -> old \cap BitSet(2 * tid + 7)
    [] slot = "Or"   -> old \cup {tid}
    [] slot = "Xor"  -> (old \cup BitSet(tid)) \ (old \cap BitSet(tid))
    [] slot = "Add"  -> old + 10
    [] slot = "Sub"  -> old - 10
    [] slot = "Exch" -> tid
    [] slot = "Max"  -> Max({old, tid})
    [] slot = "Min"  -> Min({old, tid})
    [] slot = "Inc"  -> IF old >= AtomicIncLimit THEN 0 ELSE old + 1
    [] slot = "Dec"  -> IF old = 0 \/ old > AtomicDecLimit THEN AtomicDecLimit ELSE old - 1
    [] slot = "Cas"  -> IF old = tid - 1 THEN tid ELSE old

EachThread(w) == Splits(w, {"atomic_op_suite"}, { {t} : t \in Active(w) }, "atomic")

DoAtomic(w, g) ==
  /\ At(w, g, {"atomic_op_suite"}, "atomic")
  /\ gmem' = AtomicOp(host.input, gmem, CHOOSE t \in g : TRUE)
  /\ Advance(w, g, "done")

InitAtomics ==
  \E n \in Elements, slot \in Slots : Launch("atomic_op_suite", BlockSize, n, slot, Seed(slot))

\* computeGold: thread after thread, or all that the order of threads leaves open.
Accepted(slot, len) ==
  LET start == CASE slot = "Max" -> -256 [] slot = "Min" -> 256 [] OTHER -> Seed(slot)
      after[i \in 0..len] == IF i = 0 THEN start ELSE AtomicOp(slot, after[i - 1], i - 1)
  IN  CASE slot = "Add" -> {10 * len}
        [] slot = "Sub" -> {-(10 * len)}
        [] slot \in {"Exch", "Cas"} -> 0..len - 1
        [] OTHER -> {after[len]}
-------------------------------------------------------------------------------
Init == InitRedux \/ InitVote \/ InitSpmv \/ InitHistogram \/ InitRoute \/ InitAtomics

Next ==
  \E w \in Warps :
    \/ Returns(w)
    \/ WarpRedux(w) \/ VoteAny(w) \/ VoteAll(w) \/ VoteMixed(w)
    \/ SpmvScalar(w) \/ SpmvVector(w)
    \/ SplitByLabel(w) \/ SplitSingly(w) \/ SplitBySign(w) \/ EachThread(w)
    \/ \E g \in DOMAIN reg[w].stage :
         AddCount(w, g) \/ AddWeight(w, g) \/ RouteExtreme(w, g) \/ RouteCount(w, g)
           \/ DoAtomic(w, g)

Spec == Init /\ [][Next]_machine /\ WF_machine(Next)

TypeOK ==
  /\ host.kernel \in { "redux", "any_vote", "all_vote", "mixed_vote", "spmv_scalar", "spmv_vector",
                       "weighted_histogram", "naive_histogram", "conditional_route", "atomic_op_suite" }
  /\ host.n \in Nat
  /\ \A w \in Warps :
       /\ reg[w].started \in BOOLEAN
       /\ reg[w].stage \in [DOMAIN reg[w].stage -> {"count", "weight", "extreme", "atomic", "done"}]
       /\ UNION DOMAIN reg[w].stage \subseteq Active(w)

Ended ==
  \A w \in Warps : reg[w].started /\ \A g \in DOMAIN reg[w].stage : reg[w].stage[g] = "done"

\* When a kernel has ended, the reductions, votes, products and extremes of its
\* warps are those of all their threads, and what the threads' atomic operations
\* left is what they leave in program order: what each sample's main compares.
Reduced ==
  Ended =>
    /\ host.kernel = "redux" => ReduxAgrees
    /\ host.kernel = "any_vote" => VerifyAny
    /\ host.kernel = "all_vote" => VerifyAll
    /\ host.kernel = "mixed_vote" => VerifyMixed
    /\ host.kernel \in {"spmv_scalar", "spmv_vector"} => BandedProduct
    /\ host.kernel \in Histograms => HistogramRight
    /\ host.kernel = "conditional_route" => RoutedRight
    /\ host.kernel = "atomic_op_suite" => gmem \in Accepted(host.input, host.n)

\* "Each thread now knows: old_count + its rank = its global position": at any
\* time these positions, of the groups of a label that have claimed theirs, are 0,
\* 1, ... up to its count, without gap or double; and what a group has scanned is
\* the weights of its warp's elements of the label, up to each.
ClaimedPositions ==
  LET position(w, g, t) == reg[w].old[t] + Rank(g, t)
      claimed(l) == { p \in UNION { {w} \X DOMAIN reg[w].stage : w \in Warps } :
                        Label(p[2]) = l /\ reg[p[1]].stage[p[2]] # "count" }
  IN  host.kernel = "weighted_histogram" =>
        /\ \A l \in Labels :
             UNION { { position(p[1], p[2], t) : t \in p[2] } : p \in claimed(l) }
               = 0..gmem.count[l] - 1
        /\ Ended =>
             \A w \in Warps : \A t \in Active(w) :
               gmem.scan[t] = TotalWeight({ u \in Active(w) : u <= t /\ host.input[u] = host.input[t] })
===============================================================================
