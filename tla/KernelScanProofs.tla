---------------------------- MODULE KernelScanProofs -----------------------------
(***************************************************************************)
(* What the kernels that scan and compact leave in memory, whatever the    *)
(* numbers of threads and warps, the lengths and the inputs:               *)
(* ScannedCorrectly of KernelMachines; and what cooperative_sync sums.     *)
(*                                                                         *)
(* What carries the arguments:                                             *)
(*   What is claimed with atomicAdd fills the numbers below the counter,   *)
(*     as in stream_compact in one pass (CompactInv of KernelProofs).      *)
(*   stream_compact in two passes: after k rounds an element counts the    *)
(*     passing ones among the 2^k up to it (Window), so in the end its     *)
(*     rank.                                                               *)
(*   scan: what a warp has left in an element depends on the round it is   *)
(*     in only (SweptTo), and the two of a pair are of rounds that differ  *)
(*     by one at most: on the way up an element has the sum of a stretch   *)
(*     of a power of 2, on the way down the sum before that stretch.       *)
(*   cooperative_sync: a thread that comes to a level has the sum of the   *)
(*     ranks a stride apart from its own, in closed form.                  *)
(***************************************************************************)
EXTENDS KernelProofs
-------------------------------------------------------------------------------
(* stream_compact in two passes: the output is the passing elements in order *)

\* The warps of both kernels, the elements of a block that pass, and how many of a
\* set's elements are among the d up to t.
FlagGrid        == TwoPass!Blocks \X (0..(CompactBlock \div WarpSize) - 1)
Passing(b)      == { t \in TwoPass!Thread : b * CompactBlock + t \in host.prime }
Window(B, t, d) == Cardinality({ u \in B : t - d < u /\ u <= t })

FlagTypes ==
  /\ host \in [stage : {"flags", "scatter", "done"}, prime : SUBSET TwoPass!Index,
               total : 0..FlagsN]
  /\ smem \in [TwoPass!Blocks -> [TwoPass!Thread -> -1..CompactBlock]]
  /\ DOMAIN reg = FlagGrid /\ \A w \in FlagGrid :
       reg[w] \in [TwoPass!Lanes(w) -> -1..CompactBlock]
  /\ gmem \in [flags : [TwoPass!Index -> -1..CompactBlock - 1],
               output : [TwoPass!Index -> TwoPass!Index \cup {TwoPass!Unwritten}],
               block_sums : [TwoPass!Blocks -> -1..CompactBlock],
               block_prefixes : [TwoPass!Blocks -> -1..FlagsN]]

\* The scan: warps are a round apart at most; after k rounds of adding, an element of
\* the shared array counts the passing elements among the 2^k up to it, and then its
\* thread's register, between reading and adding, those of the 2^k before.
FlagRounds ==
  /\ round \in [FlagGrid -> 0..TwoPass!LastRound + 1]
  /\ \A v, w \in FlagGrid : v[1] = w[1] => round[v] <= round[w] + 1

Summed(w) ==
  \A k \in 0..TwoPass!Log2(CompactBlock) : round[w] \in {2 * k + 1, 2 * k + 2} =>
    \A t \in TwoPass!Lanes(w) : smem[w[1]][t] = Window(Passing(w[1]), t, 2^k)

Carried(w) ==
  \A k \in 0..TwoPass!Log2(CompactBlock) - 1 : round[w] = 2 * k + 2 =>
    \A t \in TwoPass!Lanes(w) :
      reg[w][t] = IF t >= 2^k THEN Window(Passing(w[1]), t - 2^k, 2^k) ELSE 0

FlagWritten(w) ==
  round[w] = TwoPass!LastRound + 1 =>
    \A t \in TwoPass!Lanes(w) :
      /\ TwoPass!IndexOf(w, t) \in TwoPass!Index =>
           gmem.flags[TwoPass!IndexOf(w, t)] = Rank(Passing(w[1]), t)
      /\ t = CompactBlock - 1 => gmem.block_sums[w[1]] = Cardinality(Passing(w[1]))

FlagsInv ==
  /\ host.stage = "flags" /\ FlagTypes /\ FlagRounds
  /\ \A w \in FlagGrid : Summed(w) /\ Carried(w) /\ FlagWritten(w)

\* The second kernel: each element's position is its rank, and a warp at its end has
\* its elements there.
Stored(w) ==
  round[w] = 1 =>
    \A i \in host.prime : i - w[1] * CompactBlock \in TwoPass!Lanes(w) =>
      gmem.output[Rank(host.prime, i)] = i

ScatterInv ==
  /\ host.stage # "flags" /\ FlagTypes /\ round \in [FlagGrid -> 0..1]
  /\ host.total = Cardinality(host.prime)
  /\ \A i \in host.prime : TwoPass!Position(i) = Rank(host.prime, i)
  /\ \A w \in FlagGrid : Stored(w)
  /\ host.stage = "done" => \A w \in FlagGrid : round[w] = 1

TwoPassInv == FlagsInv \/ ScatterInv

\* Powers of 2 count the subsets,
LEMMA SubsetsOf == ASSUME NEW k \in Nat
                   PROVE IsFiniteSet(SUBSET (1..k)) /\ Cardinality(SUBSET (1..k)) = 2^k
  <1>1. IsFiniteSet(1..k) /\ Cardinality(1..k) = k
    <2>1. IsFiniteSet(1..k) /\ Cardinality(1..k) = IF 1 > k THEN 0 ELSE k - 1 + 1
      BY FS_Interval
    <2> QED BY <2>1
  <1> QED BY <1>1, FS_SUBSET

\* and so double with the next exponent.
LEMMA Powers ==
  /\ 2^0 = 1
  /\ \A k \in Nat : 2^k \in Nat \ {0} /\ 2^(k + 1) = 2 * 2^k
  <1>1. 2^0 = 1
    <2>1. 1..0 = {} /\ SUBSET {} = {{}}
      OBVIOUS
    <2>2. Cardinality({{}}) = 1
      BY FS_Singleton
    <2>3. Cardinality(SUBSET (1..0)) = 2^0
      BY SubsetsOf
    <2>4. SUBSET (1..0) = {{}}
      BY <2>1
    <2> QED BY <2>2, <2>3, <2>4
  <1>2. ASSUME NEW k \in Nat PROVE 2^(k + 1) = 2 * 2^k
    <2> DEFINE S == SUBSET (1..k)
               T == { s \cup {k + 1} : s \in S }
               f == [s \in S |-> s \cup {k + 1}]
    <2>1. k + 1 \in Nat /\ IsFiniteSet(S) /\ Cardinality(S) = 2^k
          /\ Cardinality(SUBSET (1..k + 1)) = 2^(k + 1)
      BY SubsetsOf
    <2>2. k + 1 \notin 1..k
      OBVIOUS
    <2>3. f \in Bijection(S, T)
      <3>1. \A r, s \in S : r \cup {k + 1} = s \cup {k + 1} => r = s
        <4> SUFFICES ASSUME NEW r \in S, NEW s \in S, r \cup {k + 1} = s \cup {k + 1} PROVE r = s
          OBVIOUS
        <4>1. r = (r \cup {k + 1}) \ {k + 1} /\ s = (s \cup {k + 1}) \ {k + 1}
          BY <2>2
        <4> QED BY <4>1
      <3>2. f \in [S -> T] /\ \A t \in T : \E s \in S : f[s] = t
        OBVIOUS
      <3>3. \A r, s \in S : f[r] = f[s] => r = s
        BY <3>1
      <3> QED BY <3>2, <3>3 DEF Bijection, Injection, Surjection, IsInjective
    <2>4. IsFiniteSet(T) /\ Cardinality(T) = Cardinality(S)
      <3>1. ExistsBijection(S, T)
        BY <2>3 DEF ExistsBijection
      <3> QED BY <2>1, <3>1, FS_Bijection
    <2>5. S \cap T = {}
      <3>1. \A s \in S : k + 1 \notin s
        BY <2>2
      <3>2. \A t \in T : k + 1 \in t
        OBVIOUS
      <3> QED BY <3>1, <3>2
    <2>6. SUBSET (1..k + 1) = S \cup T
      <3>1. 1..k + 1 = (1..k) \cup {k + 1}
        OBVIOUS
      <3>2. ASSUME NEW s \in SUBSET (1..k + 1) PROVE s \in S \cup T
        <4>1. CASE k + 1 \in s
          <5>1. s = (s \ {k + 1}) \cup {k + 1} /\ s \ {k + 1} \in S
            BY <3>1, <4>1
          <5> QED BY <5>1
        <4>2. CASE k + 1 \notin s
          BY <3>1, <4>2
        <4> QED BY <4>1, <4>2
      <3>3. ASSUME NEW s \in S \cup T PROVE s \in SUBSET (1..k + 1)
        BY <3>1
      <3> QED BY <3>2, <3>3
    <2>7. Cardinality(S \cup T) = Cardinality(S) + Cardinality(T) - Cardinality(S \cap T)
      BY <2>1, <2>4, FS_Union
    <2>8. Cardinality({}) = 0
      BY FS_EmptySet
    <2>9. Cardinality(S) \in Nat
      BY <2>1, FS_CardinalityType
    <2> HIDE DEF S, T
    <2>10. Cardinality(S \cup T) = Cardinality(S) + Cardinality(S) - 0
      BY <2>4, <2>5, <2>7, <2>8
    <2>11. Cardinality(S \cup T) = 2 * Cardinality(S)
      BY ONLY <2>9, <2>10
    <2>12. Cardinality(S \cup T) = 2^(k + 1)
      BY <2>1, <2>6
    <2> QED BY ONLY <2>1, <2>11, <2>12
  <1> QED BY <1>1, <1>2, PowerOfTwo

\* How many of a finite set's elements are in a stretch.
WindowsAt(B, t) ==
  /\ \A d \in Nat : Window(B, t, d) \in 0..Cardinality(B)
  /\ Window(B, t, 1) = IF t \in B THEN 1 ELSE 0
  /\ \A d \in Nat : Window(B, t, d) + Window(B, t - d, d) = Window(B, t, 2 * d)
  /\ \A d \in Nat : (\A u \in B : t - d < u) =>
       /\ Window(B, t, 2 * d) = Window(B, t, d)
       /\ Window(B, t, d) - (IF t \in B THEN 1 ELSE 0) = Rank(B, t)
       /\ (\A u \in B : u <= t) => Window(B, t, d) = Cardinality(B)

\* What a window counts, and how two of them join.
LEMMA Windows == ASSUME NEW B, IsFiniteSet(B), B \subseteq Int, NEW t \in Int
                 PROVE WindowsAt(B, t)
  <1> DEFINE in(r, d) == { u \in B : r - d < u /\ u <= r }
  <1>1. Cardinality(B) \in Nat
    BY FS_CardinalityType
  <1>2. ASSUME NEW S \in SUBSET B PROVE IsFiniteSet(S) /\ Cardinality(S) \in 0..Cardinality(B)
    <2>1. IsFiniteSet(S) /\ Cardinality(S) <= Cardinality(B)
      BY FS_Subset
    <2>2. Cardinality(S) \in Nat
      BY <2>1, FS_CardinalityType
    <2> QED BY <1>1, <2>1, <2>2
  <1>3. \A r, d \in Int : IsFiniteSet(in(r, d)) /\ Cardinality(in(r, d)) \in 0..Cardinality(B)
    <2> TAKE r, d \in Int
    <2>1. in(r, d) \in SUBSET B
      OBVIOUS
    <2> HIDE DEF in
    <2> QED BY <1>2, <2>1
  <1>4. \A d \in Nat : Window(B, t, d) \in 0..Cardinality(B)
    BY <1>3 DEF Window
  <1>5. Window(B, t, 1) = IF t \in B THEN 1 ELSE 0
    <2>1. in(t, 1) = IF t \in B THEN {t} ELSE {}
      <3>1. \A u \in B : u \in Int
        OBVIOUS
      <3>2. \A u \in B : t - 1 < u /\ u <= t <=> u = t
        BY <3>1
      <3> QED BY <3>2
    <2>2. Cardinality({t}) = 1 /\ Cardinality({}) = 0
      BY FS_Singleton, FS_EmptySet
    <2> QED BY <2>1, <2>2 DEF Window
  <1>6. ASSUME NEW d \in Nat PROVE Window(B, t, d) + Window(B, t - d, d) = Window(B, t, 2 * d)
    <2>1. \A u \in B : u \in Int
      OBVIOUS
    <2>2. in(t, 2 * d) = in(t, d) \cup in(t - d, d) /\ in(t, d) \cap in(t - d, d) = {}
      <3>1. \A u \in B :
              t - 2 * d < u /\ u <= t <=> (t - d < u /\ u <= t) \/ (t - d - d < u /\ u <= t - d)
        BY <2>1
      <3>2. \A u \in B : ~ ((t - d < u /\ u <= t) /\ (t - d - d < u /\ u <= t - d))
        BY <2>1
      <3>3. in(t, 2 * d) = in(t, d) \cup in(t - d, d)
        BY <3>1, Zenon
      <3>4. in(t, d) \cap in(t - d, d) = {}
        BY <3>2, Zenon
      <3> QED BY <3>3, <3>4
    <2>3. Cardinality(in(t, d)) = Window(B, t, d)
          /\ Cardinality(in(t - d, d)) = Window(B, t - d, d)
          /\ Cardinality(in(t, 2 * d)) = Window(B, t, 2 * d)
      BY DEF Window
    <2>4. t - d \in Int /\ d \in Int
      OBVIOUS
    <2>5. IsFiniteSet(in(t, d)) /\ IsFiniteSet(in(t - d, d))
      BY <1>3, <2>4
    <2>6. Cardinality(in(t, d)) \in Nat /\ Cardinality(in(t - d, d)) \in Nat
          /\ Cardinality({}) = 0
      BY <2>5, FS_CardinalityType, FS_EmptySet
    <2> HIDE DEF in
    <2>7. Cardinality(in(t, d) \cup in(t - d, d))
            = Cardinality(in(t, d)) + Cardinality(in(t - d, d)) - Cardinality(in(t, d) \cap in(t - d, d))
      BY <2>5, FS_Union
    <2>8. Cardinality(in(t, d) \cap in(t - d, d)) = 0
      BY <2>2, <2>6
    <2>9. Cardinality(in(t, 2 * d)) = Cardinality(in(t, d)) + Cardinality(in(t - d, d)) - 0
      BY <2>2, <2>7, <2>8
    <2>10. Cardinality(in(t, 2 * d)) = Cardinality(in(t, d)) + Cardinality(in(t - d, d))
      BY ONLY <2>6, <2>9
    <2> QED BY <2>3, <2>10
  <1>7. ASSUME NEW d \in Nat, \A u \in B : t - d < u
        PROVE  /\ Window(B, t, 2 * d) = Window(B, t, d)
               /\ Window(B, t, d) - (IF t \in B THEN 1 ELSE 0) = Rank(B, t)
               /\ (\A u \in B : u <= t) => Window(B, t, d) = Cardinality(B)
    <2> DEFINE low == { u \in B : u < t }
    <2>1. \A u \in B : u \in Int /\ t - d < u /\ t - 2 * d < u
      BY <1>7
    <2>2. in(t, 2 * d) = in(t, d)
      BY <2>1
    <2>3. in(t, d) = IF t \in B THEN low \cup {t} ELSE low
      <3>1. \A u \in B : u <= t <=> (u < t \/ u = t)
        BY <2>1
      <3> QED BY <2>1, <3>1
    <2>4. IsFiniteSet(low) /\ Cardinality(low) \in Nat /\ t \notin low
      <3>1. low \in SUBSET B /\ t \notin low
        OBVIOUS
      <3> HIDE DEF low
      <3>2. IsFiniteSet(low)
        BY <1>2, <3>1
      <3> QED BY <3>1, <3>2, FS_CardinalityType
    <2>5. Cardinality(low \cup {t}) = Cardinality(low) + 1
      <3> HIDE DEF low
      <3> QED BY <2>4, FS_AddElement
    <2>6. (\A u \in B : u <= t) => in(t, d) = B
      BY <2>1
    <2>7. Cardinality(low) = Rank(B, t)
      BY DEF Rank
    <2>8. Cardinality(in(t, d)) = Window(B, t, d)
          /\ Cardinality(in(t, 2 * d)) = Window(B, t, 2 * d)
      BY DEF Window
    <2> HIDE DEF in, low
    <2>9. Window(B, t, 2 * d) = Window(B, t, d)
      BY <2>2, <2>8
    <2>10. (\A u \in B : u <= t) => Window(B, t, d) = Cardinality(B)
      BY <2>6, <2>8
    <2>11. Window(B, t, d) - (IF t \in B THEN 1 ELSE 0) = Rank(B, t)
      <3>1. CASE t \in B
        <4>1. Window(B, t, d) = Cardinality(low) + 1
          BY <2>3, <2>5, <2>8, <3>1
        <4> QED BY <2>4, <2>7, <3>1, <4>1
      <3>2. CASE t \notin B
        <4>1. Window(B, t, d) = Cardinality(low)
          BY <2>3, <2>8, <3>2
        <4> QED BY <2>4, <2>7, <3>2, <4>1
      <3> QED BY <3>1, <3>2
    <2> QED BY <2>9, <2>10, <2>11
  <1> QED BY <1>4, <1>5, <1>6, <1>7 DEF WindowsAt

\* The same, for one stretch.
LEMMA WindowTwice ==
  ASSUME NEW B, IsFiniteSet(B), B \subseteq Int, NEW t \in Int, NEW d \in Nat
  PROVE  /\ Window(B, t, d) + Window(B, t - d, d) = Window(B, t, 2 * d)
         /\ Window(B, t, d) \in 0..Cardinality(B) /\ Window(B, t, 2 * d) \in 0..Cardinality(B)
  <1>1. 2 * d \in Nat
    OBVIOUS
  <1>2. WindowsAt(B, t)
    BY Windows
  <1> QED BY <1>1, <1>2 DEF WindowsAt

\* A window that starts before all elements counts those up to its end.
LEMMA WindowWhole ==
  ASSUME NEW B, IsFiniteSet(B), B \subseteq Int, NEW t \in Int, NEW d \in Nat,
         \A u \in B : t - d < u
  PROVE  /\ Window(B, t, 2 * d) = Window(B, t, d)
         /\ Window(B, t, d) - (IF t \in B THEN 1 ELSE 0) = Rank(B, t)
         /\ (\A u \in B : u <= t) => Window(B, t, d) = Cardinality(B)
  <1>1. WindowsAt(B, t)
    BY Windows
  <1> QED BY <1>1 DEF WindowsAt

\* Each element has a thread of a warp, and only one.
LEMMA FlagPlaces ==
  ASSUME TwoPass!SizesAssumption
  PROVE  /\ \A w \in FlagGrid :
              w[1] \in TwoPass!Blocks /\ TwoPass!Lanes(w) \subseteq TwoPass!Thread
         /\ \A v, w \in FlagGrid : \A t \in TwoPass!Lanes(v) :
              v[1] = w[1] /\ t \in TwoPass!Lanes(w) => v = w
         /\ \A b \in TwoPass!Blocks : \A t \in TwoPass!Thread : \E w \in FlagGrid :
              w[1] = b /\ t \in TwoPass!Lanes(w)
         /\ \A i \in TwoPass!Index : \E b \in TwoPass!Blocks : \E t \in TwoPass!Thread :
              i = b * CompactBlock + t /\ b = i \div CompactBlock
         /\ \A b, c \in TwoPass!Blocks : \A t, u \in TwoPass!Thread :
              b * CompactBlock + t = c * CompactBlock + u => b = c /\ t = u
         /\ \A b \in TwoPass!Blocks : b \in Nat /\ b * CompactBlock \in Nat
         /\ TwoPass!GridSize \in Nat
  <1>1. /\ FlagsN \in Nat \ {0} /\ CompactBlock \in Nat \ {0} /\ WarpSize \in Nat \ {0}
        /\ CompactBlock % WarpSize = 0
    BY DEF TwoPass!SizesAssumption
  <1> DEFINE m == (FlagsN + CompactBlock - 1) \div CompactBlock
             k == CompactBlock \div WarpSize
             B == CompactBlock
             W == WarpSize
  <1>2. /\ TwoPass!Blocks = 0..m - 1 /\ FlagGrid = (0..m - 1) \X (0..k - 1)
        /\ TwoPass!Index = 0..FlagsN - 1
        /\ TwoPass!Thread = 0..B - 1 /\ TwoPass!GridSize = m
    BY DEF TwoPass!Blocks, TwoPass!GridSize, FlagGrid, TwoPass!CeilDiv, TwoPass!Index,
           TwoPass!Thread
  <1>3. /\ m \in Nat \ {0}
        /\ \A c \in 0..k - 1, l \in 0..W - 1 : c * W + l \in 0..B - 1
        /\ \A t \in 0..B - 1 : \E c \in 0..k - 1, l \in 0..W - 1 : t = c * W + l
        /\ \A i \in 0..FlagsN - 1 : \E c \in 0..m - 1, t \in 0..B - 1 :
             i = c * B + t /\ c = i \div B
        /\ \A c, d \in Nat : \A t, u \in 0..B - 1 : c * B + t = d * B + u => c = d /\ t = u
    <2>1. PlacesOf(FlagsN, CompactBlock, WarpSize)
      BY <1>1, Places
    <2> QED BY <2>1, Zenon DEF PlacesOf
  <1>4. k \in Nat \ {0}
    BY <1>1, WholeQuotient
  <1>5. \A w : TwoPass!Lanes(w) = { w[2] * W + l : l \in 0..W - 1 }
    BY DEF TwoPass!Lanes
  <1> HIDE DEF m, k
  <1>6. \A w \in FlagGrid : w[1] \in 0..m - 1 /\ w[2] \in 0..k - 1 /\ w = << w[1], w[2] >>
    BY <1>2
  <1>7. \A w \in FlagGrid : w[1] \in TwoPass!Blocks /\ TwoPass!Lanes(w) \subseteq TwoPass!Thread
    <2> TAKE w \in FlagGrid
    <2>1. w[1] \in 0..m - 1 /\ w[2] \in 0..k - 1
      BY <1>6
    <2>2. \A l \in 0..W - 1 : w[2] * W + l \in 0..B - 1
      BY <1>3, <2>1
    <2>3. TwoPass!Lanes(w) \subseteq 0..B - 1
      BY <1>5, <2>2, Zenon
    <2> QED BY <1>2, <2>1, <2>3
  <1>8. ASSUME NEW v \in FlagGrid, NEW w \in FlagGrid, NEW t \in TwoPass!Lanes(v),
               v[1] = w[1], t \in TwoPass!Lanes(w)
        PROVE  v = w
    <2>1. PICK l \in 0..W - 1 : t = v[2] * W + l
      BY <1>5
    <2>2. PICK j \in 0..W - 1 : t = w[2] * W + j
      BY <1>5, <1>8
    <2> DEFINE d == v[2]
               e == w[2]
    <2>3. d \in Nat /\ e \in Nat
      BY <1>4, <1>6
    <2>4. d * W + l = e * W + j
      BY <2>1, <2>2
    <2>5. d = e
      <3> HIDE DEF d, e
      <3> QED BY <1>1, <2>3, <2>4, DigitsUnique
    <2> QED BY <1>6, <1>8, <2>5
  <1>9. ASSUME NEW b \in TwoPass!Blocks, NEW t \in TwoPass!Thread
        PROVE  \E w \in FlagGrid : w[1] = b /\ t \in TwoPass!Lanes(w)
    <2>1. PICK c \in 0..k - 1, l \in 0..W - 1 : t = c * W + l
      BY <1>2, <1>3
    <2>2. << b, c >> \in FlagGrid /\ << b, c >>[1] = b /\ << b, c >>[2] = c
      BY <1>2
    <2>3. t \in TwoPass!Lanes(<< b, c >>)
      BY <1>5, <2>1, <2>2
    <2> QED BY <2>2, <2>3
  <1>10. \A i \in TwoPass!Index : \E b \in TwoPass!Blocks : \E t \in TwoPass!Thread :
           i = b * CompactBlock + t /\ b = i \div CompactBlock
    <2> TAKE i \in TwoPass!Index
    <2>1. PICK c \in 0..m - 1, t \in 0..B - 1 : i = c * B + t /\ c = i \div B
      BY <1>2, <1>3
    <2> QED BY <1>2, <2>1
  <1>11. \A b \in TwoPass!Blocks : b \in Nat /\ b * CompactBlock \in Nat
    <2> TAKE b \in TwoPass!Blocks
    <2>1. b \in Nat
      BY <1>2, <1>3
    <2> QED BY <1>1, <2>1
  <1>12. \A b, c \in TwoPass!Blocks : \A t, u \in TwoPass!Thread :
              b * CompactBlock + t = c * CompactBlock + u => b = c /\ t = u
    <2> TAKE b, c \in TwoPass!Blocks
    <2> TAKE t, u \in TwoPass!Thread
    <2>1. b \in Nat /\ c \in Nat
      BY <1>11
    <2>2. t \in 0..B - 1 /\ u \in 0..B - 1
      BY <1>2
    <2> QED BY <1>3, <2>1, <2>2
  <1> QED BY <1>2, <1>3, <1>7, <1>8, <1>9, <1>10, <1>11, <1>12

\* The rounds of the scan: for each power of 2 below the block's size one that reads
\* and one that adds.
LEMMA FlagLevels ==
  ASSUME TwoPass!SizesAssumption
  PROVE  /\ TwoPass!Log2(CompactBlock) \in Nat /\ 2^TwoPass!Log2(CompactBlock) = CompactBlock
         /\ TwoPass!LastRound = 2 * TwoPass!Log2(CompactBlock) + 1
         /\ \A r \in TwoPass!ReadRounds : \E k \in 0..TwoPass!Log2(CompactBlock) - 1 :
              r = 2 * k + 1
         /\ \A r \in TwoPass!AddRounds : \E k \in 0..TwoPass!Log2(CompactBlock) - 1 :
              r = 2 * k + 2
         /\ \A w : \A k \in Nat : round[w] = 2 * k + 1 => TwoPass!Offset(w) = 2^k
         /\ TwoPass!ReadRounds \subseteq 0..TwoPass!LastRound
         /\ TwoPass!AddRounds \subseteq 0..TwoPass!LastRound
  <1> DEFINE L == TwoPass!Log2(CompactBlock)
  <1>1. L \in Nat /\ 2^L = CompactBlock
    <2>1. PICK k \in 0..CompactBlock : 2^k = CompactBlock
      BY DEF TwoPass!SizesAssumption
    <2>2. L \in 0..CompactBlock /\ 2^L = CompactBlock
      BY <2>1 DEF TwoPass!Log2
    <2>3. CompactBlock \in Nat
      BY DEF TwoPass!SizesAssumption
    <2> QED BY <2>2, <2>3
  <1>2. TwoPass!LastRound = 2 * L + 1
    BY DEF TwoPass!LastRound
  <1> HIDE DEF L
  <1>3. ASSUME NEW r \in TwoPass!ReadRounds PROVE \E k \in 0..L - 1 : r = 2 * k + 1
    <2>1. r \in 1..2 * L /\ r % 2 = 1
      BY <1>1, <1>2 DEF TwoPass!ReadRounds
    <2>2. r = 2 * (r \div 2) + 1 /\ r \div 2 \in 0..L - 1
      BY <1>1, <2>1
    <2> QED BY <2>2
  <1>4. ASSUME NEW r \in TwoPass!AddRounds PROVE \E k \in 0..L - 1 : r = 2 * k + 2
    <2>1. r \in 1..2 * L /\ r % 2 = 0
      BY <1>1, <1>2 DEF TwoPass!AddRounds
    <2>2. r = 2 * (r \div 2 - 1) + 2 /\ r \div 2 - 1 \in 0..L - 1
      BY <1>1, <2>1
    <2> QED BY <2>2
  <1>5. ASSUME NEW w, NEW k \in Nat, round[w] = 2 * k + 1 PROVE TwoPass!Offset(w) = 2^k
    <2>1. (round[w] - 1) \div 2 = k
      BY <1>5
    <2> QED BY <2>1 DEF TwoPass!Offset
  <1>6. TwoPass!ReadRounds \subseteq 0..TwoPass!LastRound
        /\ TwoPass!AddRounds \subseteq 0..TwoPass!LastRound
    BY <1>1, <1>2 DEF TwoPass!ReadRounds, TwoPass!AddRounds
  <1> QED BY <1>1, <1>2, <1>3, <1>4, <1>5, <1>6 DEF L

\* A warp that passes a barrier finds the others of its block at its round or the next.
LEMMA FlagTurn ==
  ASSUME TwoPass!SizesAssumption, FlagRounds, NEW w \in FlagGrid,
         NEW R \in SUBSET (0..TwoPass!LastRound), TwoPass!Turn(w, R)
  PROVE  /\ round[w] \in R /\ round'[w] = round[w] + 1
         /\ \A v \in FlagGrid : v # w => round'[v] = round[v]
         /\ \A v \in FlagGrid : v[1] = w[1] => round[v] \in {round[w], round[w] + 1}
         /\ host.stage = "flags" /\ FlagRounds'
  <1>1. TwoPass!LastRound \in Nat
    BY FlagLevels
  <1>2. round \in [FlagGrid -> 0..TwoPass!LastRound + 1] /\ TwoPass!Warps = FlagGrid
        /\ \A u, v \in FlagGrid : u[1] = v[1] => round[u] <= round[v] + 1
    BY DEF FlagRounds, TwoPass!Warps
  <1>3. round[w] \in R /\ round[w] \in 0..TwoPass!LastRound
        /\ round' = [round EXCEPT ![w] = @ + 1]
        /\ \A v \in FlagGrid : v[1] = w[1] => round[v] >= round[w]
        /\ host.stage = "flags"
    BY <1>2 DEF TwoPass!Turn, TwoPass!Synced, TwoPass!Arrive
  <1> DEFINE m == TwoPass!LastRound
  <1> HIDE DEF m
  <1>4. round'[w] = round[w] + 1 /\ (\A v \in FlagGrid : v # w => round'[v] = round[v])
        /\ round' \in [FlagGrid -> 0..m + 1]
    BY <1>1, <1>2, <1>3 DEF m
  <1>5. ASSUME NEW v \in FlagGrid, v[1] = w[1] PROVE round[v] \in {round[w], round[w] + 1}
    BY <1>1, <1>2, <1>3, <1>5
  <1>6. ASSUME NEW u \in FlagGrid, NEW v \in FlagGrid, u[1] = v[1]
        PROVE  round'[u] <= round'[v] + 1
    <2>1. /\ round[u] \in 0..m + 1 /\ round[v] \in 0..m + 1 /\ round[u] <= round[v] + 1
          /\ (u = w => round[v] >= round[w]) /\ (v = w => round[u] \in {round[w], round[w] + 1})
      BY <1>2, <1>3, <1>5, <1>6 DEF m
    <2> QED BY <1>1, <1>4, <2>1 DEF m
  <1>7. FlagGrid' = FlagGrid /\ TwoPass!LastRound' = TwoPass!LastRound
    BY DEF FlagGrid, TwoPass!Blocks, TwoPass!GridSize, TwoPass!CeilDiv, TwoPass!LastRound,
           TwoPass!Log2
  <1>8. FlagRounds'
    BY <1>4, <1>6, <1>7 DEF FlagRounds, m
  <1> QED BY <1>3, <1>4, <1>5, <1>8

\* A block's passing elements are at most as many as its threads.
LEMMA PassingFacts ==
  ASSUME TwoPass!SizesAssumption, NEW b
  PROVE  /\ Passing(b) \subseteq TwoPass!Thread /\ Passing(b) \subseteq Int
         /\ IsFiniteSet(Passing(b)) /\ Cardinality(Passing(b)) \in 0..CompactBlock
         /\ \A t \in TwoPass!Thread :
              t \in 0..CompactBlock - 1 /\ Rank(Passing(b), t) \in 0..CompactBlock - 1
         /\ \A u \in Passing(b) : u \in 0..CompactBlock - 1
  <1>1. CompactBlock \in Nat \ {0} /\ TwoPass!Thread = 0..CompactBlock - 1
    BY DEF TwoPass!SizesAssumption, TwoPass!Thread
  <1>2. Passing(b) \in SUBSET (0..CompactBlock - 1)
    BY <1>1 DEF Passing
  <1>3. IsFiniteSet(0..CompactBlock - 1) /\ Cardinality(0..CompactBlock - 1) = CompactBlock
    BY <1>1, Below
  <1>4. IsFiniteSet(Passing(b)) /\ Cardinality(Passing(b)) <= CompactBlock
    <2> DEFINE P == Passing(b)
    <2>1. P \in SUBSET (0..CompactBlock - 1)
      BY <1>2
    <2> HIDE DEF P
    <2>2. IsFiniteSet(P) /\ Cardinality(P) <= Cardinality(0..CompactBlock - 1)
      BY ONLY <1>3, <2>1, FS_Subset
    <2> QED BY <1>3, <2>2 DEF P
  <1>5. Cardinality(Passing(b)) \in Nat
    BY <1>4, FS_CardinalityType
  <1>6. ASSUME NEW t \in TwoPass!Thread PROVE Rank(Passing(b), t) \in 0..CompactBlock - 1
    <2> DEFINE S == { m \in Passing(b) : m < t }
    <2>1. t \in Nat /\ t <= CompactBlock - 1
      BY <1>1
    <2>2. S \in SUBSET (0..t - 1)
      BY <1>2, <2>1
    <2>3. IsFiniteSet(0..t - 1) /\ Cardinality(0..t - 1) = t
      BY <2>1, Below
    <2> HIDE DEF S
    <2>4. IsFiniteSet(S) /\ Cardinality(S) <= t
      BY <2>2, <2>3, FS_Subset
    <2>5. Cardinality(S) \in Nat
      BY <2>4, FS_CardinalityType
    <2>6. Rank(Passing(b), t) = Cardinality(S)
      BY DEF Rank, S
    <2> QED BY <1>1, <2>1, <2>4, <2>5, <2>6
  <1> QED BY <1>1, <1>2, <1>4, <1>5, <1>6

\* What a step leaves of a warp's work stays true of it.
LEMMA WarpKept ==
  ASSUME NEW w \in FlagGrid, Summed(w), Carried(w), FlagWritten(w), host'.prime = host.prime,
         round'[w] = round[w], reg'[w] = reg[w],
         \A t \in TwoPass!Lanes(w) :
           /\ smem'[w[1]][t] = smem[w[1]][t]
           /\ TwoPass!IndexOf(w, t) \in TwoPass!Index =>
                gmem'.flags[TwoPass!IndexOf(w, t)] = gmem.flags[TwoPass!IndexOf(w, t)]
           /\ t = CompactBlock - 1 => gmem'.block_sums[w[1]] = gmem.block_sums[w[1]]
  PROVE  Summed(w)' /\ Carried(w)' /\ FlagWritten(w)'
  <1>1. Passing(w[1])' = Passing(w[1])
    BY DEF Passing, TwoPass!Thread
  <1>2. TwoPass!Log2(CompactBlock)' = TwoPass!Log2(CompactBlock)
        /\ TwoPass!Lanes(w)' = TwoPass!Lanes(w)
        /\ TwoPass!LastRound' = TwoPass!LastRound /\ TwoPass!Index' = TwoPass!Index
    BY DEF TwoPass!Log2, TwoPass!Lanes, TwoPass!LastRound, TwoPass!Index
  <1>3. \A t : TwoPass!IndexOf(w, t)' = TwoPass!IndexOf(w, t)
    BY DEF TwoPass!IndexOf
  <1>4. Summed(w)'
    BY <1>1, <1>2 DEF Summed
  <1>5. Carried(w)'
    BY <1>1, <1>2 DEF Carried
  <1>6. FlagWritten(w)'
    BY <1>1, <1>2, <1>3 DEF FlagWritten
  <1> QED BY <1>4, <1>5, <1>6

\* A warp stores to its lanes' elements only.
LEMMA SharedStore ==
  ASSUME TwoPass!SizesAssumption, FlagTypes, NEW w \in FlagGrid,
         NEW value, \A t \in TwoPass!Lanes(w) : value[t] \in -1..CompactBlock,
         smem' = TwoPass!Shared(w, value)
  PROVE  /\ smem' \in [TwoPass!Blocks -> [TwoPass!Thread -> -1..CompactBlock]]
         /\ \A t \in TwoPass!Lanes(w) : smem'[w[1]][t] = value[t]
         /\ \A v \in FlagGrid : v # w =>
              \A t \in TwoPass!Lanes(v) : smem'[v[1]][t] = smem[v[1]][t]
  <1> DEFINE row == [t \in TwoPass!Thread |-> IF t \in TwoPass!Lanes(w) THEN value[t]
        ELSE smem[w[1]][t]]
  <1>1. smem \in [TwoPass!Blocks -> [TwoPass!Thread -> -1..CompactBlock]]
    BY DEF FlagTypes
  <1>2. w[1] \in TwoPass!Blocks /\ TwoPass!Lanes(w) \subseteq TwoPass!Thread
    BY FlagPlaces
  <1>3. smem' = [smem EXCEPT ![w[1]] = row]
    BY DEF TwoPass!Shared
  <1>4. smem[w[1]] \in [TwoPass!Thread -> -1..CompactBlock]
    BY <1>1, <1>2
  <1>5. row \in [TwoPass!Thread -> -1..CompactBlock]
    BY <1>4
  <1>6. \A t \in TwoPass!Lanes(w) : row[t] = value[t]
    BY <1>2
  <1>7. \A t \in TwoPass!Thread : t \notin TwoPass!Lanes(w) => row[t] = smem[w[1]][t]
    OBVIOUS
  <1> HIDE DEF row
  <1>8. /\ smem' \in [TwoPass!Blocks -> [TwoPass!Thread -> -1..CompactBlock]]
        /\ smem'[w[1]] = row /\ \A b \in TwoPass!Blocks : b # w[1] => smem'[b] = smem[b]
    BY <1>1, <1>2, <1>3, <1>5
  <1>9. ASSUME NEW v \in FlagGrid, v # w, NEW t \in TwoPass!Lanes(v)
        PROVE smem'[v[1]][t] = smem[v[1]][t]
    <2>1. v[1] \in TwoPass!Blocks /\ t \in TwoPass!Thread
      BY FlagPlaces
    <2>2. CASE v[1] = w[1]
      <3>1. t \notin TwoPass!Lanes(w)
        BY <1>9, <2>2, FlagPlaces
      <3> QED BY <1>7, <1>8, <2>1, <2>2, <3>1
    <2>3. CASE v[1] # w[1]
      BY <1>8, <2>1, <2>3
    <2> QED BY <2>2, <2>3
  <1> QED BY <1>6, <1>8, <1>9

\* A step of a warp keeps the invariant, if it leaves the others' work alone.
LEMMA FlagStep ==
  ASSUME FlagsInv, NEW w \in FlagGrid, host' = host, FlagTypes', FlagRounds',
         Summed(w)', Carried(w)', FlagWritten(w)',
         \A v \in FlagGrid : v # w =>
           /\ round'[v] = round[v] /\ reg'[v] = reg[v]
           /\ \A t \in TwoPass!Lanes(v) :
                /\ smem'[v[1]][t] = smem[v[1]][t]
                /\ TwoPass!IndexOf(v, t) \in TwoPass!Index =>
                     gmem'.flags[TwoPass!IndexOf(v, t)] = gmem.flags[TwoPass!IndexOf(v, t)]
                /\ t = CompactBlock - 1 => gmem'.block_sums[v[1]] = gmem.block_sums[v[1]]
  PROVE  FlagsInv'
  <1>1. ASSUME NEW v \in FlagGrid PROVE Summed(v)' /\ Carried(v)' /\ FlagWritten(v)'
    <2>1. CASE v = w
      BY <2>1
    <2>2. CASE v # w
      <3>1. Summed(v) /\ Carried(v) /\ FlagWritten(v)
        BY DEF FlagsInv
      <3> QED BY <2>2, <3>1, WarpKept
    <2> QED BY <2>1, <2>2
  <1>2. FlagGrid' = FlagGrid
    BY DEF FlagGrid, TwoPass!Blocks, TwoPass!GridSize, TwoPass!CeilDiv
  <1>3. \A v \in FlagGrid' : Summed(v)' /\ Carried(v)' /\ FlagWritten(v)'
    BY <1>1, <1>2
  <1> QED BY <1>3 DEF FlagsInv

\* A warp stores its flags,
LEMMA StoreFlagStep ==
  ASSUME TwoPass!SizesAssumption, FlagsInv, NEW w \in FlagGrid, TwoPass!StoreFlag(w)
  PROVE  FlagsInv'
  <1> DEFINE B == Passing(w[1])
             L == TwoPass!Log2(CompactBlock)
  <1>1. /\ TwoPass!Turn(w, {0}) /\ host' = host /\ gmem' = gmem /\ reg' = reg
        /\ smem' = TwoPass!Shared(w, TwoPass!Flags(w))
    BY DEF TwoPass!StoreFlag
  <1>2. FlagTypes /\ FlagRounds /\ Summed(w) /\ Carried(w) /\ FlagWritten(w)
    BY DEF FlagsInv
  <1>3. L \in Nat /\ TwoPass!LastRound = 2 * L + 1
    BY FlagLevels
  <1>4. /\ round[w] = 0 /\ round'[w] = 1 /\ FlagRounds'
        /\ \A v \in FlagGrid : v # w => round'[v] = round[v]
    <2>1. {0} \in SUBSET (0..TwoPass!LastRound)
      BY <1>3
    <2>2. /\ round[w] \in {0} /\ round'[w] = round[w] + 1 /\ FlagRounds'
          /\ \A v \in FlagGrid : v # w => round'[v] = round[v]
      BY <1>1, <1>2, <2>1, FlagTurn
    <2> QED BY <2>2
  <1>5. /\ TwoPass!Lanes(w) \subseteq TwoPass!Thread /\ CompactBlock \in Nat \ {0}
        /\ IsFiniteSet(B) /\ B \subseteq Int /\ TwoPass!Thread \subseteq Int
    <2>1. TwoPass!Lanes(w) \subseteq TwoPass!Thread
      BY FlagPlaces
    <2>2. CompactBlock \in Nat \ {0} /\ TwoPass!Thread \subseteq Int
      BY DEF TwoPass!SizesAssumption, TwoPass!Thread
    <2>3. IsFiniteSet(B) /\ B \subseteq Int
      BY PassingFacts
    <2> QED BY <2>1, <2>2, <2>3
  <1>6. \A t \in TwoPass!Lanes(w) : TwoPass!Flags(w)[t] = IF t \in B THEN 1 ELSE 0
    BY <1>5 DEF TwoPass!Flags, TwoPass!Flag, TwoPass!IndexOf, Passing
  <1>7. \A t \in TwoPass!Lanes(w) : TwoPass!Flags(w)[t] \in -1..CompactBlock
    BY <1>5, <1>6
  <1>8. /\ smem' \in [TwoPass!Blocks -> [TwoPass!Thread -> -1..CompactBlock]]
        /\ \A t \in TwoPass!Lanes(w) : smem'[w[1]][t] = TwoPass!Flags(w)[t]
        /\ \A v \in FlagGrid : v # w => \A t \in TwoPass!Lanes(v) : smem'[v[1]][t] = smem[v[1]][t]
    BY <1>1, <1>2, <1>7, SharedStore
  <1>9. FlagTypes'
    BY <1>1, <1>2, <1>8 DEF FlagTypes, TwoPass!Index, TwoPass!Blocks, TwoPass!GridSize,
                            TwoPass!CeilDiv,
                            TwoPass!Thread, TwoPass!Unwritten, TwoPass!Lanes, FlagGrid
  <1>10. Passing(w[1])' = B /\ TwoPass!Lanes(w)' = TwoPass!Lanes(w) /\ L' = L
         /\ TwoPass!LastRound' = TwoPass!LastRound
    BY <1>1 DEF Passing, TwoPass!Thread, TwoPass!Lanes, TwoPass!Log2, TwoPass!LastRound
  <1>11. Summed(w)'
    <2>1. \A t \in TwoPass!Lanes(w) : smem'[w[1]][t] = Window(B, t, 1)
      <3> TAKE t \in TwoPass!Lanes(w)
      <3>1. t \in Int
        BY <1>5
      <3>2. Window(B, t, 1) = IF t \in B THEN 1 ELSE 0
        <4> HIDE DEF B
        <4>1. WindowsAt(B, t)
          BY <1>5, <3>1, Windows
        <4> QED BY <4>1 DEF WindowsAt
      <3> QED BY <1>6, <1>8, <3>2
    <2>2. \A k \in 0..L : round'[w] \in {2 * k + 1, 2 * k + 2} => k = 0
      BY <1>3, <1>4
    <2>3. \A k \in 0..L : round'[w] \in {2 * k + 1, 2 * k + 2} =>
            \A t \in TwoPass!Lanes(w) : smem'[w[1]][t] = Window(B, t, 2^k)
      BY <2>1, <2>2, Powers
    <2> HIDE DEF B, L
    <2>4. \A k \in 0..L' : round'[w] \in {2 * k + 1, 2 * k + 2} =>
            \A t \in TwoPass!Lanes(w)' : smem'[w[1]][t] = Window(Passing(w[1])', t, 2^k)
      BY <1>10, <2>3
    <2> QED BY <2>4 DEF Summed, Window, L
  <1>12. Carried(w)'
    <2>1. \A k \in 0..L - 1 : round'[w] # 2 * k + 2
      BY <1>3, <1>4
    <2>2. \A k \in 0..L' - 1 : round'[w] # 2 * k + 2
      BY <1>10, <2>1
    <2> QED BY <2>2 DEF Carried
  <1>13. FlagWritten(w)'
    <2>1. round'[w] # TwoPass!LastRound + 1
      BY <1>3, <1>4
    <2> QED BY <1>10, <2>1 DEF FlagWritten
  <1> QED BY <1>1, <1>4, <1>8, <1>9, <1>11, <1>12, <1>13, FlagStep

\* reads the counts of the elements below,
LEMMA ReadBelowStep ==
  ASSUME TwoPass!SizesAssumption, FlagsInv, NEW w \in FlagGrid, TwoPass!ReadBelow(w)
  PROVE  FlagsInv'
  <1> DEFINE B == Passing(w[1])
             L == TwoPass!Log2(CompactBlock)
  <1>1. /\ TwoPass!Turn(w, TwoPass!ReadRounds) /\ host' = host /\ gmem' = gmem /\ smem' = smem
        /\ reg' = [reg EXCEPT ![w] = [t \in TwoPass!Lanes(w) |->
                     IF t >= TwoPass!Offset(w) THEN smem[w[1]][t - TwoPass!Offset(w)] ELSE 0]]
    BY DEF TwoPass!ReadBelow
  <1>2. FlagTypes /\ FlagRounds /\ \A v \in FlagGrid : Summed(v) /\ Carried(v) /\ FlagWritten(v)
    BY DEF FlagsInv
  <1>3. L \in Nat /\ TwoPass!LastRound = 2 * L + 1
    BY FlagLevels
  <1>4. /\ round[w] \in TwoPass!ReadRounds /\ round'[w] = round[w] + 1 /\ FlagRounds'
        /\ \A v \in FlagGrid : v # w => round'[v] = round[v]
        /\ \A v \in FlagGrid : v[1] = w[1] => round[v] \in {round[w], round[w] + 1}
    BY <1>1, <1>2, FlagLevels, FlagTurn
  <1>5. PICK k \in 0..L - 1 : round[w] = 2 * k + 1
    BY <1>4, FlagLevels
  <1>6. k \in Nat /\ k \in 0..L /\ TwoPass!Offset(w) = 2^k /\ 2^k \in Nat \ {0}
        /\ round'[w] = 2 * k + 2
    <2>1. k \in Nat /\ k \in 0..L /\ round'[w] = 2 * k + 2
      BY <1>3, <1>4, <1>5
    <2>2. 2^k \in Nat \ {0}
      BY <2>1, Powers
    <2>3. TwoPass!Offset(w) = 2^k
      BY <1>5, <2>1, FlagLevels
    <2> QED BY <2>1, <2>2, <2>3
  <1> DEFINE d == 2^k
  <1>7. /\ TwoPass!Lanes(w) \subseteq TwoPass!Thread /\ w[1] \in TwoPass!Blocks
        /\ CompactBlock \in Nat \ {0}
        /\ TwoPass!Thread = 0..CompactBlock - 1
    BY FlagPlaces DEF TwoPass!SizesAssumption, TwoPass!Thread
  <1>8. d \in Nat \ {0} /\ TwoPass!Offset(w) = d
    BY <1>6
  <1>9. ASSUME NEW t \in TwoPass!Thread PROVE smem[w[1]][t] = Window(B, t, d)
    <2>1. PICK v \in FlagGrid : v[1] = w[1] /\ t \in TwoPass!Lanes(v)
      BY <1>7, FlagPlaces
    <2>2. round[v] \in {2 * k + 1, 2 * k + 2}
      BY <1>4, <1>5, <1>6, <2>1
    <2>3. Summed(v)
      BY <1>2
    <2> QED BY <1>6, <2>1, <2>2, <2>3 DEF Summed
  <1> HIDE DEF d
  <1>10. /\ reg'[w] = [t \in TwoPass!Lanes(w) |-> IF t >= d THEN smem[w[1]][t - d] ELSE 0]
         /\ \A v \in FlagGrid : v # w => reg'[v] = reg[v]
         /\ DOMAIN reg' = FlagGrid
    BY <1>1, <1>2, <1>8 DEF FlagTypes
  <1>11. ASSUME NEW t \in TwoPass!Lanes(w), t >= d
         PROVE  t - d \in TwoPass!Thread /\ reg'[w][t] = Window(B, t - d, d)
    <2>1. t - d \in TwoPass!Thread
      BY <1>7, <1>8, <1>11
    <2>2. reg'[w][t] = smem[w[1]][t - d]
      BY <1>10, <1>11
    <2> QED BY <1>9, <2>1, <2>2
  <1>12. \A t \in TwoPass!Lanes(w) : ~ (t >= d) => reg'[w][t] = 0
    BY <1>10
  <1>13. reg'[w] \in [TwoPass!Lanes(w) -> -1..CompactBlock]
    <2>1. smem[w[1]] \in [TwoPass!Thread -> -1..CompactBlock]
      BY <1>2, <1>7 DEF FlagTypes
    <2>2. \A t \in TwoPass!Lanes(w) : t >= d => smem[w[1]][t - d] \in -1..CompactBlock
      BY <1>11, <2>1
    <2>3. 0 \in -1..CompactBlock
      BY <1>7
    <2> QED BY <1>10, <2>2, <2>3
  <1>14. FlagTypes'
    <2>1. \A v \in FlagGrid : reg'[v] \in [TwoPass!Lanes(v) -> -1..CompactBlock]
      BY <1>2, <1>10, <1>13 DEF FlagTypes
    <2> QED BY <1>1, <1>2, <1>10, <2>1 DEF FlagTypes, TwoPass!Index, TwoPass!Blocks,
                                           TwoPass!GridSize, TwoPass!CeilDiv,
                            TwoPass!Thread, TwoPass!Unwritten, TwoPass!Lanes, FlagGrid
  <1>15. Passing(w[1])' = B /\ TwoPass!Lanes(w)' = TwoPass!Lanes(w) /\ L' = L
         /\ TwoPass!LastRound' = TwoPass!LastRound
    BY <1>1 DEF Passing, TwoPass!Thread, TwoPass!Lanes, TwoPass!Log2, TwoPass!LastRound
  <1> HIDE DEF B, L
  <1>16. \A j \in Nat :
           (round'[w] \in {2 * j + 1, 2 * j + 2} => j = k) /\ (round'[w] = 2 * j + 2 => j = k)
    BY <1>6
  <1>17. Summed(w)'
    <2>1. \A j \in 0..L : round'[w] \in {2 * j + 1, 2 * j + 2} =>
            \A t \in TwoPass!Lanes(w) : smem'[w[1]][t] = Window(B, t, 2^j)
      <3> TAKE j \in 0..L
      <3> HAVE round'[w] \in {2 * j + 1, 2 * j + 2}
      <3>1. j = k
        BY <1>3, <1>16
      <3> QED BY <1>1, <1>7, <1>9, <3>1 DEF d
    <2>2. \A j \in 0..L' : round'[w] \in {2 * j + 1, 2 * j + 2} =>
            \A t \in TwoPass!Lanes(w)' : smem'[w[1]][t] = Window(Passing(w[1])', t, 2^j)
      BY <1>15, <2>1
    <2> QED BY <2>2 DEF Summed, Window, L
  <1>18. Carried(w)'
    <2>1. \A j \in 0..L - 1 : round'[w] = 2 * j + 2 =>
            \A t \in TwoPass!Lanes(w) :
              reg'[w][t] = IF t >= 2^j THEN Window(B, t - 2^j, 2^j) ELSE 0
      <3> TAKE j \in 0..L - 1
      <3> HAVE round'[w] = 2 * j + 2
      <3>1. j = k
        BY <1>3, <1>16
      <3>2. \A t \in TwoPass!Lanes(w) : reg'[w][t] = IF t >= d THEN Window(B, t - d, d) ELSE 0
        BY <1>11, <1>12
      <3> QED BY <3>1, <3>2 DEF d
    <2>2. \A j \in 0..L' - 1 : round'[w] = 2 * j + 2 =>
            \A t \in TwoPass!Lanes(w)' :
              reg'[w][t] = IF t >= 2^j THEN Window(Passing(w[1])', t - 2^j, 2^j) ELSE 0
      BY <1>15, <2>1
    <2> QED BY <2>2 DEF Carried, Window, L
  <1>19. FlagWritten(w)'
    <2>1. round'[w] # TwoPass!LastRound + 1
      BY <1>3, <1>5, <1>6
    <2> QED BY <1>15, <2>1 DEF FlagWritten
  <1> QED BY <1>1, <1>4, <1>10, <1>14, <1>17, <1>18, <1>19, FlagStep

\* adds them to its own,
LEMMA AddBelowStep ==
  ASSUME TwoPass!SizesAssumption, FlagsInv, NEW w \in FlagGrid, TwoPass!AddBelow(w)
  PROVE  FlagsInv'
  <1> DEFINE B == Passing(w[1])
             L == TwoPass!Log2(CompactBlock)
  <1>1. /\ TwoPass!Turn(w, TwoPass!AddRounds) /\ host' = host /\ gmem' = gmem /\ reg' = reg
        /\ smem' = TwoPass!Shared(w, TwoPass!Sums(w))
    BY DEF TwoPass!AddBelow
  <1>2. FlagTypes /\ FlagRounds /\ Summed(w) /\ Carried(w) /\ FlagWritten(w)
    BY DEF FlagsInv
  <1>3. L \in Nat /\ TwoPass!LastRound = 2 * L + 1
    BY FlagLevels
  <1>4. /\ round[w] \in TwoPass!AddRounds /\ round'[w] = round[w] + 1 /\ FlagRounds'
        /\ \A v \in FlagGrid : v # w => round'[v] = round[v]
    BY <1>1, <1>2, FlagLevels, FlagTurn
  <1>5. PICK k \in 0..L - 1 : round[w] = 2 * k + 2
    BY <1>4, FlagLevels
  <1>6. k \in Nat /\ k \in 0..L /\ 2^k \in Nat \ {0} /\ 2^(k + 1) = 2 * 2^k
        /\ round'[w] = 2 * (k + 1) + 1
    <2>1. k \in Nat /\ k \in 0..L /\ round'[w] = 2 * (k + 1) + 1
      BY <1>3, <1>4, <1>5
    <2> QED BY <2>1, Powers
  <1> DEFINE d == 2^k
  <1>7. /\ TwoPass!Lanes(w) \subseteq TwoPass!Thread /\ CompactBlock \in Nat \ {0}
        /\ TwoPass!Thread = 0..CompactBlock - 1
    BY FlagPlaces DEF TwoPass!SizesAssumption, TwoPass!Thread
  <1>8. /\ IsFiniteSet(B) /\ B \subseteq Int /\ Cardinality(B) \in 0..CompactBlock
        /\ \A u \in B : u \in 0..CompactBlock - 1
    BY PassingFacts
  <1>9. d \in Nat \ {0} /\ 2^(k + 1) = 2 * d
    BY <1>6
  <1>10. \A t \in TwoPass!Lanes(w) : smem[w[1]][t] = Window(B, t, d)
    BY <1>2, <1>5, <1>6 DEF Summed
  <1>11. \A t \in TwoPass!Lanes(w) : reg[w][t] = IF t >= d THEN Window(B, t - d, d) ELSE 0
    BY <1>2, <1>5 DEF Carried
  <1> HIDE DEF d
  <1>12. ASSUME NEW t \in TwoPass!Lanes(w)
         PROVE  TwoPass!Sums(w)[t] = Window(B, t, 2 * d)
                /\ TwoPass!Sums(w)[t] \in -1..CompactBlock
    <2>1. TwoPass!Sums(w)[t] = smem[w[1]][t] + reg[w][t]
      BY DEF TwoPass!Sums
    <2>2. t \in Int /\ t >= 0
      BY <1>7
    <2> HIDE DEF B
    <2>3. /\ Window(B, t, d) + Window(B, t - d, d) = Window(B, t, 2 * d)
          /\ Window(B, t, d) \in 0..Cardinality(B) /\ Window(B, t, 2 * d) \in 0..Cardinality(B)
      <3>1. d \in Nat
        BY <1>9
      <3> QED BY <1>8, <2>2, <3>1, WindowTwice
    <2>4. CASE t >= d
      BY <1>8, <1>10, <1>11, <2>1, <2>3, <2>4, <1>7
    <2>5. CASE ~ (t >= d)
      <3>1. \A u \in B : t - d < u
        BY <1>8, <1>9, <2>2, <2>5
      <3>2. Window(B, t, 2 * d) = Window(B, t, d)
        <4>1. d \in Nat
          BY <1>9
        <4>2. IsFiniteSet(B) /\ B \subseteq Int
          BY <1>8
        <4> QED BY ONLY <2>2, <3>1, <4>1, <4>2, WindowWhole
      <3>3. reg[w][t] = 0 /\ smem[w[1]][t] = Window(B, t, d)
        BY <1>10, <1>11, <2>5
      <3> QED BY <1>7, <1>8, <2>1, <2>3, <3>2, <3>3
    <2> QED BY <2>4, <2>5
  <1>13. /\ smem' \in [TwoPass!Blocks -> [TwoPass!Thread -> -1..CompactBlock]]
         /\ \A t \in TwoPass!Lanes(w) : smem'[w[1]][t] = TwoPass!Sums(w)[t]
         /\ \A v \in FlagGrid : v # w =>
              \A t \in TwoPass!Lanes(v) : smem'[v[1]][t] = smem[v[1]][t]
    BY <1>1, <1>2, <1>12, SharedStore
  <1>14. FlagTypes'
    BY <1>1, <1>2, <1>13 DEF FlagTypes, TwoPass!Index, TwoPass!Blocks, TwoPass!GridSize,
                             TwoPass!CeilDiv,
                             TwoPass!Thread, TwoPass!Unwritten, TwoPass!Lanes, FlagGrid
  <1>15. Passing(w[1])' = B /\ TwoPass!Lanes(w)' = TwoPass!Lanes(w) /\ L' = L
         /\ TwoPass!LastRound' = TwoPass!LastRound
    BY <1>1 DEF Passing, TwoPass!Thread, TwoPass!Lanes, TwoPass!Log2, TwoPass!LastRound
  <1> HIDE DEF B, L
  <1>16. \A j \in Nat :
           (round'[w] \in {2 * j + 1, 2 * j + 2} => j = k + 1) /\ round'[w] # 2 * j + 2
    BY <1>6
  <1>17. Summed(w)'
    <2>1. \A j \in 0..L : round'[w] \in {2 * j + 1, 2 * j + 2} =>
            \A t \in TwoPass!Lanes(w) : smem'[w[1]][t] = Window(B, t, 2^j)
      <3> TAKE j \in 0..L
      <3> HAVE round'[w] \in {2 * j + 1, 2 * j + 2}
      <3>1. j = k + 1
        BY <1>3, <1>16
      <3>2. 2^j = 2 * d
        BY <1>9, <3>1
      <3> QED BY <1>12, <1>13, <3>2
    <2>2. \A j \in 0..L' : round'[w] \in {2 * j + 1, 2 * j + 2} =>
            \A t \in TwoPass!Lanes(w)' : smem'[w[1]][t] = Window(Passing(w[1])', t, 2^j)
      BY <1>15, <2>1
    <2> QED BY <2>2 DEF Summed, Window, L
  <1>18. Carried(w)'
    <2>1. \A j \in 0..L - 1 : round'[w] # 2 * j + 2
      BY <1>3, <1>16
    <2>2. \A j \in 0..L' - 1 : round'[w] # 2 * j + 2
      BY <1>15, <2>1
    <2> QED BY <2>2 DEF Carried, L
  <1>19. FlagWritten(w)'
    <2>1. round'[w] # TwoPass!LastRound + 1
      BY <1>3, <1>5, <1>6
    <2> QED BY <1>15, <2>1 DEF FlagWritten
  <1> QED BY <1>1, <1>4, <1>13, <1>14, <1>17, <1>18, <1>19, FlagStep

\* and writes its elements' numbers and, as the last, the block's total.
LEMMA WriteFlagsStep ==
  ASSUME TwoPass!SizesAssumption, FlagsInv, NEW w \in FlagGrid, TwoPass!WriteFlags(w)
  PROVE  FlagsInv'
  <1> DEFINE B == Passing(w[1])
             L == TwoPass!Log2(CompactBlock)
             b == w[1]
             flags == [i \in TwoPass!Index |-> IF i - b * CompactBlock \in TwoPass!Lanes(w)
                         THEN TwoPass!Exclusive(w, i - b * CompactBlock) ELSE gmem.flags[i]]
             sum == IF CompactBlock - 1 \in TwoPass!Lanes(w) THEN smem[b][CompactBlock - 1]
                                                             ELSE gmem.block_sums[b]
  <1>1. /\ TwoPass!Turn(w, {TwoPass!LastRound}) /\ host' = host /\ smem' = smem /\ reg' = reg
        /\ gmem' = [gmem EXCEPT !.flags = flags,
                    !.block_sums = [gmem.block_sums EXCEPT ![b] = sum]]
    BY DEF TwoPass!WriteFlags
  <1>2. FlagTypes /\ FlagRounds /\ Summed(w) /\ Carried(w) /\ FlagWritten(w)
    BY DEF FlagsInv
  <1>3. L \in Nat /\ TwoPass!LastRound = 2 * L + 1 /\ 2^L = CompactBlock
    BY FlagLevels
  <1>4. /\ round[w] = 2 * L + 1 /\ round'[w] = 2 * L + 2 /\ FlagRounds'
        /\ \A v \in FlagGrid : v # w => round'[v] = round[v]
    <2>1. {TwoPass!LastRound} \in SUBSET (0..TwoPass!LastRound)
      BY <1>3
    <2>2. /\ round[w] \in {TwoPass!LastRound} /\ round'[w] = round[w] + 1 /\ FlagRounds'
          /\ \A v \in FlagGrid : v # w => round'[v] = round[v]
      BY <1>1, <1>2, <2>1, FlagTurn
    <2> QED BY <1>3, <2>2
  <1>5. /\ TwoPass!Lanes(w) \subseteq TwoPass!Thread /\ CompactBlock \in Nat \ {0}
        /\ TwoPass!Thread = 0..CompactBlock - 1 /\ b \in TwoPass!Blocks
    BY FlagPlaces DEF TwoPass!SizesAssumption, TwoPass!Thread
  <1>6. /\ IsFiniteSet(B) /\ B \subseteq Int /\ Cardinality(B) \in 0..CompactBlock
        /\ \A u \in B : u \in 0..CompactBlock - 1
        /\ \A t \in TwoPass!Thread : Rank(B, t) \in 0..CompactBlock - 1
    BY PassingFacts
  <1>7. \A t \in TwoPass!Lanes(w) : smem[b][t] = Window(B, t, CompactBlock)
    <2>1. L \in 0..L /\ round[w] \in {2 * L + 1, 2 * L + 2}
      BY <1>3, <1>4
    <2> QED BY <1>2, <1>3, <2>1 DEF Summed
  <1>8. ASSUME NEW t \in TwoPass!Lanes(w)
        PROVE  /\ TwoPass!Exclusive(w, t) = Rank(B, t)
               /\ t = CompactBlock - 1 => smem[b][t] = Cardinality(B)
    <2>1. t \in Int /\ t <= CompactBlock - 1 /\ CompactBlock \in Nat
      BY <1>5
    <2>2. \A u \in B : t - CompactBlock < u
      BY <1>6, <2>1
    <2>3. TwoPass!Flag(w, t) = IF t \in B THEN 1 ELSE 0
      BY <1>5 DEF TwoPass!Flag, TwoPass!IndexOf, Passing
    <2> HIDE DEF B
    <2>4. /\ Window(B, t, CompactBlock) - (IF t \in B THEN 1 ELSE 0) = Rank(B, t)
          /\ (\A u \in B : u <= t) => Window(B, t, CompactBlock) = Cardinality(B)
      BY <1>6, <2>1, <2>2, WindowWhole
    <2>5. t = CompactBlock - 1 => \A u \in B : u <= t
      BY <1>6, <2>1
    <2>6. TwoPass!Exclusive(w, t) = Rank(B, t)
      BY <1>7, <2>3, <2>4 DEF TwoPass!Exclusive
    <2> QED BY <1>7, <2>4, <2>5, <2>6
  <1>9. gmem \in [flags : [TwoPass!Index -> -1..CompactBlock - 1],
                  output : [TwoPass!Index -> TwoPass!Index \cup {TwoPass!Unwritten}],
                  block_sums : [TwoPass!Blocks -> -1..CompactBlock],
                  block_prefixes : [TwoPass!Blocks -> -1..FlagsN]]
        /\ b * CompactBlock \in Nat /\ TwoPass!Index \subseteq Int
    <2>1. TwoPass!Index \subseteq Int
      BY DEF TwoPass!Index
    <2>2. b * CompactBlock \in Nat
      BY <1>5, FlagPlaces
    <2> QED BY <1>2, <2>1, <2>2 DEF FlagTypes
  <1>10. flags \in [TwoPass!Index -> -1..CompactBlock - 1]
    <2> SUFFICES ASSUME NEW i \in TwoPass!Index PROVE flags[i] \in -1..CompactBlock - 1
      OBVIOUS
    <2>1. CASE i - b * CompactBlock \in TwoPass!Lanes(w)
      <3> DEFINE t == i - b * CompactBlock
      <3>1. flags[i] = TwoPass!Exclusive(w, t) /\ t \in TwoPass!Lanes(w)
        BY <2>1
      <3>2. flags[i] = Rank(B, t) /\ t \in TwoPass!Thread
        <4> HIDE DEF t, flags, B, b
        <4> QED BY <1>5, <1>8, <3>1
      <3>3. Rank(B, t) \in 0..CompactBlock - 1
        BY <1>6, <3>2
      <3> HIDE DEF t, flags, B
      <3> QED BY <1>5, <3>2, <3>3
    <2>2. CASE i - b * CompactBlock \notin TwoPass!Lanes(w)
      <3>1. flags[i] = gmem.flags[i]
        BY <2>2
      <3> QED BY <1>9, <3>1
    <2> QED BY <2>1, <2>2
  <1>11. sum \in -1..CompactBlock
    <2>1. CASE CompactBlock - 1 \in TwoPass!Lanes(w)
      <3>1. sum = Cardinality(B)
        BY <1>8, <2>1
      <3> QED BY <1>5, <1>6, <3>1
    <2>2. CASE CompactBlock - 1 \notin TwoPass!Lanes(w)
      BY <1>5, <1>9, <2>2
    <2> QED BY <2>1, <2>2
  <1>12. \A t \in TwoPass!Lanes(w) : TwoPass!IndexOf(w, t) \in TwoPass!Index =>
           flags[TwoPass!IndexOf(w, t)] = Rank(B, t)
    <2> TAKE t \in TwoPass!Lanes(w)
    <2> HAVE TwoPass!IndexOf(w, t) \in TwoPass!Index
    <2>1. TwoPass!IndexOf(w, t) = b * CompactBlock + t
      BY DEF TwoPass!IndexOf
    <2>2. TwoPass!IndexOf(w, t) - b * CompactBlock = t
      BY <1>5, <1>9, <2>1
    <2>3. flags[TwoPass!IndexOf(w, t)] = TwoPass!Exclusive(w, t)
      BY <2>2
    <2> HIDE DEF flags
    <2> QED BY <1>8, <2>3
  <1>13. CompactBlock - 1 \in TwoPass!Lanes(w) => sum = Cardinality(B)
    BY <1>8
  <1>14. \A v \in FlagGrid : v # w => \A t \in TwoPass!Lanes(v) :
           /\ TwoPass!IndexOf(v, t) \in TwoPass!Index =>
                flags[TwoPass!IndexOf(v, t)] = gmem.flags[TwoPass!IndexOf(v, t)]
           /\ v[1] = b /\ t = CompactBlock - 1 => sum = gmem.block_sums[b]
    <2> SUFFICES ASSUME NEW v \in FlagGrid, v # w, NEW t \in TwoPass!Lanes(v)
                 PROVE  /\ TwoPass!IndexOf(v, t) \in TwoPass!Index =>
                             flags[TwoPass!IndexOf(v, t)] = gmem.flags[TwoPass!IndexOf(v, t)]
                        /\ v[1] = b /\ t = CompactBlock - 1 => sum = gmem.block_sums[b]
      OBVIOUS
    <2>1. /\ v[1] \in TwoPass!Blocks /\ t \in TwoPass!Thread /\ v[1] * CompactBlock \in Nat
          /\ v[1] = b => t \notin TwoPass!Lanes(w)
      <3>1. v[1] \in TwoPass!Blocks /\ t \in TwoPass!Thread
        BY FlagPlaces
      <3>2. v[1] = b => t \notin TwoPass!Lanes(w)
        BY FlagPlaces
      <3> QED BY <3>1, <3>2, FlagPlaces
    <2>2. TwoPass!IndexOf(v, t) = v[1] * CompactBlock + t
      BY DEF TwoPass!IndexOf
    <2> DEFINE i == TwoPass!IndexOf(v, t)
               u == i - b * CompactBlock
    <2>3. u \notin TwoPass!Lanes(w)
      <3> SUFFICES ASSUME u \in TwoPass!Lanes(w) PROVE FALSE
        OBVIOUS
      <3> DEFINE x == v[1] * CompactBlock
                 y == b * CompactBlock
      <3>1. x \in Nat /\ y \in Nat /\ t \in Int /\ i = x + t /\ u = i - y /\ u \in TwoPass!Thread
        BY <1>5, <1>9, <2>1, <2>2
      <3>2. x + t = y + u
        <4> HIDE DEF x, y, u, i
        <4>1. u \in Int
          BY <3>1
        <4> QED BY <3>1, <4>1
      <3>3. v[1] = b /\ t = u
        <4>1. \A c, e \in TwoPass!Blocks : \A r, s \in TwoPass!Thread :
                c * CompactBlock + r = e * CompactBlock + s => c = e /\ r = s
          BY FlagPlaces, Zenon
        <4>2. v[1] * CompactBlock + t = b * CompactBlock + u
          BY <3>2 DEF x, y
        <4>3. v[1] \in TwoPass!Blocks /\ b \in TwoPass!Blocks /\ t \in TwoPass!Thread
              /\ u \in TwoPass!Thread
          BY <1>5, <2>1, <3>1
        <4> HIDE DEF u, b
        <4> QED BY ONLY <4>1, <4>2, <4>3
      <3> QED BY <2>1, <3>3
    <2>4. i \in TwoPass!Index => flags[i] = gmem.flags[i]
      BY <2>3
    <2> QED BY <2>1, <2>4
  <1> HIDE DEF flags, sum
  <1>15. /\ gmem'.flags = flags /\ gmem'.block_sums = [gmem.block_sums EXCEPT ![b] = sum]
         /\ gmem' \in [flags : [TwoPass!Index -> -1..CompactBlock - 1],
                       output : [TwoPass!Index -> TwoPass!Index \cup {TwoPass!Unwritten}],
                       block_sums : [TwoPass!Blocks -> -1..CompactBlock],
                       block_prefixes : [TwoPass!Blocks -> -1..FlagsN]]
         /\ gmem'.block_sums[b] = sum
         /\ \A c \in TwoPass!Blocks : c # b => gmem'.block_sums[c] = gmem.block_sums[c]
    BY <1>1, <1>5, <1>9, <1>10, <1>11
  <1>16. FlagTypes'
    BY <1>1, <1>2, <1>15 DEF FlagTypes, TwoPass!Index, TwoPass!Blocks, TwoPass!GridSize,
                             TwoPass!CeilDiv,
                             TwoPass!Thread, TwoPass!Unwritten, TwoPass!Lanes, FlagGrid
  <1>17. Passing(w[1])' = B /\ TwoPass!Lanes(w)' = TwoPass!Lanes(w) /\ L' = L
         /\ TwoPass!LastRound' = TwoPass!LastRound /\ TwoPass!Index' = TwoPass!Index
         /\ \A t : TwoPass!IndexOf(w, t)' = TwoPass!IndexOf(w, t)
    BY <1>1 DEF Passing, TwoPass!Thread, TwoPass!Lanes, TwoPass!Log2, TwoPass!LastRound,
                TwoPass!Index,
                TwoPass!IndexOf
  <1> HIDE DEF B, L
  <1>18. \A j \in Nat : round'[w] \in {2 * j + 1, 2 * j + 2} => j = L
    BY <1>3, <1>4
  <1>19. Summed(w)'
    <2>1. \A j \in 0..L : round'[w] \in {2 * j + 1, 2 * j + 2} =>
            \A t \in TwoPass!Lanes(w) : smem'[w[1]][t] = Window(B, t, 2^j)
      <3> TAKE j \in 0..L
      <3> HAVE round'[w] \in {2 * j + 1, 2 * j + 2}
      <3>1. j = L
        BY <1>3, <1>18
      <3> QED BY <1>1, <1>3, <1>7, <3>1
    <2>2. \A j \in 0..L' : round'[w] \in {2 * j + 1, 2 * j + 2} =>
            \A t \in TwoPass!Lanes(w)' : smem'[w[1]][t] = Window(Passing(w[1])', t, 2^j)
      BY <1>17, <2>1
    <2> QED BY <2>2 DEF Summed, Window, L
  <1>20. Carried(w)'
    <2>1. \A j \in 0..L - 1 : round'[w] # 2 * j + 2
      BY <1>3, <1>4
    <2>2. \A j \in 0..L' - 1 : round'[w] # 2 * j + 2
      BY <1>17, <2>1
    <2> QED BY <2>2 DEF Carried, L
  <1>21. FlagWritten(w)'
    <2>1. \A t \in TwoPass!Lanes(w) :
            /\ TwoPass!IndexOf(w, t) \in TwoPass!Index =>
                 gmem'.flags[TwoPass!IndexOf(w, t)] = Rank(B, t)
            /\ t = CompactBlock - 1 => gmem'.block_sums[w[1]] = Cardinality(B)
      BY <1>12, <1>13, <1>15
    <2> QED BY <1>17, <2>1 DEF FlagWritten, Rank
  <1>22. \A v \in FlagGrid : v # w => \A t \in TwoPass!Lanes(v) :
           /\ TwoPass!IndexOf(v, t) \in TwoPass!Index =>
                gmem'.flags[TwoPass!IndexOf(v, t)] = gmem.flags[TwoPass!IndexOf(v, t)]
           /\ t = CompactBlock - 1 => gmem'.block_sums[v[1]] = gmem.block_sums[v[1]]
    <2> SUFFICES ASSUME NEW v \in FlagGrid, v # w, NEW t \in TwoPass!Lanes(v)
                 PROVE  /\ TwoPass!IndexOf(v, t) \in TwoPass!Index =>
                             gmem'.flags[TwoPass!IndexOf(v, t)]
                               = gmem.flags[TwoPass!IndexOf(v, t)]
                        /\ t = CompactBlock - 1 => gmem'.block_sums[v[1]] = gmem.block_sums[v[1]]
      OBVIOUS
    <2>1. v[1] \in TwoPass!Blocks
      BY FlagPlaces
    <2> QED BY <1>14, <1>15, <2>1
  <1> QED BY <1>1, <1>4, <1>16, <1>19, <1>20, <1>21, <1>22, FlagStep

\* The elements of P from x on, n places of them.
Part(P, x, n) == { u \in 0..n - 1 : x + u \in P }

\* The elements below a place are those below an earlier one and those from there on.
LEMMA RankSplit ==
  ASSUME NEW P, IsFiniteSet(P), P \subseteq Nat, NEW x \in Nat, NEW n \in Nat, NEW t \in 0..n
  PROVE  Rank(P, x + t) = Rank(P, x) + Rank(Part(P, x, n), t)
  <1> DEFINE low == { m \in P : m < x }
             mid == { m \in P : x <= m /\ m < x + t }
             all == { m \in P : m < x + t }
             B   == { u \in 0..n - 1 : x + u \in P }
             ofs == { u \in B : u < t }
             f   == [u \in ofs |-> x + u]
  <1>1. \A m \in P : m \in Nat
    OBVIOUS
  <1>2. low \in SUBSET P /\ mid \in SUBSET P
    OBVIOUS
  <1>3. all = low \cup mid /\ low \cap mid = {}
    <2>1. \A m \in P : m < x + t <=> (m < x \/ (x <= m /\ m < x + t))
      BY <1>1
    <2>2. \A m \in P : ~ (m < x /\ x <= m)
      BY <1>1
    <2> QED BY <2>1, <2>2
  <1>4. f \in Bijection(ofs, mid)
    <2>1. \A u \in ofs : x + u \in mid
      BY <1>1
    <2>2. \A m \in mid : \E u \in ofs : x + u = m
      <3> TAKE m \in mid
      <3>1. m \in Nat /\ m - x \in 0..n - 1 /\ x + (m - x) = m /\ m - x < t
        BY <1>1
      <3>2. m - x \in ofs
        BY <3>1
      <3> QED BY <3>1, <3>2
    <2>3. \A u, v \in ofs : x + u = x + v => u = v
      OBVIOUS
    <2> HIDE DEF ofs, mid
    <2>4. f \in [ofs -> mid]
      BY <2>1
    <2> QED BY <2>2, <2>3, <2>4 DEF Bijection, Injection, Surjection, IsInjective
  <1>5. Rank(P, x + t) = Cardinality(all) /\ Rank(P, x) = Cardinality(low)
        /\ Rank(B, t) = Cardinality(ofs)
    BY DEF Rank
  <1> HIDE DEF low, mid, all, f
  <1>6. IsFiniteSet(low) /\ IsFiniteSet(mid)
    BY <1>2, FS_Subset
  <1>7. ofs \in SUBSET (0..n - 1) /\ IsFiniteSet(0..n - 1)
    BY Below
  <1> HIDE DEF ofs
  <1>8. IsFiniteSet(ofs)
    BY <1>7, FS_Subset
  <1>9. Cardinality(mid) = Cardinality(ofs)
    <2>1. ExistsBijection(ofs, mid)
      BY <1>4 DEF ExistsBijection
    <2> QED BY <1>8, <2>1, FS_Bijection
  <1>10. Cardinality(low \cup mid)
           = Cardinality(low) + Cardinality(mid) - Cardinality(low \cap mid)
    BY <1>6, FS_Union
  <1>11. Cardinality(low \cap mid) = 0
    BY <1>3, FS_EmptySet
  <1>12. Cardinality(low) \in Nat /\ Cardinality(mid) \in Nat
    BY <1>6, FS_CardinalityType
  <1>13. Cardinality(low \cup mid) = Cardinality(low) + Cardinality(mid)
    BY ONLY <1>10, <1>11, <1>12
  <1>14. Cardinality(all) = Cardinality(low) + Cardinality(ofs)
    BY <1>3, <1>9, <1>13
  <1> HIDE DEF B
  <1>15. Rank(P, x + t) = Rank(P, x) + Rank(B, t)
    BY <1>5, <1>14
  <1> QED BY <1>15 DEF B, Part

\* Below an upper bound are all, below the first place none.
LEMMA RankEnds ==
  ASSUME NEW P, P \subseteq Nat, NEW x \in Nat
  PROVE  /\ Rank(P, 0) = 0
         /\ (\A m \in P : m < x) => Rank(P, x) = Cardinality(P)
  <1>1. { m \in P : m < 0 } = {}
    <2>1. \A m \in P : m \in Nat
      OBVIOUS
    <2>2. \A m \in P : ~ (m < 0)
      BY <2>1
    <2> QED BY <2>2
  <1>2. (\A m \in P : m < x) => { m \in P : m < x } = P
    OBVIOUS
  <1> QED BY <1>1, <1>2, FS_EmptySet DEF Rank

\* What main adds up is how many elements pass before each block.
LEMMA HostPrefixes ==
  ASSUME NEW c, TwoPass!GridSize \in Nat,
         c[0] = 0,
         \A b \in 0..TwoPass!GridSize - 1 : c[b + 1] = c[b] + gmem.block_sums[b]
  PROVE  \A b \in 0..TwoPass!GridSize : TwoPass!HostPrefix[b] = c[b]
  <1> DEFINE m == TwoPass!GridSize
             g == [b \in 0..m |-> c[b]]
             Sum(f) == [b \in 0..m |-> IF b = 0 THEN 0 ELSE f[b - 1] + gmem.block_sums[b - 1]]
             h == TwoPass!HostPrefix
  <1>1. h = CHOOSE f : f = Sum(f)
    BY DEF TwoPass!HostPrefix
  <1>2. \A b \in 0..m : b # 0 =>
          b - 1 \in 0..m - 1 /\ b - 1 \in 0..m /\ b - 1 + 1 = b
          /\ c[b] = c[b - 1] + gmem.block_sums[b - 1]
    <2> TAKE b \in 0..m
    <2> HAVE b # 0
    <2>1. b - 1 \in 0..m - 1 /\ b - 1 \in 0..m /\ b - 1 + 1 = b
      OBVIOUS
    <2>2. c[b - 1 + 1] = c[b - 1] + gmem.block_sums[b - 1]
      BY <2>1
    <2> QED BY <2>1, <2>2
  <1>3. g = Sum(g)
    BY <1>2
  <1>4. h = Sum(h)
    <2> HIDE DEF g, h, Sum
    <2> QED BY <1>1, <1>3
  <1> DEFINE bad == { b \in 0..m : h[b] # c[b] }
  <1>5. bad = {}
    <2> SUFFICES ASSUME bad # {} PROVE FALSE
      OBVIOUS
    <2>1. bad \subseteq Nat
      OBVIOUS
    <2>2. PICK b \in bad : \A a \in bad : b <= a
      <3> HIDE DEF bad
      <3> QED BY <2>1, LeastOf
    <2>3. b \in 0..m /\ h[b] # c[b]
      OBVIOUS
    <2>4. h[b] = IF b = 0 THEN 0 ELSE h[b - 1] + gmem.block_sums[b - 1]
      <3>1. Sum(h)[b] = IF b = 0 THEN 0 ELSE h[b - 1] + gmem.block_sums[b - 1]
        BY <2>3
      <3> HIDE DEF h, Sum
      <3> QED BY <1>4, <3>1
    <2> HIDE DEF h
    <2>5. b # 0
      BY <2>3, <2>4
    <2>6. b - 1 \in 0..m /\ c[b] = c[b - 1] + gmem.block_sums[b - 1]
      BY <1>2, <2>3, <2>5
    <2>7. ~ (b <= b - 1)
      BY <2>3
    <2>8. h[b - 1] = c[b - 1]
      BY <2>2, <2>6, <2>7
    <2> QED BY <2>3, <2>4, <2>5, <2>6, <2>8
  <1> QED BY <1>5

\* The cardinalities of the instance are the library's.
LEMMA TwoPassCounts == \A S : TwoPass!Cardinality(S) = Cardinality(S)
  BY DEF TwoPass!Cardinality, Cardinality

\* The elements that pass are finitely many numbers.
LEMMA PassFacts ==
  ASSUME TwoPass!SizesAssumption, FlagTypes
  PROVE  /\ IsFiniteSet(host.prime) /\ host.prime \subseteq Nat
         /\ host.prime \subseteq TwoPass!Index
         /\ FlagsN \in Nat /\ \A i \in TwoPass!Index : i \in 0..FlagsN - 1
         /\ Cardinality(host.prime) \in 0..FlagsN
         /\ \A x \in Nat : Rank(host.prime, x) \in 0..FlagsN
  <1>1. FlagsN \in Nat /\ TwoPass!Index = 0..FlagsN - 1 /\ host.prime \in SUBSET TwoPass!Index
    BY DEF TwoPass!SizesAssumption, TwoPass!Index, FlagTypes
  <1>2. IsFiniteSet(0..FlagsN - 1) /\ Cardinality(0..FlagsN - 1) = FlagsN
    BY <1>1, Below
  <1>3. ASSUME NEW S \in SUBSET (0..FlagsN - 1)
        PROVE IsFiniteSet(S) /\ Cardinality(S) \in 0..FlagsN
    <2>1. IsFiniteSet(S) /\ Cardinality(S) <= FlagsN
      BY <1>2, FS_Subset
    <2>2. Cardinality(S) \in Nat
      BY <2>1, FS_CardinalityType
    <2> QED BY <1>1, <2>1, <2>2
  <1>4. \A x \in Nat : Rank(host.prime, x) \in 0..FlagsN
    <2> TAKE x \in Nat
    <2> DEFINE S == { m \in host.prime : m < x }
    <2>1. S \in SUBSET (0..FlagsN - 1)
      BY <1>1
    <2> HIDE DEF S
    <2>2. Cardinality(S) \in 0..FlagsN
      BY <1>3, <2>1
    <2> QED BY <2>2 DEF Rank, S
  <1> QED BY <1>1, <1>3, <1>4

\* An element is numbered by those of the blocks before its own and by its rank there.
LEMMA BlockRanks ==
  ASSUME TwoPass!SizesAssumption, FlagTypes, NEW b \in TwoPass!Blocks
  PROVE  /\ b \in Nat /\ b * CompactBlock \in Nat /\ CompactBlock \in Nat
         /\ \A t \in TwoPass!Thread :
              Rank(host.prime, b * CompactBlock + t)
                = Rank(host.prime, b * CompactBlock) + Rank(Passing(b), t)
         /\ Rank(host.prime, (b + 1) * CompactBlock)
              = Rank(host.prime, b * CompactBlock) + Cardinality(Passing(b))
  <1>1. b \in Nat /\ b * CompactBlock \in Nat
    BY FlagPlaces
  <1>2. CompactBlock \in Nat /\ TwoPass!Thread = 0..CompactBlock - 1
    BY DEF TwoPass!SizesAssumption, TwoPass!Thread
  <1>3. IsFiniteSet(host.prime) /\ host.prime \subseteq Nat
    BY PassFacts
  <1>4. Passing(b) = { u \in 0..CompactBlock - 1 : b * CompactBlock + u \in host.prime }
    BY <1>2 DEF Passing
  <1> DEFINE at == b * CompactBlock
             Pass == host.prime
             size == CompactBlock
  <1>5. at \in Nat /\ size \in Nat /\ IsFiniteSet(Pass) /\ Pass \subseteq Nat
        /\ Passing(b) = Part(Pass, at, size)
        /\ \A u \in Passing(b) : u \in Nat /\ u < size
    BY <1>1, <1>2, <1>3, <1>4 DEF Part
  <1> HIDE DEF at, Pass, size
  <1>6. \A t \in 0..size : Rank(Pass, at + t) = Rank(Pass, at) + Rank(Passing(b), t)
    <2>1. ASSUME NEW t \in 0..size
          PROVE Rank(Pass, at + t) = Rank(Pass, at) + Rank(Part(Pass, at, size), t)
      BY ONLY <1>5, <2>1, RankSplit
    <2> QED BY <1>5, <2>1
  <1>7. Rank(Passing(b), size) = Cardinality(Passing(b))
    <2>1. Passing(b) \subseteq Nat /\ \A u \in Passing(b) : u < size
      BY <1>5
    <2> HIDE DEF size
    <2> QED BY <1>5, <2>1, RankEnds
  <1>8. size \in 0..size /\ \A t \in 0..size - 1 : t \in 0..size
    BY <1>5
  <1>9. (b + 1) * CompactBlock = at + size
    BY <1>1, <1>2 DEF at, size
  <1>10. Rank(Pass, (b + 1) * CompactBlock) = Rank(Pass, at) + Cardinality(Passing(b))
    BY <1>6, <1>7, <1>8, <1>9
  <1>11. \A t \in TwoPass!Thread : Rank(Pass, at + t) = Rank(Pass, at) + Rank(Passing(b), t)
    <2> TAKE t \in TwoPass!Thread
    <2>1. t \in 0..size
      BY <1>2, <1>8 DEF size
    <2> QED BY <1>6, <2>1
  <1> QED BY <1>1, <1>2, <1>10, <1>11 DEF at, Pass

\* main adds up the blocks' totals.
LEMMA AddUpBlocksStep ==
  ASSUME TwoPass!SizesAssumption, FlagsInv, TwoPass!AddUpBlocks
  PROVE  ScatterInv'
  <1> DEFINE m == TwoPass!GridSize
             Bk == CompactBlock
             P == host.prime
  <1>1. /\ \A w \in FlagGrid : round[w] = TwoPass!LastRound + 1
        /\ gmem' = [gmem EXCEPT !.block_prefixes
             = [b \in TwoPass!Blocks |-> TwoPass!HostPrefix[b]]]
        /\ host' = [host EXCEPT !.total = TwoPass!HostPrefix[m], !.stage = "scatter"]
        /\ round' = TwoPass!Launched(m, CompactBlock \div WarpSize) /\ smem' = smem /\ reg' = reg
    BY DEF TwoPass!AddUpBlocks, TwoPass!KernelEnded, TwoPass!Warps, FlagsInv, FlagRounds
  <1>2. FlagTypes /\ \A w \in FlagGrid : FlagWritten(w)
    BY DEF FlagsInv
  <1>3. /\ m \in Nat /\ Bk \in Nat \ {0} /\ TwoPass!Blocks = 0..m - 1
        /\ TwoPass!Thread = 0..Bk - 1
    BY FlagPlaces DEF TwoPass!SizesAssumption, TwoPass!Blocks, TwoPass!Thread
  <1>4. ASSUME NEW b \in TwoPass!Blocks, NEW t \in TwoPass!Thread
        PROVE  /\ b * Bk + t \in TwoPass!Index => gmem.flags[b * Bk + t] = Rank(Passing(b), t)
               /\ t = Bk - 1 => gmem.block_sums[b] = Cardinality(Passing(b))
    <2>1. PICK w \in FlagGrid : w[1] = b /\ t \in TwoPass!Lanes(w)
      BY FlagPlaces
    <2>2. TwoPass!IndexOf(w, t) = b * Bk + t
      BY <2>1 DEF TwoPass!IndexOf
    <2> QED BY <1>1, <1>2, <2>1, <2>2 DEF FlagWritten
  <1>5. \A b \in TwoPass!Blocks : gmem.block_sums[b] = Cardinality(Passing(b))
    <2>1. Bk - 1 \in TwoPass!Thread
      BY <1>3
    <2> QED BY <1>4, <2>1
  <1> DEFINE c == [b \in Nat |-> Rank(P, b * Bk)]
  <1>6. \A b \in 0..m : TwoPass!HostPrefix[b] = Rank(P, b * Bk)
    <2>1. c[0] = 0
      <3>1. 0 * Bk = 0
        BY <1>3
      <3>2. Rank(P, 0) = 0
        BY <1>2, PassFacts, RankEnds
      <3> QED BY <3>1, <3>2
    <2>2. ASSUME NEW b \in 0..m - 1 PROVE c[b + 1] = c[b] + gmem.block_sums[b]
      <3>1. b \in TwoPass!Blocks /\ b \in Nat /\ b + 1 \in Nat
        BY <1>3
      <3>2. Rank(P, (b + 1) * Bk) = Rank(P, b * Bk) + Cardinality(Passing(b))
        BY <1>2, <3>1, BlockRanks
      <3> QED BY <1>5, <3>1, <3>2
    <2> HIDE DEF c
    <2>3. \A b \in 0..m : TwoPass!HostPrefix[b] = c[b]
      BY <1>3, <2>1, <2>2, HostPrefixes
    <2>4. \A b \in 0..m : b \in Nat
      BY <1>3
    <2> QED BY <2>3, <2>4 DEF c
  <1> HIDE DEF c
  <1>7. \A i \in TwoPass!Index : i < m * Bk
    <2> TAKE i \in TwoPass!Index
    <2>1. PICK b \in TwoPass!Blocks : \E t \in TwoPass!Thread : i = b * Bk + t
      BY FlagPlaces
    <2>2. PICK t \in TwoPass!Thread : i = b * Bk + t
      BY <2>1
    <2>3. b \in 0..m - 1 /\ t \in 0..Bk - 1
      BY <1>3
    <2>4. (b + 1) * Bk <= m * Bk
      BY <1>3, <2>3
    <2>5. (b + 1) * Bk = b * Bk + Bk /\ b * Bk \in Nat
      BY <1>3, <2>3
    <2>6. m * Bk \in Nat
      BY <1>3
    <2> QED BY <2>2, <2>3, <2>4, <2>5, <2>6, <1>3
  <1>8. TwoPass!HostPrefix[m] = Cardinality(P)
    <2>1. m \in 0..m /\ m * Bk \in Nat
      BY <1>3
    <2>2. P \subseteq Nat /\ \A i \in P : i < m * Bk
      BY <1>2, <1>7, PassFacts
    <2>3. Rank(P, m * Bk) = Cardinality(P)
      BY <2>1, <2>2, RankEnds
    <2> QED BY <1>6, <2>1, <2>3
  <1>9. /\ host'.stage = "scatter" /\ host'.prime = P /\ host'.total = Cardinality(P)
        /\ host' \in [stage : {"flags", "scatter", "done"}, prime : SUBSET TwoPass!Index,
                      total : 0..FlagsN]
    <2>1. Cardinality(P) \in 0..FlagsN
      BY <1>2, PassFacts
    <2> QED BY <1>1, <1>2, <1>8, <2>1 DEF FlagTypes
  <1>10. /\ gmem'.flags = gmem.flags
         /\ \A b \in TwoPass!Blocks : gmem'.block_prefixes[b] = Rank(P, b * Bk)
         /\ gmem' \in [flags : [TwoPass!Index -> -1..Bk - 1],
                       output : [TwoPass!Index -> TwoPass!Index \cup {TwoPass!Unwritten}],
                       block_sums : [TwoPass!Blocks -> -1..Bk],
                       block_prefixes : [TwoPass!Blocks -> -1..FlagsN]]
    <2> DEFINE pre == [b \in TwoPass!Blocks |-> TwoPass!HostPrefix[b]]
    <2>1. \A b \in TwoPass!Blocks : pre[b] = Rank(P, b * Bk)
      BY <1>3, <1>6
    <2>2. \A b \in TwoPass!Blocks : Rank(P, b * Bk) \in -1..FlagsN
      <3> TAKE b \in TwoPass!Blocks
      <3>1. b * Bk \in Nat
        BY FlagPlaces
      <3>2. Rank(P, b * Bk) \in 0..FlagsN /\ FlagsN \in Nat
        BY <1>2, <3>1, PassFacts
      <3> QED BY <3>2
    <2>3. pre \in [TwoPass!Blocks -> -1..FlagsN]
      BY <2>1, <2>2
    <2>4. gmem' = [gmem EXCEPT !.block_prefixes = pre]
      BY <1>1
    <2> HIDE DEF pre
    <2> QED BY <1>2, <2>1, <2>3, <2>4 DEF FlagTypes
  <1>11. FlagTypes'
    BY <1>1, <1>2, <1>9, <1>10 DEF FlagTypes, TwoPass!Index, TwoPass!Blocks, TwoPass!GridSize,
                                   TwoPass!CeilDiv,
                            TwoPass!Thread, TwoPass!Unwritten, TwoPass!Lanes, FlagGrid
  <1>12. round' = [w \in FlagGrid |-> 0]
    <2>1. FlagGrid = TwoPass!Grid(m, CompactBlock \div WarpSize)
      BY DEF FlagGrid, TwoPass!Grid, TwoPass!Blocks
    <2> QED BY <1>1, <2>1 DEF TwoPass!Launched
  <1>13. FlagGrid' = FlagGrid
    BY DEF FlagGrid, TwoPass!Blocks, TwoPass!GridSize, TwoPass!CeilDiv
  <1>14. \A i \in P : gmem'.block_prefixes[i \div CompactBlock] + gmem'.flags[i] = Rank(P, i)
    <2> TAKE i \in P
    <2>1. i \in TwoPass!Index
      BY <1>2, PassFacts
    <2>2. PICK b \in TwoPass!Blocks : \E t \in TwoPass!Thread : i = b * Bk + t /\ b = i \div Bk
      BY <2>1, FlagPlaces
    <2>3. PICK t \in TwoPass!Thread : i = b * Bk + t /\ b = i \div Bk
      BY <2>2
    <2>4. gmem'.flags[i] = Rank(Passing(b), t)
      BY <1>4, <1>10, <2>1, <2>3
    <2>5. gmem'.block_prefixes[b] = Rank(P, b * Bk)
      BY <1>10
    <2>6. Rank(P, b * Bk + t) = Rank(P, b * Bk) + Rank(Passing(b), t)
      BY <1>2, BlockRanks
    <2> QED BY <2>3, <2>4, <2>5, <2>6
  <1>15. \A w \in FlagGrid : Stored(w)'
    BY <1>12 DEF Stored
  <1> QED BY <1>9, <1>11, <1>12, <1>13, <1>14, <1>15 DEF ScatterInv, TwoPass!Position

\* A passing element is a lane's of one warp, and alone at its rank.
LEMMA RankPlaces ==
  ASSUME TwoPass!SizesAssumption, FlagTypes
  PROVE  /\ \A i \in host.prime : \E w \in FlagGrid : i - w[1] * CompactBlock \in TwoPass!Lanes(w)
         /\ \A i \in host.prime : Rank(host.prime, i) \in TwoPass!Index
         /\ \A i, j \in host.prime : Rank(host.prime, i) = Rank(host.prime, j) => i = j
  <1> DEFINE P == host.prime
  <1>1. /\ IsFiniteSet(P) /\ P \subseteq Nat /\ P \subseteq TwoPass!Index /\ P \subseteq Int
        /\ FlagsN \in Nat /\ Cardinality(P) \in 0..FlagsN
    BY PassFacts
  <1>2. \A i \in P : \E w \in FlagGrid : i - w[1] * CompactBlock \in TwoPass!Lanes(w)
    <2> TAKE i \in P
    <2>1. PICK b \in TwoPass!Blocks : \E t \in TwoPass!Thread : i = b * CompactBlock + t
      BY <1>1, FlagPlaces
    <2>2. PICK t \in TwoPass!Thread : i = b * CompactBlock + t
      BY <2>1
    <2>3. PICK w \in FlagGrid : w[1] = b /\ t \in TwoPass!Lanes(w)
      BY FlagPlaces
    <2>4. b * CompactBlock \in Nat /\ t \in Int
      BY FlagPlaces DEF TwoPass!Thread
    <2>5. i - b * CompactBlock = t
      <3> DEFINE x == b * CompactBlock
      <3>1. x \in Nat /\ i = x + t
        BY <2>2, <2>4
      <3> HIDE DEF x
      <3>2. i - x = t
        BY <2>4, <3>1
      <3> QED BY <3>2 DEF x
    <2> QED BY <2>3, <2>5
  <1> HIDE DEF P
  <1>3. \A i \in P : Rank(P, i) \in 0..Cardinality(P) - 1
    BY <1>1, RankFacts
  <1>4. \A i, j \in P : i < j => Rank(P, i) < Rank(P, j)
    BY <1>1, RankFacts
  <1>5. \A i \in P : Rank(P, i) \in TwoPass!Index
    BY <1>1, <1>3 DEF TwoPass!Index
  <1>6. ASSUME NEW i \in P, NEW j \in P, Rank(P, i) = Rank(P, j) PROVE i = j
    <2>1. Rank(P, i) \in Int /\ Rank(P, j) \in Int
      BY <1>3
    <2>2. ~ (i < j) /\ ~ (j < i)
      BY <1>4, <1>6, <2>1
    <2> QED BY <1>1, <2>2
  <1> QED BY <1>2, <1>5, <1>6 DEF P

\* A warp of the second kernel stores its elements at their ranks.
LEMMA FlagScatterStep ==
  ASSUME TwoPass!SizesAssumption, ScatterInv, NEW w \in FlagGrid, TwoPass!Scatter(w)
  PROVE  ScatterInv'
  <1> DEFINE P == host.prime
             mine == { i \in P : i - w[1] * CompactBlock \in TwoPass!Lanes(w) }
             out == [p \in TwoPass!Index |-> IF \E i \in mine : TwoPass!Position(i) = p
                                               THEN CHOOSE i \in mine : TwoPass!Position(i) = p
                                               ELSE gmem.output[p]]
  <1>1. /\ host.stage = "scatter" /\ round[w] = 0 /\ round' = [round EXCEPT ![w] = @ + 1]
        /\ host' = host /\ smem' = smem /\ reg' = reg
        /\ gmem' = [gmem EXCEPT !.output = out]
    BY DEF TwoPass!Scatter, TwoPass!Arrive
  <1>2. /\ FlagTypes /\ round \in [FlagGrid -> 0..1] /\ host.total = Cardinality(P)
        /\ \A i \in P : TwoPass!Position(i) = Rank(P, i)
        /\ \A v \in FlagGrid : Stored(v)
    BY DEF ScatterInv
  <1>3. /\ \A i \in P : Rank(P, i) \in TwoPass!Index
        /\ \A i, j \in P : Rank(P, i) = Rank(P, j) => i = j
        /\ P \subseteq TwoPass!Index
    BY <1>2, RankPlaces, PassFacts
  <1>4. gmem \in [flags : [TwoPass!Index -> -1..CompactBlock - 1],
                  output : [TwoPass!Index -> TwoPass!Index \cup {TwoPass!Unwritten}],
                  block_sums : [TwoPass!Blocks -> -1..CompactBlock],
                  block_prefixes : [TwoPass!Blocks -> -1..FlagsN]]
    BY <1>2 DEF FlagTypes
  <1>5. \A p \in TwoPass!Index : (\E i \in mine : TwoPass!Position(i) = p) =>
          out[p] \in mine /\ TwoPass!Position(out[p]) = p
    <2> TAKE p \in TwoPass!Index
    <2> HAVE \E i \in mine : TwoPass!Position(i) = p
    <2>1. out[p] = CHOOSE i \in mine : TwoPass!Position(i) = p
      OBVIOUS
    <2> HIDE DEF mine, out
    <2> QED BY <2>1
  <1>6. \A p \in TwoPass!Index : ~ (\E i \in mine : TwoPass!Position(i) = p) =>
          out[p] = gmem.output[p]
    OBVIOUS
  <1>7. mine \subseteq P /\ \A i \in P : i - w[1] * CompactBlock \in TwoPass!Lanes(w) =>
          i \in mine
    OBVIOUS
  <1>8. DOMAIN out = TwoPass!Index /\ out = [p \in TwoPass!Index |-> out[p]]
    OBVIOUS
  <1> HIDE DEF mine, out, P
  <1>9. out \in [TwoPass!Index -> TwoPass!Index \cup {TwoPass!Unwritten}]
    <2>1. \A p \in TwoPass!Index : gmem.output[p] \in TwoPass!Index \cup {TwoPass!Unwritten}
      BY <1>4
    <2>2. \A p \in TwoPass!Index : out[p] \in TwoPass!Index \cup {TwoPass!Unwritten}
      BY <1>3, <1>5, <1>6, <1>7, <2>1, Zenon
    <2> QED BY <1>8, <2>2
  <1>10. /\ gmem'.output = out /\ gmem'.flags = gmem.flags
         /\ gmem'.block_prefixes = gmem.block_prefixes
         /\ gmem' \in [flags : [TwoPass!Index -> -1..CompactBlock - 1],
                       output : [TwoPass!Index -> TwoPass!Index \cup {TwoPass!Unwritten}],
                       block_sums : [TwoPass!Blocks -> -1..CompactBlock],
                       block_prefixes : [TwoPass!Blocks -> -1..FlagsN]]
    BY <1>1, <1>4, <1>9
  <1>11. FlagTypes'
    BY <1>1, <1>2, <1>10 DEF FlagTypes, TwoPass!Index, TwoPass!Blocks, TwoPass!GridSize,
                             TwoPass!CeilDiv,
                            TwoPass!Thread, TwoPass!Unwritten, TwoPass!Lanes, FlagGrid
  <1>12. /\ round' \in [FlagGrid -> 0..1] /\ FlagGrid' = FlagGrid
         /\ \A v \in FlagGrid : v # w => round'[v] = round[v]
    BY <1>1, <1>2 DEF FlagGrid, TwoPass!Blocks, TwoPass!GridSize, TwoPass!CeilDiv
  <1>13. ASSUME NEW i \in P, i \in mine \/ gmem.output[Rank(P, i)] = i PROVE out[Rank(P, i)] = i
    <2>1. Rank(P, i) \in TwoPass!Index
      BY <1>3
    <2>2. CASE \E j \in mine : TwoPass!Position(j) = Rank(P, i)
      <3>1. out[Rank(P, i)] \in P /\ TwoPass!Position(out[Rank(P, i)]) = Rank(P, i)
        BY <1>5, <1>7, <2>1, <2>2
      <3>2. Rank(P, out[Rank(P, i)]) = Rank(P, i)
        BY <1>2, <3>1 DEF P
      <3> QED BY <1>3, <3>1, <3>2
    <2>3. CASE ~ (\E j \in mine : TwoPass!Position(j) = Rank(P, i))
      <3>1. i \notin mine
        BY <1>2, <2>3 DEF P
      <3> QED BY <1>6, <1>13, <2>1, <2>3, <3>1
    <2> QED BY <2>2, <2>3
  <1>14. ASSUME NEW v \in FlagGrid PROVE Stored(v)'
    <2> SUFFICES ASSUME round'[v] = 1, NEW i \in P, i - v[1] * CompactBlock \in TwoPass!Lanes(v)
                 PROVE  out[Rank(P, i)] = i
      BY <1>1, <1>10 DEF Stored, Rank, P, TwoPass!Lanes
    <2>1. CASE v = w
      BY <1>7, <1>13, <2>1
    <2>2. CASE v # w
      <3>1. round[v] = 1
        BY <1>12, <2>2
      <3>2. gmem.output[Rank(P, i)] = i
        BY <1>2, <3>1 DEF Stored, P
      <3> QED BY <1>13, <3>2
    <2> QED BY <2>1, <2>2
  <1>15. \A i : TwoPass!Position(i)' = TwoPass!Position(i)
    BY <1>10 DEF TwoPass!Position
  <1>16. host'.stage # "flags" /\ host'.stage # "done" /\ host'.prime = P
         /\ host'.total = Cardinality(P)
    BY <1>1, <1>2 DEF P
  <1>17. \A i \in host'.prime : TwoPass!Position(i)' = Rank(host'.prime, i)
    BY <1>2, <1>15, <1>16 DEF P
  <1> QED BY <1>11, <1>12, <1>14, <1>16, <1>17 DEF ScatterInv, Rank

\* main reads the result.
LEMMA ReadBackStep ==
  ASSUME TwoPass!SizesAssumption, ScatterInv, TwoPass!ReadBack
  PROVE  ScatterInv'
  <1>1. /\ host' = [host EXCEPT !.stage = "done"] /\ UNCHANGED << gmem, smem, reg, round >>
        /\ \A w \in DOMAIN round : round[w] = 1
    BY DEF TwoPass!ReadBack, TwoPass!KernelEnded, TwoPass!Warps
  <1>2. /\ FlagTypes /\ round \in [FlagGrid -> 0..1] /\ host.total = Cardinality(host.prime)
        /\ \A i \in host.prime : TwoPass!Position(i) = Rank(host.prime, i)
        /\ \A v \in FlagGrid : Stored(v)
    BY DEF ScatterInv
  <1>3. /\ host'.stage = "done" /\ host'.prime = host.prime /\ host'.total = host.total
        /\ host' \in [stage : {"flags", "scatter", "done"}, prime : SUBSET TwoPass!Index,
                      total : 0..FlagsN]
    BY <1>1, <1>2 DEF FlagTypes
  <1>4. FlagGrid' = FlagGrid
    BY DEF FlagGrid, TwoPass!Blocks, TwoPass!GridSize, TwoPass!CeilDiv
  <1>5. FlagTypes'
    BY <1>1, <1>2, <1>3 DEF FlagTypes, TwoPass!Index, TwoPass!Blocks, TwoPass!GridSize,
                            TwoPass!CeilDiv,
                            TwoPass!Thread, TwoPass!Unwritten, TwoPass!Lanes, FlagGrid
  <1>6. \A v \in FlagGrid : Stored(v)'
    BY <1>1, <1>2, <1>3 DEF Stored, Rank, TwoPass!Lanes
  <1>7. \A i : TwoPass!Position(i)' = TwoPass!Position(i)
    BY <1>1 DEF TwoPass!Position
  <1>8. \A i \in host'.prime : TwoPass!Position(i)' = Rank(host'.prime, i)
    BY <1>2, <1>3, <1>7
  <1>9. \A w \in FlagGrid : round'[w] = 1
    BY <1>1, <1>2
  <1> QED BY <1>1, <1>2, <1>3, <1>4, <1>5, <1>6, <1>8, <1>9 DEF ScatterInv, Rank

\* The invariant holds of a launch,
LEMMA TwoPassInit == TwoPass!SizesAssumption /\ TwoPass!Init => TwoPassInv
  <1> SUFFICES ASSUME TwoPass!SizesAssumption, TwoPass!Init PROVE FlagsInv
    BY DEF TwoPassInv
  <1>1. /\ host \in [stage : {"flags"}, prime : SUBSET TwoPass!Index, total : {0}]
        /\ gmem = [flags |-> [i \in TwoPass!Index |-> TwoPass!Unwritten],
                   output |-> [i \in TwoPass!Index |-> TwoPass!Unwritten],
                   block_sums     |-> [b \in TwoPass!Blocks |-> TwoPass!Unwritten],
                   block_prefixes |-> [b \in TwoPass!Blocks |-> TwoPass!Unwritten]]
        /\ smem = [b \in TwoPass!Blocks |-> [t \in TwoPass!Thread |-> TwoPass!Unwritten]]
        /\ round = TwoPass!Launched(TwoPass!GridSize, CompactBlock \div WarpSize)
        /\ reg = [w \in TwoPass!Warps |-> [t \in TwoPass!Lanes(w) |-> 0]]
    BY DEF TwoPass!Init
  <1>2. FlagGrid = TwoPass!Grid(TwoPass!GridSize, CompactBlock \div WarpSize)
    BY DEF FlagGrid, TwoPass!Grid, TwoPass!Blocks
  <1>3. round = [w \in FlagGrid |-> 0]
    BY <1>1, <1>2 DEF TwoPass!Launched
  <1>4. TwoPass!LastRound \in Nat \ {0} /\ TwoPass!Log2(CompactBlock) \in Nat
    BY FlagLevels
  <1>5. /\ TwoPass!Unwritten = -1 /\ CompactBlock \in Nat \ {0} /\ FlagsN \in Nat
    BY DEF TwoPass!SizesAssumption, TwoPass!Unwritten
  <1>6. FlagTypes
    <2>1. -1 \in -1..CompactBlock /\ -1 \in -1..CompactBlock - 1 /\ -1 \in -1..FlagsN
          /\ 0 \in -1..CompactBlock
          /\ 0 \in 0..FlagsN
      BY <1>5
    <2>2. DOMAIN reg = FlagGrid /\ \A w \in FlagGrid : reg[w] = [t \in TwoPass!Lanes(w) |-> 0]
      BY <1>1, <1>3 DEF TwoPass!Warps
    <2> QED BY <1>1, <1>5, <2>1, <2>2 DEF FlagTypes
  <1>7. FlagRounds
    BY <1>3, <1>4 DEF FlagRounds
  <1>8. ASSUME NEW w \in FlagGrid PROVE Summed(w) /\ Carried(w) /\ FlagWritten(w)
    <2>1. round[w] = 0
      BY <1>3
    <2>2. \A k \in Nat : round[w] # 2 * k + 1 /\ round[w] # 2 * k + 2
      BY <2>1
    <2>3. Summed(w) /\ Carried(w)
      BY <1>4, <2>2 DEF Summed, Carried
    <2> QED BY <1>4, <2>1, <2>3 DEF FlagWritten
  <1> QED BY <1>1, <1>6, <1>7, <1>8 DEF FlagsInv

\* and every step keeps it.
LEMMA TwoPassStep ==
  TwoPass!SizesAssumption /\ TwoPassInv /\ [TwoPass!Next]_TwoPass!machine => TwoPassInv'
  <1> SUFFICES ASSUME TwoPass!SizesAssumption, TwoPassInv, [TwoPass!Next]_TwoPass!machine
               PROVE TwoPassInv'
    OBVIOUS
  <1>1. DOMAIN round = FlagGrid
    BY DEF TwoPassInv, FlagsInv, ScatterInv, FlagRounds
  <1>2. CASE UNCHANGED TwoPass!machine
    <2>1. UNCHANGED << host, gmem, smem, reg, round >>
      BY <1>2 DEF TwoPass!machine
    <2>2. FlagGrid' = FlagGrid
      BY DEF FlagGrid, TwoPass!Blocks, TwoPass!GridSize, TwoPass!CeilDiv
    <2>3. FlagTypes => FlagTypes'
      BY <2>1 DEF FlagTypes, TwoPass!Index, TwoPass!Blocks, TwoPass!GridSize, TwoPass!CeilDiv,
                            TwoPass!Thread, TwoPass!Unwritten, TwoPass!Lanes, FlagGrid
    <2>4. FlagRounds => FlagRounds'
      BY <2>1, <2>2 DEF FlagRounds, TwoPass!LastRound, TwoPass!Log2
    <2>5. ASSUME FlagsInv PROVE FlagsInv'
      <3>1. \A w \in FlagGrid : Summed(w)' /\ Carried(w)' /\ FlagWritten(w)'
        BY <2>1, <2>5, WarpKept DEF FlagsInv
      <3> QED BY <2>1, <2>2, <2>3, <2>4, <2>5, <3>1 DEF FlagsInv
    <2>6. ASSUME ScatterInv PROVE ScatterInv'
      <3>1. \A w \in FlagGrid : Stored(w)'
        BY <2>1, <2>6 DEF ScatterInv, Stored, Rank, TwoPass!Lanes
      <3>2. \A i : TwoPass!Position(i)' = TwoPass!Position(i)
        BY <2>1 DEF TwoPass!Position
      <3> QED BY <2>1, <2>2, <2>3, <2>6, <3>1, <3>2 DEF ScatterInv, Rank
    <2> QED BY <2>5, <2>6 DEF TwoPassInv
  <1>3. ASSUME NEW w \in FlagGrid,
               TwoPass!StoreFlag(w) \/ TwoPass!ReadBelow(w) \/ TwoPass!AddBelow(w)
               \/ TwoPass!WriteFlags(w)
        PROVE  FlagsInv'
    <2>1. host.stage = "flags"
      BY <1>3 DEF TwoPass!StoreFlag, TwoPass!ReadBelow, TwoPass!AddBelow, TwoPass!WriteFlags,
                  TwoPass!Turn
    <2>2. FlagsInv
      BY <2>1 DEF TwoPassInv, ScatterInv
    <2> QED BY <1>3, <2>2, StoreFlagStep, ReadBelowStep, AddBelowStep, WriteFlagsStep
  <1>4. ASSUME NEW w \in FlagGrid, TwoPass!Scatter(w) PROVE ScatterInv'
    <2>1. ScatterInv
      BY <1>4 DEF TwoPassInv, FlagsInv, TwoPass!Scatter
    <2> QED BY <1>4, <2>1, FlagScatterStep
  <1>5. CASE TwoPass!AddUpBlocks
    <2>1. FlagsInv
      BY <1>5 DEF TwoPassInv, ScatterInv, TwoPass!AddUpBlocks
    <2> QED BY <1>5, <2>1, AddUpBlocksStep DEF TwoPassInv
  <1>6. CASE TwoPass!ReadBack
    <2>1. ScatterInv
      BY <1>6 DEF TwoPassInv, FlagsInv, TwoPass!ReadBack
    <2> QED BY <1>6, <2>1, ReadBackStep DEF TwoPassInv
  <1> QED BY <1>1, <1>2, <1>3, <1>4, <1>5, <1>6 DEF TwoPass!Next, TwoPass!Warps, TwoPassInv

\* The output is the passing elements in order.
LEMMA TwoPassCorrect == TwoPass!SizesAssumption /\ TwoPassInv => TwoPass!OrderedOutput
  <1> SUFFICES ASSUME TwoPass!SizesAssumption, TwoPassInv, host.stage = "done"
               PROVE  /\ host.total = Cardinality(host.prime)
                      /\ { gmem.output[p] : p \in 0..host.total - 1 } = host.prime
                      /\ \A p, q \in 0..host.total - 1 : p < q => gmem.output[p] < gmem.output[q]
    BY TwoPassCounts DEF TwoPass!OrderedOutput, TwoPass!Ended
  <1> DEFINE P == host.prime
             n == host.total
  <1>1. /\ FlagTypes /\ n = Cardinality(P)
        /\ \A w \in FlagGrid : Stored(w) /\ round[w] = 1
    BY DEF TwoPassInv, FlagsInv, ScatterInv
  <1>2. IsFiniteSet(P) /\ P \subseteq Int
    BY <1>1, PassFacts
  <1>3. \A i \in P : gmem.output[Rank(P, i)] = i
    <2> TAKE i \in P
    <2>1. PICK w \in FlagGrid : i - w[1] * CompactBlock \in TwoPass!Lanes(w)
      BY <1>1, RankPlaces
    <2> QED BY <1>1, <2>1 DEF Stored
  <1> HIDE DEF P, n
  <1>4. /\ \A i \in P : Rank(P, i) \in 0..n - 1
        /\ \A i, j \in P : i < j => Rank(P, i) < Rank(P, j)
        /\ \A q \in 0..n - 1 : \E i \in P : Rank(P, i) = q
    BY <1>1, <1>2, RankFacts
  <1>5. \A p \in 0..n - 1 : gmem.output[p] \in P /\ Rank(P, gmem.output[p]) = p
    BY <1>3, <1>4
  <1>6. { gmem.output[p] : p \in 0..n - 1 } = P
    <2>1. \A i \in P : \E p \in 0..n - 1 : gmem.output[p] = i
      BY <1>3, <1>4
    <2> QED BY <1>5, <2>1
  <1>7. ASSUME NEW p \in 0..n - 1, NEW q \in 0..n - 1, p < q PROVE gmem.output[p] < gmem.output[q]
    <2> DEFINE i == gmem.output[p]
               j == gmem.output[q]
    <2>1. i \in P /\ j \in P /\ Rank(P, i) = p /\ Rank(P, j) = q
      BY <1>5
    <2> HIDE DEF i, j
    <2>2. i # j /\ ~ (j < i)
      BY <1>4, <1>7, <2>1
    <2>3. i < j
      BY <1>2, <2>1, <2>2
    <2> QED BY <2>3 DEF i, j
  <1> QED BY <1>1, <1>6, <1>7 DEF P, n

\* What the kernels store is a flag's count, a number or a sum.
LEMMA TwoPassType == TwoPass!SizesAssumption /\ TwoPassInv => TwoPass!TypeOK
  <1> SUFFICES ASSUME TwoPass!SizesAssumption, TwoPassInv PROVE TwoPass!TypeOK
    OBVIOUS
  <1>1. FlagTypes
    BY DEF TwoPassInv, FlagsInv, ScatterInv
  <1>2. TwoPass!LastRound \in Nat
    BY FlagLevels
  <1>3. round \in [FlagGrid -> 0..TwoPass!LastRound + 1]
    BY <1>2 DEF TwoPassInv, FlagsInv, ScatterInv, FlagRounds
  <1> QED BY <1>1, <1>3 DEF TwoPass!TypeOK, FlagTypes, TwoPass!Warps
-------------------------------------------------------------------------------
(* warp_aggregated_atomics_cg: each element its own position               *)

\* The cardinalities of the instance are the library's.
LEMMA WarpCounts == /\ \A S : Warp!Cardinality(S) = Cardinality(S)
                    /\ \A g, t : Warp!Rank(g, t) = Rank(g, t)
  BY DEF Warp!Cardinality, Cardinality, Warp!Rank, Rank

\* The groups of a warp: its active threads, by label.
GroupOf(w, l)  == { t \in Warp!Active(w) : host.input[t] = l }
LabelGroups(w) == { GroupOf(w, l) : l \in Labels } \ {{}}

\* The groups of a label that have claimed positions, where these begin and how many
\* they are.
Member(g)  == CHOOSE t \in g : TRUE
Claimed(l) == { p \in UNION { {w} \X DOMAIN reg[w].stage : w \in DOMAIN round } :
                  Warp!Label(p[2]) = l /\ reg[p[1]].stage[p[2]] # "count" }
ClaimedFrom(l)  == [p \in Claimed(l) |-> reg[p[1]].old[Member(p[2])]]
ClaimedCount(l) == [p \in Claimed(l) |-> Cardinality(p[2])]

HistTypes ==
  /\ host.n \in Nat /\ host.input \in [0..host.n - 1 -> Labels]
  /\ gmem = [count |-> gmem.count, weight |-> gmem.weight, scan |-> gmem.scan]
  /\ gmem.count \in [Labels -> Nat]
  /\ gmem.scan = [t \in 0..host.n - 1 |-> gmem.scan[t]]
  /\ DOMAIN round = Warp!Grid(Warp!CeilDiv(host.n, SortBlock), SortBlock \div WideWarp)
  /\ DOMAIN reg = DOMAIN round

HistWarp(w) ==
  /\ reg[w] = [started |-> reg[w].started, stage |-> reg[w].stage, old |-> reg[w].old]
  /\ reg[w].started \in BOOLEAN
  /\ reg[w].started => DOMAIN reg[w].stage = LabelGroups(w)
  /\ ~ reg[w].started => DOMAIN reg[w].stage = {}
  /\ reg[w].stage \in [DOMAIN reg[w].stage -> {"count", "weight", "done"}]
  /\ reg[w].old = [t \in UNION DOMAIN reg[w].stage |-> reg[w].old[t]]
  /\ \A g \in DOMAIN reg[w].stage :
       /\ \A t \in g : reg[w].old[t] = reg[w].old[Member(g)]
       /\ reg[w].stage[g] = "done" =>
            \A t \in g : gmem.scan[t] = Warp!TotalWeight({ u \in g : u <= t })

HistInv ==
  /\ HistTypes /\ \A w \in DOMAIN round : HistWarp(w)
  /\ \A l \in Labels : Fill(Claimed(l), ClaimedFrom(l), ClaimedCount(l), gmem.count[l])

WarpInv == host.kernel = "weighted_histogram" => HistInv

\* A thread is of one warp.
LEMMA ActiveApart ==
  ASSUME Warp!SizesAssumption, HistTypes
  PROVE  /\ \A w \in DOMAIN round : Warp!Active(w) \subseteq 0..host.n - 1
         /\ \A v, w \in DOMAIN round : \A t \in Warp!Active(v) : t \in Warp!Active(w) => v = w
  <1> DEFINE W == WideWarp
             k == SortBlock \div WideWarp
             m == Warp!CeilDiv(host.n, SortBlock)
  <1>1. W \in Nat \ {0} /\ SortBlock \in Nat /\ SortBlock % W = 0 /\ Warp!Lane = 0..W - 1
    <2>1. PICK e \in 1..5 : W = 2^e
      BY DEF Warp!SizesAssumption
    <2>2. W \in Nat \ {0}
      BY <2>1, PowerOfTwo
    <2> QED BY <2>2 DEF Warp!SizesAssumption, Warp!Lane
  <1>2. host.n \in Nat /\ DOMAIN round = (0..m - 1) \X (0..k - 1)
    BY DEF HistTypes, Warp!Grid
  <1>3. \A w : Warp!Active(w)
          = { t \in { (w[1] * k + w[2]) * W + l : l \in 0..W - 1 } : t < host.n }
    BY <1>1 DEF Warp!Active, Warp!Threads, Warp!WarpIndex
  <1>4. CASE SortBlock = 0
    <2>1. k = 0
      BY <1>1, <1>4
    <2>2. DOMAIN round = {}
      BY <1>2, <2>1
    <2> QED BY <2>2
  <1>5. CASE SortBlock # 0
    <2>1. k \in Nat \ {0}
      BY <1>1, <1>5, WholeQuotient
    <2>2. m \in Int
      <3>1. host.n + SortBlock - 1 \in Nat /\ SortBlock \in Nat \ {0}
        BY <1>1, <1>2, <1>5
      <3>2. (host.n + SortBlock - 1) \div SortBlock \in Nat
        BY <3>1, DivMod
      <3> QED BY <3>2 DEF Warp!CeilDiv
    <2> HIDE DEF k, m
    <2>3. \A w \in DOMAIN round : w[1] \in Nat /\ w[2] \in 0..k - 1 /\ w = << w[1], w[2] >>
                                   /\ w[1] * k + w[2] \in Nat
      <3> TAKE w \in DOMAIN round
      <3>1. w[1] \in Nat /\ w[2] \in 0..k - 1 /\ w = << w[1], w[2] >>
        BY <1>2, <2>1, <2>2
      <3>2. w[1] * k \in Nat
        BY <2>1, <3>1
      <3> QED BY <2>1, <3>1, <3>2
    <2>4. ASSUME NEW w \in DOMAIN round PROVE Warp!Active(w) \subseteq 0..host.n - 1
      <3> SUFFICES ASSUME NEW t \in Warp!Active(w) PROVE t \in 0..host.n - 1
        OBVIOUS
      <3> DEFINE x == w[1] * k + w[2]
      <3>1. x \in Nat
        BY <2>3
      <3>2. PICK l \in 0..W - 1 : t = x * W + l /\ t < host.n
        BY <1>3
      <3> HIDE DEF x
      <3>3. x * W \in Nat
        BY <1>1, <3>1
      <3> QED BY <1>1, <1>2, <3>2, <3>3
    <2>5. ASSUME NEW v \in DOMAIN round, NEW w \in DOMAIN round,
                 NEW t \in Warp!Active(v), t \in Warp!Active(w)
          PROVE  v = w
      <3> DEFINE x == v[1] * k + v[2]
                 y == w[1] * k + w[2]
      <3>1. x \in Nat /\ y \in Nat
        BY <2>3
      <3>2. PICK l \in 0..W - 1 : t = x * W + l
        BY <1>3
      <3>3. PICK j \in 0..W - 1 : t = y * W + j
        BY <1>3, <2>5
      <3>4. x = y
        <4> HIDE DEF x, y, W
        <4> QED BY <1>1, <3>1, <3>2, <3>3, DigitsUnique
      <3> DEFINE a == v[1]
                 b == w[1]
                 c == v[2]
                 d == w[2]
      <3>5. a \in Nat /\ b \in Nat /\ c \in 0..k - 1 /\ d \in 0..k - 1 /\ a * k + c = b * k + d
        BY <2>3, <3>4
      <3>6. a = b /\ c = d
        <4> HIDE DEF a, b, c, d
        <4> QED BY <2>1, <3>5, DigitsUnique
      <3> QED BY <2>3, <3>6
    <2> QED BY <2>4, <2>5
  <1> QED BY <1>4, <1>5

\* The groups of a warp are finite sets of its threads, apart, each of a label.
LEMMA GroupsOfWarp ==
  ASSUME Warp!SizesAssumption, HistTypes, NEW w \in DOMAIN round
  PROVE  /\ \A g \in LabelGroups(w) :
              /\ g # {} /\ g \subseteq Warp!Active(w) /\ g \subseteq Int /\ IsFiniteSet(g)
              /\ Member(g) \in g /\ Cardinality(g) \in Nat
              /\ Warp!Label(g) \in Labels /\ g = GroupOf(w, Warp!Label(g))
         /\ \A g, h \in LabelGroups(w) : \A t \in g : t \in h => g = h
         /\ \A t \in Warp!Active(w) : /\ GroupOf(w, host.input[t]) \in LabelGroups(w)
                                      /\ t \in GroupOf(w, host.input[t])
  <1>1. Warp!Active(w) \subseteq 0..host.n - 1 /\ host.n \in Nat
        /\ host.input \in [0..host.n - 1 -> Labels]
    BY ActiveApart DEF HistTypes
  <1>2. IsFiniteSet(0..host.n - 1)
    BY <1>1, Below
  <1>3. ASSUME NEW g \in LabelGroups(w)
        PROVE  /\ g # {} /\ g \subseteq Warp!Active(w) /\ g \subseteq Int /\ IsFiniteSet(g)
               /\ Member(g) \in g /\ Cardinality(g) \in Nat
               /\ Warp!Label(g) \in Labels /\ g = GroupOf(w, Warp!Label(g))
    <2>1. PICK l \in Labels : g = GroupOf(w, l)
      BY DEF LabelGroups
    <2>2. g # {} /\ g \subseteq Warp!Active(w) /\ \A t \in g : host.input[t] = l
      BY <2>1 DEF LabelGroups, GroupOf
    <2>3. (CHOOSE t \in g : TRUE) \in g
      BY <2>2
    <2>4. Warp!Label(g) = l
      BY <2>2, <2>3 DEF Warp!Label
    <2>5. g \in SUBSET (0..host.n - 1)
      BY <1>1, <2>2
    <2>6. IsFiniteSet(g)
      BY <1>2, <2>5, FS_Subset
    <2>7. Cardinality(g) \in Nat
      BY <2>6, FS_CardinalityType
    <2>8. g \subseteq Int
      BY <1>1, <2>5
    <2> QED BY <2>1, <2>2, <2>3, <2>4, <2>6, <2>7, <2>8 DEF Member
  <1>4. ASSUME NEW g \in LabelGroups(w), NEW h \in LabelGroups(w), NEW t \in g, t \in h
        PROVE g = h
    <2>1. g = GroupOf(w, Warp!Label(g)) /\ h = GroupOf(w, Warp!Label(h))
      BY <1>3
    <2>2. host.input[t] = Warp!Label(g) /\ host.input[t] = Warp!Label(h)
      BY <1>4, <2>1 DEF GroupOf
    <2> QED BY <2>1, <2>2
  <1>5. ASSUME NEW t \in Warp!Active(w)
        PROVE  GroupOf(w, host.input[t]) \in LabelGroups(w) /\ t \in GroupOf(w, host.input[t])
    <2>1. host.input[t] \in Labels
      BY <1>1
    <2>2. t \in GroupOf(w, host.input[t])
      BY DEF GroupOf
    <2> QED BY <2>1, <2>2 DEF LabelGroups
  <1> QED BY <1>3, <1>4, <1>5

\* The groups of a launch stay,
LEMMA GroupsKept ==
  ASSUME host' = host, NEW w
  PROVE  /\ LabelGroups(w)' = LabelGroups(w) /\ Warp!Active(w)' = Warp!Active(w)
         /\ \A g : Warp!Label(g)' = Warp!Label(g)
  BY DEF LabelGroups, GroupOf, Warp!Active, Warp!Threads, Warp!WarpIndex, Warp!Lane, Warp!Label

\* and what another warp does leaves a warp's as they are.
LEMMA HistWarpKept ==
  ASSUME Warp!SizesAssumption, HistTypes, NEW v \in DOMAIN round, HistWarp(v), host' = host,
         reg'[v] = reg[v],
         \A t \in Warp!Active(v) : gmem'.scan[t] = gmem.scan[t]
  PROVE  HistWarp(v)'
  <1>1. \A g \in DOMAIN reg[v].stage : g \subseteq Warp!Active(v)
    <2>1. DOMAIN reg[v].stage \subseteq LabelGroups(v)
      <3>1. reg[v].started \/ ~ reg[v].started
        OBVIOUS
      <3> QED BY <3>1 DEF HistWarp
    <2> QED BY <2>1, GroupsOfWarp
  <1>2. LabelGroups(v)' = LabelGroups(v)
    BY GroupsKept
  <1>3. \A g \in DOMAIN reg[v].stage : \A t \in g : gmem'.scan[t] = gmem.scan[t]
    BY <1>1
  <1>4. \A g \in DOMAIN reg'[v].stage :
          /\ \A t \in g : reg'[v].old[t] = reg'[v].old[Member(g)]
          /\ reg'[v].stage[g] = "done" =>
               \A t \in g : gmem'.scan[t] = Warp!TotalWeight({ u \in g : u <= t })
    <2>1. \A g \in DOMAIN reg[v].stage :
            /\ \A t \in g : reg[v].old[t] = reg[v].old[Member(g)]
            /\ reg[v].stage[g] = "done" =>
                 \A t \in g : gmem.scan[t] = Warp!TotalWeight({ u \in g : u <= t })
      BY DEF HistWarp
    <2> QED BY <1>3, <2>1
  <1>5. /\ reg'[v] = [started |-> reg'[v].started, stage |-> reg'[v].stage, old |-> reg'[v].old]
        /\ reg'[v].started \in BOOLEAN
        /\ reg'[v].started => DOMAIN reg'[v].stage = LabelGroups(v)'
        /\ ~ reg'[v].started => DOMAIN reg'[v].stage = {}
        /\ reg'[v].stage \in [DOMAIN reg'[v].stage -> {"count", "weight", "done"}]
        /\ reg'[v].old = [t \in UNION DOMAIN reg'[v].stage |-> reg'[v].old[t]]
    BY <1>2 DEF HistWarp
  <1> QED BY <1>4, <1>5 DEF HistWarp, Member

\* A step that claims nothing leaves the claims.
LEMMA ClaimsKept ==
  ASSUME NEW l, Fill(Claimed(l), ClaimedFrom(l), ClaimedCount(l), gmem.count[l]),
         Claimed(l)' = Claimed(l), gmem'.count[l] = gmem.count[l],
         \A p \in Claimed(l) : reg'[p[1]].old[Member(p[2])] = reg[p[1]].old[Member(p[2])]
  PROVE  Fill(Claimed(l), ClaimedFrom(l), ClaimedCount(l), gmem.count[l])'
  <1>1. \A p \in Claimed(l) :
          ClaimedFrom(l)'[p] = ClaimedFrom(l)[p] /\ ClaimedCount(l)'[p] = ClaimedCount(l)[p]
    BY DEF ClaimedFrom, ClaimedCount, Member
  <1> DEFINE S == Claimed(l)
             f == ClaimedFrom(l)
             g == ClaimedCount(l)
             h == ClaimedFrom(l)'
             k == ClaimedCount(l)'
             n == gmem.count[l]
  <1>2. Fill(S, f, g, n) /\ \A p \in S : h[p] = f[p] /\ k[p] = g[p]
    BY <1>1
  <1> HIDE DEF S, f, g, h, k, n
  <1>3. Fill(S, h, k, n)
    BY <1>2, FillSame
  <1> USE DEF S, f, g, h, k, n
  <1>4. Fill(Claimed(l)', ClaimedFrom(l)', ClaimedCount(l)', gmem'.count[l])
    BY <1>3
  <1> QED BY <1>4 DEF Fill

\* The invariant, from what a step of one warp changes.
LEMMA HistStep ==
  ASSUME Warp!SizesAssumption, HistInv, NEW w \in DOMAIN round, host' = host, round' = round,
         HistTypes',
         HistWarp(w)', \A v \in DOMAIN round : v # w => reg'[v] = reg[v],
         \A v \in DOMAIN round : v # w => \A t \in Warp!Active(v) : gmem'.scan[t] = gmem.scan[t],
         \A l \in Labels : Fill(Claimed(l), ClaimedFrom(l), ClaimedCount(l), gmem.count[l])'
  PROVE  HistInv'
  <1>1. \A v \in DOMAIN round : HistWarp(v)'
    <2> TAKE v \in DOMAIN round
    <2>1. CASE v = w
      BY <2>1
    <2>2. CASE v # w
      <3>1. HistTypes /\ HistWarp(v)
        BY DEF HistInv
      <3> QED BY <2>2, <3>1, HistWarpKept
    <2> QED BY <2>1, <2>2
  <1>2. \A v \in DOMAIN round' : HistWarp(v)'
    BY <1>1
  <1> QED BY <1>2 DEF HistInv

\* A group is in one stage.
LEMMA ClaimedIs ==
  ASSUME Warp!SizesAssumption, NEW w, NEW g, NEW l
  PROVE  << w, g >> \in Claimed(l) <=>
           /\ w \in DOMAIN round /\ g \in DOMAIN reg[w].stage
           /\ Warp!Label(g) = l /\ reg[w].stage[g] # "count"
  BY DEF Claimed

\* What such a pair is.
LEMMA ClaimedPair ==
  ASSUME NEW l, NEW p \in Claimed(l)
  PROVE  /\ p = << p[1], p[2] >> /\ p[1] \in DOMAIN round /\ p[2] \in DOMAIN reg[p[1]].stage
         /\ Warp!Label(p[2]) = l /\ reg[p[1]].stage[p[2]] # "count"
  BY DEF Claimed

\* A warp with no element returns.
LEMMA ReturnsStep ==
  ASSUME Warp!SizesAssumption, HistInv, NEW w \in DOMAIN round, Warp!Returns(w)
  PROVE  HistInv'
  <1>1. /\ ~ reg[w].started /\ Warp!Active(w) = {} /\ reg' = [reg EXCEPT ![w].started = TRUE]
        /\ host' = host /\ gmem' = gmem /\ round' = round
    BY DEF Warp!Returns, Warp!WholeWarp
  <1>2. HistTypes /\ HistWarp(w)
    BY DEF HistInv
  <1>3. /\ DOMAIN reg' = DOMAIN round /\ reg'[w] = [reg[w] EXCEPT !.started = TRUE]
        /\ \A v \in DOMAIN round : v # w => reg'[v] = reg[v]
    BY <1>1, <1>2 DEF HistTypes
  <1>4. reg'[w].started = TRUE /\ reg'[w].stage = reg[w].stage /\ reg'[w].old = reg[w].old
        /\ reg'[w] = [started |-> TRUE, stage |-> reg[w].stage, old |-> reg[w].old]
    <2>1. reg[w] = [started |-> reg[w].started, stage |-> reg[w].stage, old |-> reg[w].old]
      BY <1>2 DEF HistWarp
    <2> QED BY <1>3, <2>1
  <1>5. LabelGroups(w) = {} /\ DOMAIN reg[w].stage = {}
    <2>1. \A l \in Labels : GroupOf(w, l) = {}
      BY <1>1 DEF GroupOf
    <2>2. DOMAIN reg[w].stage = {}
      BY <1>1, <1>2 DEF HistWarp
    <2> QED BY <2>1, <2>2 DEF LabelGroups
  <1>6. HistWarp(w)'
    <2>1. LabelGroups(w)' = {}
      BY <1>1, <1>5, GroupsKept
    <2>2. reg[w].stage \in [DOMAIN reg[w].stage -> {"count", "weight", "done"}]
          /\ reg[w].old = [t \in UNION DOMAIN reg[w].stage |-> reg[w].old[t]]
      BY <1>2 DEF HistWarp
    <2> QED BY <1>4, <1>5, <2>1, <2>2 DEF HistWarp
  <1>7. \A v \in DOMAIN round :
          DOMAIN reg'[v].stage = DOMAIN reg[v].stage /\ reg'[v].stage = reg[v].stage
                                  /\ reg'[v].old = reg[v].old
    BY <1>3, <1>4
  <1>8. ASSUME NEW l \in Labels
        PROVE  Fill(Claimed(l), ClaimedFrom(l), ClaimedCount(l), gmem.count[l])'
    <2>1. Claimed(l)' = Claimed(l)
      <3>1. UNION { {v} \X DOMAIN reg'[v].stage : v \in DOMAIN round }
              = UNION { {v} \X DOMAIN reg[v].stage : v \in DOMAIN round }
        BY <1>7
      <3>2. \A p \in UNION { {v} \X DOMAIN reg[v].stage : v \in DOMAIN round } :
              reg'[p[1]].stage[p[2]] = reg[p[1]].stage[p[2]]
              /\ Warp!Label(p[2])' = Warp!Label(p[2])
        BY <1>1, <1>7, GroupsKept
      <3> QED BY <1>1, <3>1, <3>2 DEF Claimed
    <2>2. \A p \in Claimed(l) : reg'[p[1]].old[Member(p[2])] = reg[p[1]].old[Member(p[2])]
      BY <1>7, ClaimedPair
    <2>3. Fill(Claimed(l), ClaimedFrom(l), ClaimedCount(l), gmem.count[l])
      BY DEF HistInv
    <2> QED BY <1>1, <2>1, <2>2, <2>3, ClaimsKept
  <1>9. HistTypes'
    BY <1>1, <1>2, <1>3 DEF HistTypes, Warp!Grid, Warp!CeilDiv
  <1> QED BY <1>1, <1>3, <1>6, <1>8, <1>9, HistStep

\* A warp splits into its groups, none of which has claimed.
LEMMA SplitStep ==
  ASSUME Warp!SizesAssumption, HistInv, NEW w \in DOMAIN round, Warp!SplitByLabel(w)
  PROVE  HistInv'
  <1> DEFINE groups == LabelGroups(w)
  <1>1. groups = { { t \in Warp!Active(w) : host.input[t] = l } : l \in Labels } \ {{}}
    BY DEF LabelGroups, GroupOf
  <1>2. /\ ~ reg[w].started /\ host' = host /\ gmem' = gmem /\ round' = round
        /\ reg' = [reg EXCEPT ![w] = [started |-> TRUE, stage |-> [g \in groups |-> "count"],
                                      old |-> [t \in UNION groups |-> 0]]]
    BY <1>1 DEF Warp!SplitByLabel, Warp!Splits, Warp!Runs
  <1> HIDE DEF groups
  <1>3. HistTypes /\ HistWarp(w)
    BY DEF HistInv
  <1>4. /\ DOMAIN reg' = DOMAIN round
        /\ reg'[w] = [started |-> TRUE, stage |-> [g \in groups |-> "count"],
                      old |-> [t \in UNION groups |-> 0]]
        /\ \A v \in DOMAIN round : v # w => reg'[v] = reg[v]
    BY <1>2, <1>3 DEF HistTypes
  <1>5. /\ reg'[w].started = TRUE /\ reg'[w].stage = [g \in groups |-> "count"]
        /\ reg'[w].old = [t \in UNION groups |-> 0]
    BY <1>4
  <1>6. HistWarp(w)'
    <2>1. LabelGroups(w)' = groups
      BY <1>2, GroupsKept DEF groups
    <2>2. DOMAIN reg'[w].stage = groups /\ \A g \in groups : reg'[w].stage[g] = "count"
      BY <1>5
    <2>3. \A g \in groups : \A t \in g : Member(g) \in UNION groups /\ t \in UNION groups
      BY <1>3, GroupsOfWarp DEF groups
    <2>4. \A g \in groups : \A t \in g : reg'[w].old[t] = reg'[w].old[Member(g)]
      BY <1>5, <2>3
    <2>5. \A g \in groups : reg'[w].stage[g] # "done"
      BY <2>2
    <2>6. reg'[w].old = [t \in UNION groups |-> reg'[w].old[t]]
      BY <1>5
    <2>7. reg'[w].stage \in [groups -> {"count", "weight", "done"}]
      BY <1>5
    <2>8. /\ reg'[w] = [started |-> reg'[w].started, stage |-> reg'[w].stage, old |-> reg'[w].old]
          /\ reg'[w].started \in BOOLEAN /\ reg'[w].started
      BY <1>4, <1>5
    <2> QED BY <2>1, <2>2, <2>4, <2>5, <2>6, <2>7, <2>8 DEF HistWarp, Member
  <1>7. DOMAIN reg[w].stage = {}
    BY <1>2, <1>3 DEF HistWarp
  <1>8. ASSUME NEW l \in Labels
        PROVE  Fill(Claimed(l), ClaimedFrom(l), ClaimedCount(l), gmem.count[l])'
    <2>1. \A p \in Claimed(l) : p[1] \in DOMAIN round /\ p[1] # w
      BY <1>7, ClaimedPair
    <2>2. Claimed(l)' = Claimed(l)
      <3>1. \A p \in Claimed(l) : p \in Claimed(l)'
        <4> TAKE p \in Claimed(l)
        <4>1. /\ p = << p[1], p[2] >> /\ p[1] \in DOMAIN round /\ p[2] \in DOMAIN reg[p[1]].stage
              /\ Warp!Label(p[2]) = l /\ reg[p[1]].stage[p[2]] # "count" /\ reg'[p[1]] = reg[p[1]]
              /\ Warp!Label(p[2])' = Warp!Label(p[2])
          BY <1>2, <1>4, <2>1, ClaimedPair, GroupsKept
        <4> QED BY <1>2, <4>1 DEF Claimed
      <3>2. ASSUME NEW p \in Claimed(l)' PROVE p \in Claimed(l)
        <4>1. /\ p = << p[1], p[2] >> /\ p[1] \in DOMAIN round /\ p[2] \in DOMAIN reg'[p[1]].stage
              /\ Warp!Label(p[2])' = l /\ reg'[p[1]].stage[p[2]] # "count"
          BY <1>2, <3>2 DEF Claimed
        <4>2. p[1] # w
          BY <1>5, <4>1
        <4>3. reg'[p[1]] = reg[p[1]] /\ Warp!Label(p[2])' = Warp!Label(p[2])
          BY <1>2, <1>4, <4>1, <4>2, GroupsKept
        <4> QED BY <4>1, <4>3 DEF Claimed
      <3> QED BY <3>1, <3>2
    <2>3. \A p \in Claimed(l) : reg'[p[1]].old[Member(p[2])] = reg[p[1]].old[Member(p[2])]
      BY <1>4, <2>1
    <2>4. Fill(Claimed(l), ClaimedFrom(l), ClaimedCount(l), gmem.count[l])
      BY DEF HistInv
    <2> QED BY <1>2, <2>2, <2>3, <2>4, ClaimsKept
  <1>9. HistTypes'
    BY <1>2, <1>3, <1>4 DEF HistTypes, Warp!Grid, Warp!CeilDiv
  <1> QED BY <1>2, <1>4, <1>6, <1>8, <1>9, HistStep

\* A warp's groups, once it has some.
LEMMA Started ==
  ASSUME Warp!SizesAssumption, HistInv, NEW w \in DOMAIN round, NEW g \in DOMAIN reg[w].stage
  PROVE  reg[w].started /\ DOMAIN reg[w].stage = LabelGroups(w) /\ g \in LabelGroups(w)
  <1>1. HistWarp(w)
    BY DEF HistInv
  <1>2. reg[w].started
    BY <1>1 DEF HistWarp
  <1> QED BY <1>1, <1>2 DEF HistWarp

\* A warp's registers with one of them changed.
LEMMA Registers ==
  ASSUME NEW a, NEW b, NEW c, NEW r, r = [started |-> a, stage |-> b, old |-> c], NEW x
  PROVE  /\ [r EXCEPT !.stage = x] = [started |-> a, stage |-> x, old |-> c]
         /\ [r EXCEPT !.old = x] = [started |-> a, stage |-> b, old |-> x]
  OBVIOUS

\* A group's leader claims the next positions of its label.
LEMMA AddCountStep ==
  ASSUME Warp!SizesAssumption, HistInv, host.kernel = "weighted_histogram",
         NEW w \in DOMAIN round, NEW g \in DOMAIN reg[w].stage, Warp!AddCount(w, g)
  PROVE  HistInv'
  <1> DEFINE L == Warp!Label(g)
             r == reg[w]
             stage == [r.stage EXCEPT ![g] = "weight"]
             old == [t \in DOMAIN r.old |-> IF t \in g THEN gmem.count[L] ELSE r.old[t]]
             G == LabelGroups(w)
  <1>1. /\ r.stage[g] = "count" /\ host' = host /\ round' = round
        /\ gmem' = [gmem EXCEPT !.count[L] = @ + Warp!Cardinality(g)]
        /\ reg' = [reg EXCEPT ![w].stage[g] = "weight",
                   ![w].old = [t \in DOMAIN @ |-> IF t \in g /\ host.kernel = "weighted_histogram"
                                                  THEN gmem.count[L] ELSE @[t]]]
    BY DEF Warp!AddCount, Warp!At
  <1>2. HistTypes /\ HistWarp(w)
    BY DEF HistInv
  <1>3. /\ DOMAIN r.stage = G /\ g \in G /\ L \in Labels /\ Cardinality(g) \in Nat
        /\ Member(g) \in g /\ g \subseteq UNION G
        /\ \A h \in G : Member(h) \in h /\ \A t \in h : t \in g => h = g
        /\ \A h \in G : h \subseteq UNION G
    <2>1. DOMAIN r.stage = G /\ g \in G
      BY Started
    <2> QED BY <1>2, <2>1, GroupsOfWarp
  <1>4. /\ r = [started |-> r.started, stage |-> r.stage, old |-> r.old] /\ r.started \in BOOLEAN
        /\ r.started
        /\ r.stage \in [G -> {"count", "weight", "done"}]
        /\ r.old = [t \in UNION G |-> r.old[t]] /\ DOMAIN r.old = UNION G
    <2>1. r.started
      BY Started
    <2> QED BY <1>2, <1>3, <2>1 DEF HistWarp
  <1>5. reg' = [reg EXCEPT ![w] = [started |-> r.started, stage |-> stage, old |-> old]]
    <2> DEFINE a == [reg EXCEPT ![w].stage[g] = "weight"]
               b == [started |-> r.started, stage |-> stage, old |-> r.old]
               f == [t \in DOMAIN r.old |-> IF t \in g /\ host.kernel = "weighted_histogram"
                                               THEN gmem.count[L] ELSE r.old[t]]
    <2>1. f = old
      OBVIOUS
    <2>2. w \in DOMAIN reg
      BY <1>2 DEF HistTypes
    <2>3. [r EXCEPT !.stage[g] = "weight"] = b
      <3>1. [r EXCEPT !.stage[g] = "weight"] = [r EXCEPT !.stage = stage]
        OBVIOUS
      <3>2. [r EXCEPT !.stage = stage] = b
        <4> DEFINE x == r.started
                   y == r.stage
                   z == r.old
        <4>1. r = [started |-> x, stage |-> y, old |-> z]
          BY <1>4
        <4> HIDE DEF r, stage, x, y, z
        <4>2. [r EXCEPT !.stage = stage] = [started |-> x, stage |-> stage, old |-> z]
          BY ONLY <4>1, Registers
        <4> QED BY <4>2 DEF x, z
      <3> QED BY <3>1, <3>2, Zenon
    <2>4. a = [reg EXCEPT ![w] = b]
      BY <2>3, Zenon
    <2>5. reg' = [a EXCEPT ![w].old
            = [t \in DOMAIN @ |-> IF t \in g /\ host.kernel = "weighted_histogram"
                                                             THEN gmem.count[L] ELSE @[t]]]
      BY <1>1
    <2>6. a[w] = b /\ a[w].old = r.old
      BY <2>2, <2>4
    <2>7. reg' = [a EXCEPT ![w].old = f]
      BY <2>5, <2>6
    <2> HIDE DEF a, b, f, old, stage, r
    <2>8. reg' = [reg EXCEPT ![w] = [b EXCEPT !.old = old]]
      BY <2>1, <2>2, <2>4, <2>6, <2>7
    <2>9. [b EXCEPT !.old = old] = [started |-> r.started, stage |-> stage, old |-> old]
      BY Registers DEF b
    <2> QED BY <2>8, <2>9
  <1>6. /\ stage \in [G -> {"count", "weight", "done"}] /\ stage[g] = "weight"
        /\ \A h \in G : h # g => stage[h] = r.stage[h]
    BY <1>3, <1>4
  <1>7. /\ old = [t \in UNION G |-> old[t]] /\ \A t \in g : old[t] = gmem.count[L]
        /\ \A t \in UNION G : t \notin g => old[t] = r.old[t]
    BY <1>3, <1>4
  <1> HIDE DEF stage, old
  <1>8. /\ DOMAIN reg' = DOMAIN round
        /\ reg'[w] = [started |-> r.started, stage |-> stage, old |-> old]
        /\ \A v \in DOMAIN round : v # w => reg'[v] = reg[v]
    BY <1>2, <1>5 DEF HistTypes
  <1>9. reg'[w].started = r.started /\ reg'[w].stage = stage /\ reg'[w].old = old
    BY <1>8
  <1>10. /\ gmem'.scan = gmem.scan /\ gmem'.count = [gmem.count EXCEPT ![L] = @ + Cardinality(g)]
         /\ gmem' = [count |-> gmem'.count, weight |-> gmem'.weight, scan |-> gmem'.scan]
    BY <1>1, <1>2, WarpCounts DEF HistTypes
  <1>11. /\ gmem'.count \in [Labels -> Nat] /\ gmem'.count[L] = gmem.count[L] + Cardinality(g)
         /\ \A l \in Labels : l # L => gmem'.count[l] = gmem.count[l]
    BY <1>2, <1>3, <1>10 DEF HistTypes
  <1>12. HistTypes'
    BY <1>1, <1>2, <1>8, <1>10, <1>11 DEF HistTypes, Warp!Grid, Warp!CeilDiv
  <1>13. HistWarp(w)'
    <2>1. LabelGroups(w)' = G
      BY <1>1, GroupsKept
    <2>2. \A h \in G : /\ \A t \in h : r.old[t] = r.old[Member(h)]
                       /\ r.stage[h] = "done" =>
                            \A t \in h : gmem.scan[t] = Warp!TotalWeight({ u \in h : u <= t })
      <3>1. \A h \in DOMAIN reg[w].stage :
              /\ \A t \in h : reg[w].old[t] = reg[w].old[Member(h)]
              /\ reg[w].stage[h] = "done" =>
                   \A t \in h : gmem.scan[t] = Warp!TotalWeight({ u \in h : u <= t })
        BY <1>2 DEF HistWarp
      <3> QED BY <1>3, <3>1
    <2> HIDE DEF G, r, L
    <2>3. ASSUME NEW h \in G PROVE \A t \in h : old[t] = old[Member(h)]
      <3>1. CASE h = g
        BY <1>3, <1>7, <3>1
      <3>2. CASE h # g
        <4>1. \A t \in h : t \notin g /\ t \in UNION G /\ Member(h) \in h
          BY <1>3, <3>2
        <4> QED BY <1>7, <2>2, <4>1
      <3> QED BY <3>1, <3>2
    <2>4. \A h \in G : stage[h] = "done" =>
            \A t \in h : gmem'.scan[t] = Warp!TotalWeight({ u \in h : u <= t })
      BY <1>6, <1>10, <2>2
    <2>5. DOMAIN stage = G
      BY <1>6
    <2>6. /\ reg'[w] = [started |-> reg'[w].started, stage |-> reg'[w].stage, old |-> reg'[w].old]
          /\ reg'[w].started \in BOOLEAN /\ reg'[w].started
          /\ DOMAIN reg'[w].stage = LabelGroups(w)'
          /\ reg'[w].stage \in [DOMAIN reg'[w].stage -> {"count", "weight", "done"}]
      BY <1>4, <1>6, <1>8, <1>9, <2>1, <2>5
    <2>7. reg'[w].old = [t \in UNION DOMAIN reg'[w].stage |-> reg'[w].old[t]]
      BY <1>7, <1>9, <2>5
    <2>8. \A h \in DOMAIN reg'[w].stage :
            /\ \A t \in h : reg'[w].old[t] = reg'[w].old[Member(h)]
            /\ reg'[w].stage[h] = "done" =>
                 \A t \in h : gmem'.scan[t] = Warp!TotalWeight({ u \in h : u <= t })
      BY <1>9, <2>3, <2>4, <2>5
    <2> QED BY <2>6, <2>7, <2>8 DEF HistWarp, Member
  <1>14. \A v \in DOMAIN round : DOMAIN reg'[v].stage = DOMAIN reg[v].stage
    BY <1>3, <1>6, <1>8, <1>9
  <1>15. \A l : \A p \in Claimed(l) : /\ p # << w, g >>
                                     /\ reg'[p[1]].stage[p[2]] = reg[p[1]].stage[p[2]]
                                     /\ reg'[p[1]].old[Member(p[2])] = reg[p[1]].old[Member(p[2])]
    <2> TAKE l
    <2> TAKE p \in Claimed(l)
    <2>1. /\ p = << p[1], p[2] >> /\ p[1] \in DOMAIN round /\ p[2] \in DOMAIN reg[p[1]].stage
          /\ reg[p[1]].stage[p[2]] # "count"
      BY ClaimedPair
    <2>2. CASE p[1] # w
      BY <1>8, <2>1, <2>2
    <2>3. CASE p[1] = w
      <3>1. p[2] \in G /\ p[2] # g
        BY <1>1, <1>3, <2>1, <2>3
      <3>2. Member(p[2]) \in UNION G /\ Member(p[2]) \notin g
        BY <1>3, <3>1
      <3>3. stage[p[2]] = r.stage[p[2]] /\ old[Member(p[2])] = r.old[Member(p[2])]
        BY <1>6, <1>7, <3>1, <3>2
      <3>4. p # << w, g >>
        BY <3>1
      <3> QED BY <1>9, <2>3, <3>3, <3>4
    <2> QED BY <2>2, <2>3
  <1>16. \A l : \A p : p \in Claimed(l)' <=> p \in Claimed(l) \/ (p = << w, g >> /\ l = L)
    <2> TAKE l
    <2> TAKE p
    <2>1. p \in Claimed(l) => p \in Claimed(l)'
      <3> HAVE p \in Claimed(l)
      <3>1. /\ p = << p[1], p[2] >> /\ p[1] \in DOMAIN round /\ p[2] \in DOMAIN reg'[p[1]].stage
            /\ Warp!Label(p[2])' = l /\ reg'[p[1]].stage[p[2]] # "count"
        <4>1. /\ p = << p[1], p[2] >> /\ p[1] \in DOMAIN round /\ p[2] \in DOMAIN reg[p[1]].stage
              /\ Warp!Label(p[2]) = l /\ reg[p[1]].stage[p[2]] # "count"
          BY ClaimedPair
        <4>2. DOMAIN reg'[p[1]].stage = DOMAIN reg[p[1]].stage
          BY <1>14, <4>1
        <4>3. reg'[p[1]].stage[p[2]] = reg[p[1]].stage[p[2]]
          BY <1>15
        <4>4. Warp!Label(p[2])' = Warp!Label(p[2])
          BY <1>1, GroupsKept
        <4> QED BY <4>1, <4>2, <4>3, <4>4
      <3> QED BY <1>1, <3>1 DEF Claimed
    <2>2. p = << w, g >> /\ l = L => p \in Claimed(l)'
      <3>1. w \in DOMAIN round' /\ g \in DOMAIN reg'[w].stage /\ Warp!Label(g)' = L
            /\ reg'[w].stage[g] # "count"
        BY <1>1, <1>6, <1>9, <1>14, GroupsKept
      <3> HIDE DEF L
      <3> QED BY <3>1 DEF Claimed
    <2>3. ASSUME p \in Claimed(l)', p # << w, g >> PROVE p \in Claimed(l)
      <3>1. /\ p = << p[1], p[2] >> /\ p[1] \in DOMAIN round /\ p[2] \in DOMAIN reg'[p[1]].stage
            /\ Warp!Label(p[2])' = l /\ reg'[p[1]].stage[p[2]] # "count"
        <4>1. /\ p \in UNION { {v} \X DOMAIN reg'[v].stage : v \in DOMAIN round' }
              /\ Warp!Label(p[2])' = l /\ reg'[p[1]].stage[p[2]] # "count"
          BY <2>3, Zenon DEF Claimed
        <4> HIDE DEF L, G, r
        <4>2. PICK v \in DOMAIN round' : p \in {v} \X DOMAIN reg'[v].stage
          BY <4>1
        <4>3. p = << p[1], p[2] >> /\ p[1] = v /\ p[2] \in DOMAIN reg'[v].stage
          BY <4>2
        <4> QED BY <1>1, <4>1, <4>2, <4>3
      <3>2. p[2] \in DOMAIN reg[p[1]].stage /\ Warp!Label(p[2]) = l
        BY <1>1, <1>14, <3>1, GroupsKept
      <3>3. reg[p[1]].stage[p[2]] # "count"
        <4>1. CASE p[1] # w
          BY <1>8, <3>1, <4>1
        <4>2. CASE p[1] = w
          <5>1. p[2] # g /\ p[2] \in G
            BY <1>3, <2>3, <3>1, <3>2, <4>2
          <5> QED BY <1>6, <1>9, <3>1, <4>2, <5>1
        <4> QED BY <4>1, <4>2
      <3> QED BY <3>1, <3>2, <3>3 DEF Claimed
    <2>4. p = << w, g >> /\ p \in Claimed(l)' => l = L
      <3> HAVE p = << w, g >> /\ p \in Claimed(l)'
      <3>1. Warp!Label(p[2])' = l /\ p[2] = g
        BY DEF Claimed
      <3> QED BY <1>1, <3>1, GroupsKept
    <2> QED BY <2>1, <2>2, <2>3, <2>4
  <1>17. ASSUME NEW l \in Labels
         PROVE  Fill(Claimed(l), ClaimedFrom(l), ClaimedCount(l), gmem.count[l])'
    <2>1. Fill(Claimed(l), ClaimedFrom(l), ClaimedCount(l), gmem.count[l])
      BY DEF HistInv
    <2>2. CASE l # L
      <3>1. Claimed(l)' = Claimed(l)
        BY <1>16, <2>2
      <3> QED BY <1>11, <1>15, <2>1, <2>2, <3>1, ClaimsKept
    <2>3. CASE l = L
      <3> DEFINE S == Claimed(l)
                 x == << w, g >>
                 f == ClaimedFrom(l)
                 c == ClaimedCount(l)
                 h == ClaimedFrom(l)'
                 k == ClaimedCount(l)'
                 n == gmem.count[l]
                 d == Cardinality(g)
      <3>1. x \notin S /\ Claimed(l)' = S \cup {x}
        BY <1>15, <1>16, <2>3
      <3>2. \A y \in S : h[y] = f[y] /\ k[y] = c[y]
        BY <1>15, <3>1 DEF ClaimedFrom, ClaimedCount, Member
      <3>3. h[x] = n /\ k[x] = d
        <4>1. x \in Claimed(l)'
          BY <3>1
        <4>2. h[x] = reg'[w].old[Member(g)] /\ k[x] = Cardinality(g)
          BY <4>1 DEF ClaimedFrom, ClaimedCount, Member
        <4> QED BY <1>3, <1>7, <1>9, <2>3, <4>2
      <3>4. d \in Nat /\ gmem'.count[l] = n + d
        BY <1>3, <1>11, <2>3
      <3>5. Fill(S, f, c, n)
        BY <2>1
      <3> HIDE DEF S, f, c, h, k, n, d, x
      <3>6. Fill(S \cup {x}, h, k, n + d)
        BY <3>1, <3>2, <3>3, <3>4, <3>5, FillMore
      <3>7. Fill(Claimed(l)', h, k, gmem'.count[l])
        BY <3>1, <3>4, <3>6
      <3> QED BY <3>7 DEF Fill, h, k
    <2> QED BY <2>2, <2>3
  <1> QED BY <1>1, <1>8, <1>10, <1>12, <1>13, <1>17, HistStep

\* Its members scan their weights.
LEMMA AddWeightStep ==
  ASSUME Warp!SizesAssumption, HistInv, host.kernel = "weighted_histogram",
         NEW w \in DOMAIN round, NEW g \in DOMAIN reg[w].stage, Warp!AddWeight(w, g)
  PROVE  HistInv'
  <1> DEFINE r == reg[w]
             stage == [r.stage EXCEPT ![g] = "done"]
             scan == [t \in DOMAIN gmem.scan |-> IF t \in g
               THEN Warp!TotalWeight({ u \in g : u <= t }) ELSE gmem.scan[t]]
             G == LabelGroups(w)
  <1>1. /\ r.stage[g] = "weight" /\ host' = host /\ round' = round
        /\ reg' = [reg EXCEPT ![w].stage[g] = "done"]
        /\ gmem' = [gmem EXCEPT !.weight[Warp!Label(g)] = @ + Warp!TotalWeight(g),
                    !.scan = [t \in DOMAIN @ |-> IF t \in g /\ host.kernel = "weighted_histogram"
                                                 THEN Warp!TotalWeight({ u \in g : u <= t })
                                                   ELSE @[t]]]
    BY DEF Warp!AddWeight, Warp!At, Warp!Advance
  <1>2. HistTypes /\ HistWarp(w)
    BY DEF HistInv
  <1>3. DOMAIN r.stage = G /\ g \in G
    BY Started
  <1>4. /\ \A h \in G : \A t \in h : t \in g => h = g
        /\ \A h \in G : h \subseteq Warp!Active(w)
        /\ Warp!Active(w) \subseteq 0..host.n - 1
        /\ \A v \in DOMAIN round : v # w =>
             \A t \in Warp!Active(v) : t \notin Warp!Active(w) /\ t \in 0..host.n - 1
    BY <1>2, <1>3, GroupsOfWarp, ActiveApart
  <1>5. /\ r = [started |-> r.started, stage |-> r.stage, old |-> r.old] /\ r.started \in BOOLEAN
        /\ r.started
        /\ r.stage \in [G -> {"count", "weight", "done"}]
        /\ r.old = [t \in UNION G |-> r.old[t]]
    <2>1. r.started
      BY Started
    <2> QED BY <1>2, <1>3, <2>1 DEF HistWarp
  <1>6. reg' = [reg EXCEPT ![w] = [started |-> r.started, stage |-> stage, old |-> r.old]]
    <2>1. reg' = [reg EXCEPT ![w] = [r EXCEPT !.stage = stage]]
      BY <1>1
    <2>2. [r EXCEPT !.stage = stage] = [started |-> r.started, stage |-> stage, old |-> r.old]
      <3> DEFINE x == r.started
                 y == r.stage
                 z == r.old
      <3>1. r = [started |-> x, stage |-> y, old |-> z]
        BY <1>5
      <3> HIDE DEF r, stage, x, y, z
      <3>2. [r EXCEPT !.stage = stage] = [started |-> x, stage |-> stage, old |-> z]
        BY ONLY <3>1, Registers
      <3> QED BY <3>2 DEF x, z
    <2> QED BY <2>1, <2>2
  <1>7. /\ stage \in [G -> {"count", "weight", "done"}] /\ stage[g] = "done"
        /\ \A h \in G : h # g => stage[h] = r.stage[h]
    BY <1>3, <1>5
  <1> HIDE DEF stage
  <1>8. /\ DOMAIN reg' = DOMAIN round
        /\ reg'[w] = [started |-> r.started, stage |-> stage, old |-> r.old]
        /\ \A v \in DOMAIN round : v # w => reg'[v] = reg[v]
    BY <1>2, <1>6 DEF HistTypes
  <1>9. reg'[w].started = r.started /\ reg'[w].stage = stage /\ reg'[w].old = r.old
    BY <1>8
  <1>10. /\ gmem'.scan = scan /\ gmem'.count = gmem.count
         /\ gmem' = [count |-> gmem'.count, weight |-> gmem'.weight, scan |-> gmem'.scan]
    <2> DEFINE a == [gmem EXCEPT !.weight[Warp!Label(g)] = @ + Warp!TotalWeight(g)]
               x == [gmem.weight EXCEPT ![Warp!Label(g)] = @ + Warp!TotalWeight(g)]
               f == [t \in DOMAIN a.scan |-> IF t \in g /\ host.kernel = "weighted_histogram"
                                               THEN Warp!TotalWeight({ u \in g : u <= t })
                                                 ELSE a.scan[t]]
    <2>1. a = [gmem EXCEPT !.weight = x]
      OBVIOUS
    <2>2. gmem' = [a EXCEPT !.scan = f]
      BY <1>1
    <2> HIDE DEF x
    <2>3. gmem = [count |-> gmem.count, weight |-> gmem.weight, scan |-> gmem.scan]
      BY <1>2 DEF HistTypes
    <2>4. a = [count |-> gmem.count, weight |-> x, scan |-> gmem.scan]
      <3> HIDE DEF a
      <3> QED BY <2>1, <2>3
    <2>5. a.scan = gmem.scan
      <3> HIDE DEF a
      <3> QED BY <2>4
    <2>6. f = scan
      <3> HIDE DEF a
      <3> QED BY <2>5
    <2>7. gmem' = [count |-> gmem.count, weight |-> x, scan |-> scan]
      <3> HIDE DEF a, f, scan
      <3> QED BY <2>2, <2>4, <2>6
    <2> HIDE DEF scan
    <2> QED BY <2>7
  <1>11. /\ scan = [t \in 0..host.n - 1 |-> scan[t]]
         /\ \A t \in 0..host.n - 1 : t \in g => scan[t] = Warp!TotalWeight({ u \in g : u <= t })
         /\ \A t \in 0..host.n - 1 : t \notin g => scan[t] = gmem.scan[t]
    <2>1. DOMAIN gmem.scan = 0..host.n - 1
      BY <1>2 DEF HistTypes
    <2> QED BY <2>1
  <1> HIDE DEF scan
  <1>12. HistTypes'
    BY <1>1, <1>2, <1>8, <1>10, <1>11 DEF HistTypes, Warp!Grid, Warp!CeilDiv
  <1>13. HistWarp(w)'
    <2>1. LabelGroups(w)' = G
      BY <1>1, GroupsKept
    <2>2. \A h \in G : /\ \A t \in h : r.old[t] = r.old[Member(h)]
                       /\ r.stage[h] = "done" =>
                            \A t \in h : gmem.scan[t] = Warp!TotalWeight({ u \in h : u <= t })
      <3>1. \A h \in DOMAIN reg[w].stage :
              /\ \A t \in h : reg[w].old[t] = reg[w].old[Member(h)]
              /\ reg[w].stage[h] = "done" =>
                   \A t \in h : gmem.scan[t] = Warp!TotalWeight({ u \in h : u <= t })
        BY <1>2 DEF HistWarp
      <3> QED BY <1>3, <3>1
    <2> HIDE DEF G, r
    <2>3. ASSUME NEW h \in G, stage[h] = "done"
          PROVE  \A t \in h : gmem'.scan[t] = Warp!TotalWeight({ u \in h : u <= t })
      <3>0. \A t \in h : t \in 0..host.n - 1
        BY <1>4
      <3>1. CASE h = g
        BY <1>10, <1>11, <3>0, <3>1
      <3>2. CASE h # g
        <4>1. \A t \in h : t \notin g
          BY <1>3, <1>4, <3>2
        <4>2. \A t \in h : gmem'.scan[t] = gmem.scan[t]
          BY <1>10, <1>11, <3>0, <4>1
        <4> QED BY <1>7, <2>2, <2>3, <3>2, <4>2
      <3> QED BY <3>1, <3>2
    <2>4. DOMAIN stage = G
      BY <1>7
    <2>5. /\ reg'[w] = [started |-> reg'[w].started, stage |-> reg'[w].stage, old |-> reg'[w].old]
          /\ reg'[w].started \in BOOLEAN /\ reg'[w].started
          /\ DOMAIN reg'[w].stage = LabelGroups(w)'
          /\ reg'[w].stage \in [DOMAIN reg'[w].stage -> {"count", "weight", "done"}]
      BY <1>5, <1>7, <1>8, <1>9, <2>1, <2>4
    <2>6. reg'[w].old = [t \in UNION DOMAIN reg'[w].stage |-> reg'[w].old[t]]
      BY <1>5, <1>9, <2>4
    <2>7. \A h \in DOMAIN reg'[w].stage :
            /\ \A t \in h : reg'[w].old[t] = reg'[w].old[Member(h)]
            /\ reg'[w].stage[h] = "done" =>
                 \A t \in h : gmem'.scan[t] = Warp!TotalWeight({ u \in h : u <= t })
      BY <1>9, <2>2, <2>3, <2>4
    <2> QED BY <2>5, <2>6, <2>7 DEF HistWarp, Member
  <1>14. \A v \in DOMAIN round : /\ DOMAIN reg'[v].stage = DOMAIN reg[v].stage /\ reg'[v].old = reg[v].old
                                 /\ \A h \in DOMAIN reg[v].stage :
                                      reg'[v].stage[h] # "count" <=> reg[v].stage[h] # "count"
    <2> TAKE v \in DOMAIN round
    <2>1. CASE v = w
      <3>1. \A h \in G : stage[h] # "count" <=> r.stage[h] # "count"
        BY <1>1, <1>7
      <3>2. DOMAIN stage = G
        BY <1>7
      <3> QED BY <1>3, <1>9, <2>1, <3>1, <3>2
    <2>2. CASE v # w
      BY <1>8, <2>2
    <2> QED BY <2>1, <2>2
  <1>15. ASSUME NEW l \in Labels
         PROVE  Fill(Claimed(l), ClaimedFrom(l), ClaimedCount(l), gmem.count[l])'
    <2>1. Claimed(l)' = Claimed(l)
      <3>1. UNION { {v} \X DOMAIN reg'[v].stage : v \in DOMAIN round }
              = UNION { {v} \X DOMAIN reg[v].stage : v \in DOMAIN round }
        BY <1>14
      <3>2. \A p \in UNION { {v} \X DOMAIN reg[v].stage : v \in DOMAIN round } :
              /\ reg'[p[1]].stage[p[2]] # "count" <=> reg[p[1]].stage[p[2]] # "count"
              /\ Warp!Label(p[2])' = Warp!Label(p[2])
        <4> TAKE p \in UNION { {v} \X DOMAIN reg[v].stage : v \in DOMAIN round }
        <4>1. PICK v \in DOMAIN round : p \in {v} \X DOMAIN reg[v].stage
          OBVIOUS
        <4>2. p[1] = v /\ p[2] \in DOMAIN reg[v].stage
          BY <4>1
        <4> QED BY <1>1, <1>14, <4>2, GroupsKept
      <3> QED BY <1>1, <3>1, <3>2 DEF Claimed
    <2>2. \A p \in Claimed(l) : reg'[p[1]].old[Member(p[2])] = reg[p[1]].old[Member(p[2])]
      BY <1>14, ClaimedPair
    <2>3. Fill(Claimed(l), ClaimedFrom(l), ClaimedCount(l), gmem.count[l])
      BY DEF HistInv
    <2> QED BY <1>10, <2>1, <2>2, <2>3, ClaimsKept
  <1>16. \A v \in DOMAIN round : v # w => \A t \in Warp!Active(v) : gmem'.scan[t] = gmem.scan[t]
    <2>1. g \subseteq Warp!Active(w)
      BY <1>3, <1>4
    <2> QED BY <1>4, <1>10, <1>11, <2>1
  <1> QED BY <1>1, <1>8, <1>12, <1>13, <1>15, <1>16, HistStep

\* The invariant holds of a launch,
LEMMA WarpInit == Warp!SizesAssumption /\ Warp!Init => WarpInv
  <1> SUFFICES ASSUME Warp!SizesAssumption, Warp!Init, host.kernel = "weighted_histogram"
               PROVE HistInv
    BY DEF WarpInv
  <1>1. Warp!InitHistogram
    BY DEF Warp!Init, Warp!InitRedux, Warp!InitVote, Warp!InitSpmv, Warp!InitRoute,
           Warp!InitAtomics, Warp!Launch
  <1>2. PICK n \in Elements : \E labels \in [0..n - 1 -> Labels] : \E kernel \in Warp!Histograms :
          Warp!Launch(kernel, SortBlock, n, labels,
            [ count |-> [l \in Labels |-> 0], weight |-> [l \in Labels |-> 0],
              scan |-> [t \in 0..n - 1 |-> 0] ])
    BY <1>1 DEF Warp!InitHistogram
  <1>3. PICK labels \in [0..n - 1 -> Labels], kernel \in Warp!Histograms :
          Warp!Launch(kernel, SortBlock, n, labels,
            [ count |-> [l \in Labels |-> 0], weight |-> [l \in Labels |-> 0],
              scan |-> [t \in 0..n - 1 |-> 0] ])
    BY <1>2
  <1>4. /\ host = [kernel |-> kernel, n |-> n, input |-> labels]
        /\ gmem = [ count |-> [l \in Labels |-> 0], weight |-> [l \in Labels |-> 0],
                    scan |-> [t \in 0..n - 1 |-> 0] ]
        /\ round = Warp!Launched(Warp!CeilDiv(n, SortBlock), SortBlock \div WideWarp)
        /\ reg = [w \in DOMAIN round |-> [started |-> FALSE, stage |-> << >>, old |-> << >>]]
    BY <1>3 DEF Warp!Launch
  <1>5. n \in Nat /\ host.n = n /\ host.input = labels
    BY <1>4 DEF Warp!SizesAssumption
  <1>6. HistTypes
    <2>1. DOMAIN round = Warp!Grid(Warp!CeilDiv(host.n, SortBlock), SortBlock \div WideWarp)
      BY <1>4, <1>5 DEF Warp!Launched
    <2>2. gmem.count \in [Labels -> Nat] /\ gmem.scan = [t \in 0..host.n - 1 |-> gmem.scan[t]]
          /\ gmem = [count |-> gmem.count, weight |-> gmem.weight, scan |-> gmem.scan]
      BY <1>4, <1>5
    <2> QED BY <1>4, <1>5, <2>1, <2>2 DEF HistTypes
  <1>7. \A w \in DOMAIN round :
          /\ reg[w] = [started |-> FALSE, stage |-> << >>, old |-> << >>]
          /\ reg[w].started = FALSE /\ reg[w].stage = << >> /\ reg[w].old = << >>
          /\ DOMAIN reg[w].stage = {}
    BY <1>4
  <1>8. \A w \in DOMAIN round : HistWarp(w)
    <2> TAKE w \in DOMAIN round
    <2>1. << >> = [t \in UNION {} |-> reg[w].old[t]]
      OBVIOUS
    <2>2. << >> \in [{} -> {"count", "weight", "done"}]
      OBVIOUS
    <2> QED BY <1>7, <2>1, <2>2 DEF HistWarp
  <1>9. ASSUME NEW l \in Labels
        PROVE Fill(Claimed(l), ClaimedFrom(l), ClaimedCount(l), gmem.count[l])
    <2>1. Claimed(l) = {}
      BY <1>7 DEF Claimed
    <2>2. gmem.count[l] = 0
      BY <1>4
    <2> QED BY <2>1, <2>2, FillNone
  <1> QED BY <1>6, <1>8, <1>9 DEF HistInv

\* and every step keeps it.
LEMMA WarpStep == Warp!SizesAssumption /\ WarpInv /\ [Warp!Next]_Warp!machine => WarpInv'
  <1> SUFFICES ASSUME Warp!SizesAssumption, WarpInv, [Warp!Next]_Warp!machine,
                      host'.kernel = "weighted_histogram"
               PROVE  HistInv'
    BY DEF WarpInv
  <1>1. CASE UNCHANGED Warp!machine
    <2>1. UNCHANGED << host, gmem, smem, reg, round >>
      BY <1>1 DEF Warp!machine
    <2>2. HistInv
      BY <2>1 DEF WarpInv
    <2>3. HistTypes'
      BY <2>1, <2>2 DEF HistInv, HistTypes, Warp!Grid, Warp!CeilDiv
    <2>4. \A w \in DOMAIN round : HistWarp(w)'
      BY <2>1, <2>2, HistWarpKept DEF HistInv
    <2>5. ASSUME NEW l \in Labels
          PROVE Fill(Claimed(l), ClaimedFrom(l), ClaimedCount(l), gmem.count[l])'
      <3>1. Claimed(l)' = Claimed(l)
        BY <2>1 DEF Claimed, Warp!Label
      <3> QED BY <2>1, <2>2, <3>1, ClaimsKept DEF HistInv
    <2> QED BY <2>1, <2>3, <2>4, <2>5 DEF HistInv
  <1>2. CASE Warp!Next
    <2>1. PICK w \in DOMAIN round :
            \/ Warp!Returns(w)
            \/ Warp!WarpRedux(w) \/ Warp!VoteAny(w) \/ Warp!VoteAll(w) \/ Warp!VoteMixed(w)
            \/ Warp!SpmvScalar(w) \/ Warp!SpmvVector(w)
            \/ Warp!SplitByLabel(w) \/ Warp!SplitSingly(w) \/ Warp!SplitBySign(w)
               \/ Warp!EachThread(w)
            \/ \E g \in DOMAIN reg[w].stage :
                 Warp!AddCount(w, g) \/ Warp!AddWeight(w, g) \/ Warp!RouteExtreme(w, g)
                 \/ Warp!RouteCount(w, g)
                   \/ Warp!DoAtomic(w, g)
      BY <1>2 DEF Warp!Next, Warp!Warps
    <2>2. host' = host
      BY <2>1 DEF Warp!Returns, Warp!WarpRedux, Warp!VoteAny, Warp!VoteAll, Warp!VoteMixed,
                  Warp!SpmvScalar,
                  Warp!SpmvVector, Warp!SplitByLabel, Warp!SplitSingly, Warp!SplitBySign,
                  Warp!EachThread,
                  Warp!AddCount, Warp!AddWeight, Warp!RouteExtreme, Warp!RouteCount,
                  Warp!DoAtomic,
                  Warp!WholeWarp, Warp!Splits, Warp!Advance
    <2>3. HistInv /\ host.kernel = "weighted_histogram"
      BY <2>2 DEF WarpInv
    <2>4. \/ Warp!Returns(w) \/ Warp!SplitByLabel(w)
          \/ \E g \in DOMAIN reg[w].stage : Warp!AddCount(w, g) \/ Warp!AddWeight(w, g)
      BY <2>1, <2>3 DEF Warp!WarpRedux, Warp!VoteAny, Warp!VoteAll, Warp!VoteMixed,
                        Warp!SpmvScalar,
                  Warp!SpmvVector, Warp!SplitSingly, Warp!SplitBySign, Warp!EachThread,
                  Warp!RouteExtreme, Warp!RouteCount, Warp!DoAtomic, Warp!Splits, Warp!Runs,
                  Warp!At
    <2> QED BY <2>3, <2>4, ReturnsStep, SplitStep, AddCountStep, AddWeightStep
  <1> QED BY <1>1, <1>2

\* The positions of a label's claims are all up to its count, each once; a group that
\* has ended has scanned its warp's weights.
LEMMA WarpClaims == Warp!SizesAssumption /\ WarpInv => Warp!ClaimedPositions
  <1> SUFFICES ASSUME Warp!SizesAssumption, WarpInv, host.kernel = "weighted_histogram"
               PROVE  /\ \A l \in Labels :
                           UNION { { reg[p[1]].old[t] + Warp!Rank(p[2], t) : t \in p[2] } :
                             p \in Claimed(l) }
                             = 0..gmem.count[l] - 1
                      /\ Warp!Ended =>
                           \A w \in DOMAIN round : \A t \in Warp!Active(w) :
                             gmem.scan[t] = Warp!TotalWeight({ u \in Warp!Active(w) :
                                                                u <= t /\ host.input[u]
                                                                  = host.input[t] })
    BY DEF Warp!ClaimedPositions, Claimed, Warp!Warps
  <1>1. HistInv /\ HistTypes
    BY DEF WarpInv, HistInv
  <1>2. ASSUME NEW l \in Labels
        PROVE  UNION { { reg[p[1]].old[t] + Warp!Rank(p[2], t) : t \in p[2] } : p \in Claimed(l) }
                 = 0..gmem.count[l] - 1
    <2> DEFINE n == gmem.count[l]
               S == Claimed(l)
               f == ClaimedFrom(l)
               c == ClaimedCount(l)
               at(p, t) == reg[p[1]].old[t] + Rank(p[2], t)
    <2>1. Fill(S, f, c, n)
      BY <1>1 DEF HistInv
    <2>2. ASSUME NEW p \in S
          PROVE  /\ f[p] \in Nat /\ c[p] \in Nat /\ f[p] + c[p] <= n /\ n \in Nat
                 /\ \A t \in p[2] :
                      at(p, t) = f[p] + Rank(p[2], t) /\ Rank(p[2], t) \in 0..c[p] - 1
                 /\ \A q \in 0..c[p] - 1 : \E t \in p[2] : Rank(p[2], t) = q
      <3>1. p[1] \in DOMAIN round /\ p[2] \in DOMAIN reg[p[1]].stage
        BY ClaimedPair
      <3>2. p[2] \in LabelGroups(p[1]) /\ HistWarp(p[1])
        BY <1>1, <3>1, Started DEF HistInv
      <3>3. IsFiniteSet(p[2]) /\ p[2] \subseteq Int
        BY <1>1, <3>1, <3>2, GroupsOfWarp
      <3>4. f[p] = reg[p[1]].old[Member(p[2])] /\ c[p] = Cardinality(p[2])
        BY DEF ClaimedFrom, ClaimedCount
      <3>5. \A t \in p[2] : reg[p[1]].old[t] = f[p]
        BY <3>1, <3>2, <3>4 DEF HistWarp
      <3>6. f[p] \in Nat /\ c[p] \in Nat /\ f[p] + c[p] <= n /\ n \in Nat
        BY <2>1 DEF Fill
      <3>7. /\ \A t \in p[2] : Rank(p[2], t) \in 0..Cardinality(p[2]) - 1
            /\ \A q \in 0..Cardinality(p[2]) - 1 : \E t \in p[2] : Rank(p[2], t) = q
        BY <3>3, RankFacts
      <3> QED BY <3>4, <3>5, <3>6, <3>7
    <2> HIDE DEF f, c, n, S
    <2>3. ASSUME NEW p \in S, NEW t \in p[2] PROVE at(p, t) \in 0..n - 1
      BY <2>2, <2>3
    <2>4. ASSUME NEW x \in 0..n - 1 PROVE \E p \in S : \E t \in p[2] : at(p, t) = x
      <3>1. PICK p \in S : f[p] <= x /\ x < f[p] + c[p]
        BY <2>1 DEF Fill
      <3>2. x - f[p] \in 0..c[p] - 1
        BY <2>2, <3>1
      <3>3. PICK t \in p[2] : Rank(p[2], t) = x - f[p]
        BY <2>2, <3>2
      <3>4. at(p, t) = f[p] + (x - f[p])
        BY <2>2, <3>3
      <3>5. f[p] \in Nat
        BY <2>2
      <3> QED BY <3>4, <3>5
    <2>5. UNION { { at(p, t) : t \in p[2] } : p \in S } = 0..n - 1
      BY <2>3, <2>4
    <2>6. ASSUME NEW p \in S
          PROVE  { at(p, t) : t \in p[2] }
                   = { reg[p[1]].old[t] + Warp!Rank(p[2], t) : t \in p[2] }
      <3>1. ASSUME NEW t PROVE at(p, t) = reg[p[1]].old[t] + Warp!Rank(p[2], t)
        BY WarpCounts DEF at
      <3> HIDE DEF at
      <3> QED BY <3>1, Zenon
    <2> DEFINE A(p) == { at(p, t) : t \in p[2] }
               B(p) == { reg[p[1]].old[t] + Warp!Rank(p[2], t) : t \in p[2] }
    <2>7. \A p \in S : A(p) = B(p)
      BY <2>6
    <2>8. UNION { A(p) : p \in S } = 0..n - 1
      BY <2>5
    <2>9. UNION { A(p) : p \in S } = UNION { B(p) : p \in S }
      <3> HIDE DEF A, B
      <3> QED BY <2>7
    <2>10. UNION { B(p) : p \in S } = 0..n - 1
      BY <2>8, <2>9
    <2> QED BY <2>10 DEF n, S
  <1>3. ASSUME Warp!Ended, NEW w \in DOMAIN round, NEW t \in Warp!Active(w)
        PROVE  gmem.scan[t]
                 = Warp!TotalWeight({ u \in Warp!Active(w) :
                   u <= t /\ host.input[u] = host.input[t] })
    <2> DEFINE g == GroupOf(w, host.input[t])
    <2>1. g \in LabelGroups(w) /\ t \in g
      BY <1>1, GroupsOfWarp
    <2>2. reg[w].started /\ \A h \in DOMAIN reg[w].stage : reg[w].stage[h] = "done"
      BY <1>3 DEF Warp!Ended, Warp!Warps
    <2>3. HistWarp(w)
      BY <1>1 DEF HistInv
    <2>4. DOMAIN reg[w].stage = LabelGroups(w)
      BY <2>2, <2>3 DEF HistWarp
    <2>5. gmem.scan[t] = Warp!TotalWeight({ u \in g : u <= t })
      <3> HIDE DEF g
      <3> QED BY <2>1, <2>2, <2>3, <2>4 DEF HistWarp
    <2>6. { u \in g : u <= t }
            = { u \in Warp!Active(w) : u <= t /\ host.input[u] = host.input[t] }
      BY DEF GroupOf
    <2> HIDE DEF g
    <2> QED BY <2>5, <2>6, Zenon
  <1> QED BY <1>2, <1>3
-------------------------------------------------------------------------------
(* scan: what the sweeps leave                                             *)

\* The sum of the inputs below the i-th, and, of a block of pass 1 and of the one of
\* pass 2, of what is below its elements.
SumBelow(i) == 2^(IF i <= host.n THEN i ELSE host.n) - 1
Sums(b) ==
  [i \in 0..Scan!Elems |-> SumBelow(IF host.pass = 1 THEN b * Scan!Elems + i ELSE i * Scan!Elems)]

Multiple(x, j) == \E q \in 0..x : x = q * 2^j

\* What element i holds of the sums f when the sweeps have come to round r: those of
\* the stretch up to it, as long as the greatest power of 2, up to one for the round,
\* that i + 1 is a multiple of; on the way down, for that one, the sum before it.
Exponent(r) == IF r <= Scan!Levels THEN r - 1 ELSE 2 * Scan!Levels + 1 - r

SweptTo(f, r, i, x) ==
  /\ \A j \in 0..Exponent(r) - 1 :
       Multiple(i + 1, j) /\ ~ Multiple(i + 1, j + 1) => x = f[i + 1] - f[i + 1 - 2^j]
  /\ Multiple(i + 1, Exponent(r)) =>
       x = IF r <= Scan!Levels THEN f[i + 1] - f[i + 1 - 2^Exponent(r)]
                               ELSE f[i + 1 - 2^Exponent(r)] - f[0]

\* The elements a warp may change between two barriers.
Touches(w, r) ==
  IF r = 0 THEN Scan!Own(w)
  ELSE IF r \in Scan!UpRound \cup Scan!DownRound
  THEN UNION { { Scan!PairOf(t, r)[1], Scan!PairOf(t, r)[2] } :
    t \in { t \in Scan!Lanes(w) : t < Scan!Active(r) } }
  ELSE {}

BlocksOf == IF host.pass = 2 THEN 1 ELSE Scan!NumBlocks
ScanGrid == Scan!Grid(BlocksOf, ScanBlock \div WarpSize)

SweepTypes ==
  /\ host \in [pass : 1..4, n : ScanSizes]
  /\ gmem \in [out : [0..host.n - 1 -> Int], block_sums : [0..Scan!NumBlocks - 1 -> Int],
               block_prefixes : [0..Scan!NumBlocks - 1 -> Int]]
  /\ smem \in [0..BlocksOf - 1 -> [0..Scan!Elems - 1 -> Int]]

\* Warps are a round apart at most; an element is at the round of the slowest, or the
\* next if the warp that changes it between the two is there.
SweepRounds ==
  /\ round \in [ScanGrid -> 0..Scan!LastRound + 1]
  /\ \A v, w \in ScanGrid : v[1] = w[1] => round[v] <= round[w] + 1

RoundOf(w, i) ==
  IF \E v \in ScanGrid : v[1] = w[1] /\ round[v] = round[w] + 1 /\ i \in Touches(v, round[w])
  THEN round[w] + 1 ELSE round[w]

Contents ==
  \A w \in ScanGrid : Scan!Synced(w) /\ round[w] \in 0..Scan!LastRound =>
    \A i \in 0..Scan!Elems - 1 :
      RoundOf(w, i) > 0 => SweptTo(Sums(w[1]), RoundOf(w, i), i, smem[w[1]][i])

\* What the kernels leave: the blocks' totals, the sums within each block, the sums
\* before each block, and in the end those before each element.
OutOf(w)   == { i \in 0..host.n - 1 : i - w[1] * Scan!Elems \in Scan!Own(w) }
Partial(i) == SumBelow(i) - SumBelow((i \div Scan!Elems) * Scan!Elems)
TotalOf(b) == SumBelow((b + 1) * Scan!Elems) - SumBelow(b * Scan!Elems)

TotalsHold ==
  \A b \in 0..Scan!NumBlocks - 1 :
    host.pass > 1 \/ round[<< b, 0 >>] > Scan!Levels => gmem.block_sums[b] = TotalOf(b)

PartialsHold ==
  /\ host.pass = 1 => \A w \in ScanGrid : round[w] = Scan!LastRound + 1 =>
                        \A i \in OutOf(w) : gmem.out[i] = Partial(i)
  /\ host.pass = 2 => \A i \in 0..host.n - 1 : gmem.out[i] = Partial(i)

PrefixesHold ==
  /\ host.pass = 2 => \A w \in ScanGrid : round[w] = Scan!LastRound + 1 =>
                        \A b \in Scan!Own(w) : b < Scan!NumBlocks =>
                          gmem.block_prefixes[b] = SumBelow(b * Scan!Elems)
  /\ host.pass > 2 => \A b \in 0..Scan!NumBlocks - 1 :
                        gmem.block_prefixes[b] = SumBelow(b * Scan!Elems)

ResultHolds ==
  /\ host.pass = 3 => /\ round \in [ScanGrid -> 0..1]
                      /\ \A w \in ScanGrid : \A i \in OutOf(w) :
                           gmem.out[i] = IF round[w] = 1 THEN SumBelow(i) ELSE Partial(i)
  /\ host.pass = 4 => round = Scan!NoKernel /\ \A i \in 0..host.n - 1 : gmem.out[i] = SumBelow(i)

SweepInv ==
  /\ SweepTypes /\ (host.pass \in {1, 2} => SweepRounds /\ Contents)
  /\ TotalsHold /\ PartialsHold /\ PrefixesHold /\ ResultHolds

\* The product of two powers.
LEMMA PowersAdd == ASSUME NEW a \in Nat, NEW b \in Nat PROVE 2^(a + b) = 2^a * 2^b
  <1> DEFINE bad == { n \in Nat : 2^(a + n) # 2^a * 2^n }
  <1>1. bad = {}
    <2> SUFFICES ASSUME bad # {} PROVE FALSE
      OBVIOUS
    <2>1. PICK n \in bad : \A m \in bad : n <= m
      <3>1. bad \subseteq Nat
        OBVIOUS
      <3> HIDE DEF bad
      <3> QED BY <3>1, LeastOf
    <2>2. n \in Nat /\ 2^(a + n) # 2^a * 2^n
      BY <2>1
    <2>3. n # 0
      <3> SUFFICES ASSUME n = 0 PROVE FALSE
        OBVIOUS
      <3>1. a + n = a /\ 2^n = 1 /\ 2^a \in Nat
        BY Powers
      <3>2. 2^a * 2^n = 2^a
        BY <3>1
      <3> QED BY <2>2, <3>1, <3>2
    <2> DEFINE p == n - 1
    <2>4. p \in Nat /\ n = p + 1 /\ a + n = (a + p) + 1 /\ a + p \in Nat
      BY <2>2, <2>3
    <2> HIDE DEF p
    <2>5. p \notin bad
      <3>1. ~ (n <= p)
        BY <2>4
      <3> QED BY <2>1, <3>1
    <2>6. 2^(a + p) = 2^a * 2^p
      BY <2>4, <2>5
    <2>7. 2^n = 2 * 2^p /\ 2^(a + n) = 2 * 2^(a + p) /\ 2^p \in Nat /\ 2^a \in Nat
      BY <2>4, Powers
    <2> DEFINE x == 2^a
               y == 2^p
    <2>8. 2^(a + n) = 2 * (x * y) /\ 2^n = 2 * y /\ x \in Nat /\ y \in Nat
      BY <2>6, <2>7
    <2>9. 2^(a + n) # x * 2^n
      BY <2>2
    <2> HIDE DEF x, y
    <2>10. x * (2 * y) = 2 * (x * y)
      BY <2>8
    <2> QED BY <2>8, <2>9, <2>10
  <1> QED BY <1>1

\* A positive multiple of a power, and of those below it.
LEMMA MultipleIs ==
  ASSUME NEW x, NEW j \in Nat, NEW o \in Nat \ {0}, o = 2^j, NEW q \in Nat, x = o * q
  PROVE  Multiple(x, j)
  <1>1. q <= o * q /\ x = q * o /\ x \in Nat
    <2>1. o >= 1
      OBVIOUS
    <2>2. 1 * q <= o * q
      BY <2>1
    <2> QED BY <2>2
  <1>2. q \in 0..x
    BY <1>1
  <1> QED BY <1>1, <1>2 DEF Multiple

\* One of a power is one of every lesser power.
LEMMA MultipleLess ==
  ASSUME NEW x \in Nat, NEW k \in Nat, NEW j \in 0..k, Multiple(x, k)
  PROVE  Multiple(x, j)
  <1>1. PICK q \in 0..x : x = q * 2^k
    BY DEF Multiple
  <1> DEFINE d == k - j
  <1>2. d \in Nat /\ j \in Nat /\ j + d = k
    OBVIOUS
  <1> HIDE DEF d
  <1>3. 2^k = 2^j * 2^d /\ 2^j \in Nat \ {0} /\ 2^d \in Nat
    <2>1. 2^(j + d) = 2^j * 2^d
      BY <1>2, PowersAdd
    <2> QED BY <1>2, <2>1, Powers
  <1> DEFINE o == 2^j
             e == 2^d
  <1>4. o \in Nat \ {0} /\ e \in Nat /\ x = q * (o * e) /\ q \in Nat
    BY <1>1, <1>3
  <1>5. o = 2^j
    OBVIOUS
  <1> HIDE DEF o, e
  <1>6. q * (o * e) = o * (q * e) /\ q * e \in Nat
    BY <1>4
  <1> DEFINE p == q * e
  <1>7. p \in Nat /\ x = o * p
    BY <1>4, <1>6
  <1> HIDE DEF p
  <1> QED BY <1>2, <1>4, <1>5, <1>7, MultipleIs

\* The levels of the sweeps.
LEMMA SweepLevels ==
  ASSUME Scan!SizesAssumption
  PROVE  /\ ScanBlock \in Nat \ {0} /\ WarpSize \in Nat \ {0} /\ Scan!Elems = 2 * ScanBlock
         /\ Scan!Elems \in Nat \ {0} /\ 2^Scan!Levels = Scan!Elems /\ Scan!Levels \in Nat \ {0}
         /\ Scan!UpRound = 1..Scan!Levels /\ Scan!DownRound = Scan!Levels + 1..2 * Scan!Levels
         /\ Scan!LastRound = 2 * Scan!Levels + 1 /\ Scan!LastRound \in Nat
  <1>1. ScanBlock \in Nat \ {0} /\ WarpSize \in Nat \ {0} /\ Scan!Elems = 2 * ScanBlock
        /\ Scan!Elems \in Nat \ {0}
    BY DEF Scan!SizesAssumption, Scan!Elems
  <1>2. Scan!Levels \in Nat /\ 2^Scan!Levels = Scan!Elems
    <2>1. \E k \in 0..Scan!Elems : 2^k = Scan!Elems
      BY DEF Scan!SizesAssumption, Scan!Elems
    <2>2. Scan!Log2(Scan!Elems) \in 0..Scan!Elems /\ 2^Scan!Log2(Scan!Elems) = Scan!Elems
      BY <2>1 DEF Scan!Log2
    <2> QED BY <1>1, <2>2 DEF Scan!Levels
  <1>3. Scan!Levels # 0
    <2> SUFFICES ASSUME Scan!Levels = 0 PROVE FALSE
      OBVIOUS
    <2>1. 2^Scan!Levels = 1
      BY Powers
    <2>2. 2 * ScanBlock # 1
      BY <1>1
    <2> QED BY <1>1, <1>2, <2>1, <2>2
  <1> QED BY <1>1, <1>2, <1>3 DEF Scan!UpRound, Scan!DownRound, Scan!LastRound

\* An odd multiple of a power is none of the next.
LEMMA OddMultiple ==
  ASSUME NEW j \in Nat, NEW o \in Nat \ {0}, o = 2^j, NEW t \in Nat, NEW x, x = o * (2 * t + 1)
  PROVE  ~ Multiple(x, j + 1)
  <1> SUFFICES ASSUME NEW q \in 0..x, x = q * 2^(j + 1) PROVE FALSE
    BY DEF Multiple
  <1>1. 2^(j + 1) = 2 * o
    BY Powers
  <1>2. x \in Nat /\ q \in Nat
    OBVIOUS
  <1> DEFINE m == 2 * t + 1
             n == 2 * q
  <1>3. m \in Nat /\ n \in Nat /\ m # n
    BY <1>2
  <1>4. x = m * o
    OBVIOUS
  <1>5. x = n * o
    <2>1. q * (2 * o) = (2 * q) * o
      BY <1>2
    <2> QED BY <1>1, <2>1
  <1> HIDE DEF m, n
  <1>6. m * o + 0 = n * o + 0 /\ 0 \in 0..o - 1
    BY <1>3, <1>4, <1>5
  <1> QED BY <1>3, <1>6, DigitsUnique

\* The distance of a round's pairs, a power of 2, and how many pairs there are.
LEMMA SweepPairs ==
  ASSUME Scan!SizesAssumption, NEW r \in 1..2 * Scan!Levels
  PROVE  \E j \in 0..Scan!Levels - 1, o \in Nat \ {0} :
           /\ o = Scan!Offset(r) /\ o = 2^j /\ 2^(j + 1) = 2 * o
           /\ j = IF r <= Scan!Levels THEN r - 1 ELSE 2 * Scan!Levels - r
           /\ Scan!Active(r) \in Nat \ {0} /\ 2 * (o * Scan!Active(r)) = Scan!Elems
           /\ r = Scan!Levels => Scan!Active(r) = 1
  <1> DEFINE L == Scan!Levels
  <1>1. L \in Nat \ {0} /\ 2^L = Scan!Elems /\ (r \in Scan!UpRound <=> r <= L)
    BY SweepLevels
  <1>2. PICK j \in 0..L - 1 : j = IF r <= L THEN r - 1 ELSE 2 * L - r
    BY <1>1
  <1> DEFINE e == IF r <= L THEN L - r ELSE r - L - 1
  <1>3. j \in Nat /\ e \in Nat /\ (j + e) + 1 = L /\ (r = L => e = 0)
    BY <1>1, <1>2
  <1>4. Scan!Offset(r) = 2^j /\ Scan!Active(r) = 2^e
    BY <1>1, <1>2 DEF Scan!Offset, Scan!Active
  <1> HIDE DEF L, e
  <1>5. 2^(j + e) = 2^j * 2^e /\ 2^((j + e) + 1) = 2 * 2^(j + e)
    BY <1>3, Powers, PowersAdd
  <1>6. 2^j \in Nat \ {0} /\ 2^(j + 1) = 2 * 2^j /\ 2^e \in Nat \ {0} /\ (r = L => 2^e = 1)
    BY <1>3, Powers
  <1> QED BY <1>1, <1>2, <1>3, <1>4, <1>5, <1>6 DEF L

\* Where a round's pairs are.
LEMMA PairPlaces ==
  ASSUME Scan!SizesAssumption, NEW r \in 1..2 * Scan!Levels, NEW t \in Nat, t < Scan!Active(r)
  PROVE  LET o == Scan!Offset(r)
             p == Scan!PairOf(t, r)
         IN /\ p[1] + 1 = o * (2 * t + 1) /\ p[2] + 1 = o * (2 * t + 2) /\ p[2] = p[1] + o
            /\ p[1] \in 0..Scan!Elems - 1 /\ p[2] \in 0..Scan!Elems - 1
  <1>1. PICK o \in Nat \ {0} : /\ o = Scan!Offset(r)
                               /\ Scan!Active(r) \in Nat \ {0}
                               /\ 2 * (o * Scan!Active(r)) = Scan!Elems
    BY SweepPairs
  <1> DEFINE n == Scan!Active(r)
  <1>2. n \in Nat \ {0} /\ t < n /\ 2 * (o * n) = Scan!Elems /\ Scan!Elems \in Nat
    BY <1>1
  <1>3. Scan!PairOf(t, r) = << o * (2 * t + 1) - 1, o * (2 * t + 2) - 1 >>
    BY <1>1 DEF Scan!PairOf
  <1> HIDE DEF n
  <1>4. o * (2 * t + 2) = o * (2 * t + 1) + o /\ o * (2 * t + 1) \in Nat \ {0}
    <2>1. o * (2 * t + 2) = 2 * (o * t) + 2 * o /\ o * (2 * t + 1) = 2 * (o * t) + o
          /\ o * t \in Nat
      OBVIOUS
    <2> QED BY <2>1
  <1>5. o * (2 * t + 2) <= Scan!Elems
    <2>1. t + 1 <= n
      BY <1>2
    <2>2. o * (t + 1) <= o * n
      BY <1>2, <2>1
    <2>3. o * (2 * t + 2) = 2 * (o * (t + 1))
      OBVIOUS
    <2>4. o * (t + 1) \in Nat /\ o * n \in Nat
      BY <1>2
    <2> QED BY <1>2, <2>2, <2>3, <2>4
  <1> DEFINE x == o * (2 * t + 1)
             y == o * (2 * t + 2)
  <1>6. x \in Nat \ {0} /\ y = x + o /\ y <= Scan!Elems
    BY <1>4, <1>5
  <1>7. Scan!PairOf(t, r) = << x - 1, y - 1 >>
    BY <1>3
  <1> HIDE DEF x, y
  <1>8. x - 1 + 1 = x /\ y - 1 + 1 = y /\ y - 1 = x - 1 + o /\ x - 1 \in 0..Scan!Elems - 1
        /\ y - 1 \in 0..Scan!Elems - 1
    BY <1>2, <1>6
  <1> QED BY <1>1, <1>7, <1>8 DEF x, y

\* An element is of one pair, and first or second in it.
LEMMA PairApart ==
  ASSUME Scan!SizesAssumption, NEW r \in 1..2 * Scan!Levels,
         NEW s \in Nat, s < Scan!Active(r), NEW t \in Nat, t < Scan!Active(r)
  PROVE  LET p == Scan!PairOf(s, r)
             q == Scan!PairOf(t, r)
         IN /\ p[1] # q[2] /\ (p[1] = q[1] \/ p[2] = q[2] => s = t)
  <1>1. PICK o \in Nat \ {0} : o = Scan!Offset(r)
    BY SweepPairs
  <1> DEFINE p == Scan!PairOf(s, r)
             q == Scan!PairOf(t, r)
  <1>2. /\ p[1] + 1 = o * (2 * s + 1) /\ p[2] + 1 = o * (2 * s + 2) /\ p[1] \in Int
        /\ p[2] \in Int
        /\ q[1] + 1 = o * (2 * t + 1) /\ q[2] + 1 = o * (2 * t + 2) /\ q[1] \in Int
        /\ q[2] \in Int
    BY <1>1, PairPlaces
  <1> HIDE DEF p, q
  <1>3. ASSUME NEW m \in Nat, NEW n \in Nat, o * m = o * n PROVE m = n
    <2>1. m * o + 0 = n * o + 0 /\ 0 \in 0..o - 1
      BY <1>3
    <2> QED BY <2>1, DigitsUnique
  <1>4. 2 * s + 1 \in Nat /\ 2 * s + 2 \in Nat /\ 2 * t + 1 \in Nat /\ 2 * t + 2 \in Nat
        /\ 2 * s + 1 # 2 * t + 2
    OBVIOUS
  <1>5. p[1] # q[2]
    <2> SUFFICES ASSUME p[1] = q[2] PROVE FALSE
      OBVIOUS
    <2>1. o * (2 * s + 1) = o * (2 * t + 2)
      BY <1>2
    <2> QED BY <1>3, <1>4, <2>1
  <1>6. ASSUME p[1] = q[1] PROVE s = t
    <2>1. o * (2 * s + 1) = o * (2 * t + 1)
      BY <1>2, <1>6
    <2>2. 2 * s + 1 = 2 * t + 1
      BY <1>3, <1>4, <2>1
    <2> QED BY <2>2
  <1>7. ASSUME p[2] = q[2] PROVE s = t
    <2>1. o * (2 * s + 2) = o * (2 * t + 2)
      BY <1>2, <1>7
    <2>2. 2 * s + 2 = 2 * t + 2
      BY <1>3, <1>4, <2>1
    <2> QED BY <2>2
  <1> QED BY <1>5, <1>6, <1>7 DEF p, q

\* The sums of a block's elements.
SumsOf == [0..Scan!Elems -> Int]

\* Combining a pair on the way up,
LEMMA UpPair ==
  ASSUME Scan!SizesAssumption, NEW f \in SumsOf, NEW r \in 1..Scan!Levels, NEW t \in Nat,
         t < Scan!Active(r),
         NEW a, NEW b, a = Scan!PairOf(t, r)[1], b = Scan!PairOf(t, r)[2], NEW x \in Int,
         NEW y \in Int,
         SweptTo(f, r, a, x), SweptTo(f, r, b, y)
  PROVE  /\ SweptTo(f, r + 1, a, x)
         /\ r # Scan!Levels => SweptTo(f, r + 1, b, y + x)
         /\ r = Scan!Levels =>
              b = Scan!Elems - 1 /\ y + x = f[Scan!Elems] - f[0] /\ SweptTo(f, r + 1, b, 0)
  <1> DEFINE L == Scan!Levels
             B == Scan!Elems
  <1>1. L \in Nat \ {0} /\ 2^L = B /\ B \in Nat /\ r \in 1..2 * L /\ r \in 1..L
    BY SweepLevels
  <1>2. PICK j \in 0..L - 1, o \in Nat \ {0} :
          /\ o = Scan!Offset(r) /\ o = 2^j /\ 2^(j + 1) = 2 * o /\ j = r - 1
          /\ 2 * (o * Scan!Active(r)) = B /\ (r = L => Scan!Active(r) = 1)
    BY <1>1, SweepPairs
  <1>3. /\ a + 1 = o * (2 * t + 1) /\ b + 1 = o * (2 * t + 2) /\ b = a + o
        /\ a \in 0..B - 1 /\ b \in 0..B - 1
    BY <1>1, <1>2, PairPlaces
  <1>4. Exponent(r) = j /\ Exponent(r + 1) = j + 1 /\ j \in Nat /\ r <= L
        /\ (r + 1 <= L <=> r # L)
    <2>1. CASE r = L
      BY <1>1, <1>2, <2>1 DEF Exponent
    <2>2. CASE r # L
      BY <1>1, <1>2, <2>2 DEF Exponent
    <2> QED BY <2>1, <2>2
  <1>5. Multiple(a + 1, j) /\ ~ Multiple(a + 1, j + 1)
    <2>1. ~ Multiple(a + 1, j + 1)
      BY <1>2, <1>3, <1>4, OddMultiple
    <2> DEFINE q == 2 * t + 1
    <2>2. q \in Nat /\ a + 1 = o * q
      BY <1>3
    <2> HIDE DEF q
    <2>3. Multiple(a + 1, j)
      BY <1>2, <1>4, <2>2, MultipleIs
    <2> QED BY <2>1, <2>3
  <1>6. Multiple(b + 1, j + 1)
    <2>1. b + 1 = (2 * o) * (t + 1)
      <3>1. o * (2 * t + 2) = (2 * o) * (t + 1)
        OBVIOUS
      <3> QED BY <1>3, <3>1
    <2>2. 2 * o \in Nat \ {0} /\ t + 1 \in Nat /\ j + 1 \in Nat
      BY <1>4
    <2> QED BY <1>2, <2>1, <2>2, MultipleIs
  <1>7. b + 1 \in Nat /\ \A i \in 0..j + 1 : Multiple(b + 1, i)
    <2>1. b + 1 \in Nat /\ j + 1 \in Nat
      BY <1>3, <1>4
    <2> QED BY <1>6, <2>1, MultipleLess
  <1>8. x = f[a + 1] - f[a + 1 - o] /\ y = f[b + 1] - f[b + 1 - o]
    <2>1. Multiple(b + 1, j)
      BY <1>4, <1>7
    <2> QED BY <1>2, <1>4, <1>5, <2>1 DEF SweptTo
  <1>9. b + 1 - o = a + 1 /\ a + 1 - o = b + 1 - 2 * o /\ a + 1 \in 0..B /\ a + 1 - o \in 0..B
        /\ b + 1 \in 0..B
    <2>1. a + 1 - o = 2 * (o * t) /\ o * t \in Nat
      <3>1. o * (2 * t + 1) = 2 * (o * t) + o /\ o * t \in Nat
        OBVIOUS
      <3> DEFINE z == o * t
      <3>2. a + 1 = 2 * z + o /\ z \in Nat /\ o \in Nat /\ a \in Int
        BY <1>2, <1>3, <3>1
      <3> HIDE DEF z
      <3>3. a + 1 - o = 2 * z
        BY <3>2
      <3> QED BY <3>2, <3>3 DEF z
    <2> QED BY <1>1, <1>3, <2>1
  <1>10. f[a + 1] \in Int /\ f[a + 1 - o] \in Int /\ f[b + 1] \in Int /\ f[0] \in Int
    <2>1. f \in [0..B -> Int] /\ 0 \in 0..B
      BY <1>1 DEF SumsOf
    <2> QED BY ONLY <1>9, <2>1
  <1>11. y + x = f[b + 1] - f[b + 1 - 2 * o]
    BY <1>8, <1>9, <1>10
  <1>12. SweptTo(f, r + 1, a, x)
    <2>1. ASSUME NEW i \in 0..j, Multiple(a + 1, i), ~ Multiple(a + 1, i + 1)
          PROVE  x = f[a + 1] - f[a + 1 - 2^i]
      <3>1. CASE i = j
        BY <1>2, <1>8, <3>1
      <3>2. CASE i # j
        <4>1. i \in 0..Exponent(r) - 1
          BY <1>4, <3>2
        <4> QED BY <2>1, <4>1 DEF SweptTo
      <3> QED BY <3>1, <3>2
    <2>2. Exponent(r + 1) - 1 = j
      BY <1>4
    <2> QED BY <1>4, <1>5, <2>1, <2>2 DEF SweptTo
  <1>13. \A i \in 0..Exponent(r + 1) - 1 : ~ (Multiple(b + 1, i) /\ ~ Multiple(b + 1, i + 1))
    BY <1>4, <1>7
  <1>14. ASSUME r # L PROVE SweptTo(f, r + 1, b, y + x)
    BY <1>2, <1>4, <1>11, <1>13, <1>14 DEF SweptTo
  <1>15. ASSUME r = L PROVE b = B - 1 /\ y + x = f[B] - f[0] /\ SweptTo(f, r + 1, b, 0)
    <2>1. t = 0 /\ 2 * o = B
      <3>1. Scan!Active(r) = 1
        BY <1>2, <1>15
      <3>2. t < 1 /\ 2 * (o * 1) = B
        BY <1>2, <3>1
      <3> QED BY <3>2
    <2>2. b = B - 1 /\ b + 1 = B /\ b + 1 - 2 * o = 0
      BY <1>1, <1>3, <2>1
    <2>3. ~ (r + 1 <= L) /\ b + 1 - 2^Exponent(r + 1) = 0
      BY <1>2, <1>4, <1>15, <2>2
    <2>4. 0 = f[0] - f[0]
      BY <1>10
    <2> QED BY <1>11, <1>13, <2>2, <2>3, <2>4 DEF SweptTo
  <1> QED BY <1>12, <1>14, <1>15

\* and on the way down.
LEMMA DownPair ==
  ASSUME Scan!SizesAssumption, NEW f \in SumsOf, NEW r \in Scan!Levels + 1..2 * Scan!Levels,
         NEW t \in Nat, t < Scan!Active(r),
         NEW a, NEW b, a = Scan!PairOf(t, r)[1], b = Scan!PairOf(t, r)[2], NEW x \in Int,
         NEW y \in Int,
         SweptTo(f, r, a, x), SweptTo(f, r, b, y)
  PROVE  SweptTo(f, r + 1, a, y) /\ SweptTo(f, r + 1, b, y + x)
  <1> DEFINE L == Scan!Levels
             B == Scan!Elems
  <1>1. L \in Nat \ {0} /\ 2^L = B /\ B \in Nat /\ r \in 1..2 * L /\ r \in L + 1..2 * L
        /\ ~ (r <= L)
    BY SweepLevels
  <1>2. PICK j \in 0..L - 1, o \in Nat \ {0} :
          /\ o = Scan!Offset(r) /\ o = 2^j /\ 2^(j + 1) = 2 * o /\ j = 2 * L - r
    BY <1>1, SweepPairs
  <1>3. /\ a + 1 = o * (2 * t + 1) /\ b + 1 = o * (2 * t + 2) /\ b = a + o
        /\ a \in 0..B - 1 /\ b \in 0..B - 1
    BY <1>1, <1>2, PairPlaces
  <1>4. Exponent(r) = j + 1 /\ Exponent(r + 1) = j /\ j \in Nat /\ ~ (r <= L) /\ ~ (r + 1 <= L)
    BY <1>1, <1>2 DEF Exponent
  <1>5. Multiple(a + 1, j) /\ ~ Multiple(a + 1, j + 1)
    <2>1. ~ Multiple(a + 1, j + 1)
      BY <1>2, <1>3, <1>4, OddMultiple
    <2> DEFINE q == 2 * t + 1
    <2>2. q \in Nat /\ a + 1 = o * q
      BY <1>3
    <2> HIDE DEF q
    <2>3. Multiple(a + 1, j)
      BY <1>2, <1>4, <2>2, MultipleIs
    <2> QED BY <2>1, <2>3
  <1>6. Multiple(b + 1, j + 1)
    <2>1. b + 1 = (2 * o) * (t + 1)
      <3>1. o * (2 * t + 2) = (2 * o) * (t + 1)
        OBVIOUS
      <3> QED BY <1>3, <3>1
    <2>2. 2 * o \in Nat \ {0} /\ t + 1 \in Nat /\ j + 1 \in Nat
      BY <1>4
    <2> QED BY <1>2, <2>1, <2>2, MultipleIs
  <1>7. \A i \in 0..j : Multiple(a + 1, i) /\ Multiple(b + 1, i)
    <2>1. a + 1 \in Nat /\ b + 1 \in Nat /\ j + 1 \in Nat /\ \A i \in 0..j : i \in 0..j + 1
      BY <1>3, <1>4
    <2> QED BY <1>4, <1>5, <1>6, <2>1, MultipleLess
  <1>8. x = f[a + 1] - f[a + 1 - o] /\ y = f[b + 1 - 2 * o] - f[0]
    <2>1. j \in 0..Exponent(r) - 1
      BY <1>4
    <2> QED BY <1>2, <1>4, <1>5, <1>6, <2>1 DEF SweptTo
  <1>9. b + 1 - o = a + 1 /\ a + 1 - o = b + 1 - 2 * o /\ a + 1 \in 0..B /\ a + 1 - o \in 0..B
    <2>1. a + 1 - o = 2 * (o * t) /\ o * t \in Nat
      <3>1. o * (2 * t + 1) = 2 * (o * t) + o /\ o * t \in Nat
        OBVIOUS
      <3> DEFINE z == o * t
      <3>2. a + 1 = 2 * z + o /\ z \in Nat /\ o \in Nat /\ a \in Int
        BY <1>2, <1>3, <3>1
      <3> HIDE DEF z
      <3>3. a + 1 - o = 2 * z
        BY <3>2
      <3> QED BY <3>2, <3>3 DEF z
    <2> QED BY <1>1, <1>3, <2>1
  <1>10. f[a + 1] \in Int /\ f[a + 1 - o] \in Int /\ f[0] \in Int
    BY <1>1, <1>9 DEF SumsOf
  <1>11. y = f[a + 1 - o] - f[0] /\ y + x = f[b + 1 - o] - f[0]
    BY <1>8, <1>9, <1>10
  <1>12. \A i \in 0..Exponent(r + 1) - 1 : Multiple(a + 1, i + 1) /\ Multiple(b + 1, i + 1)
    BY <1>4, <1>7
  <1> QED BY <1>2, <1>4, <1>11, <1>12 DEF SweptTo

\* What is of no pair is in place for the next round.
LEMMA NoPair ==
  ASSUME Scan!SizesAssumption, NEW f, NEW r \in 1..2 * Scan!Levels, NEW i \in 0..Scan!Elems - 1,
         NEW x,
         SweptTo(f, r, i, x),
         \A t \in Nat : t < Scan!Active(r) => i # Scan!PairOf(t, r)[1] /\ i # Scan!PairOf(t, r)[2]
  PROVE  SweptTo(f, r + 1, i, x)
  <1> DEFINE L == Scan!Levels
             B == Scan!Elems
             n == Scan!Active(r)
  <1>1. L \in Nat \ {0} /\ B \in Nat /\ r \in 1..2 * L /\ i \in 0..B - 1
    BY SweepLevels
  <1>2. PICK j \in 0..L - 1, o \in Nat \ {0} :
          /\ o = Scan!Offset(r) /\ o = 2^j /\ j = IF r <= L THEN r - 1 ELSE 2 * L - r
          /\ n \in Nat \ {0} /\ 2 * (o * n) = B
    BY <1>1, SweepPairs
  <1>3. ~ Multiple(i + 1, j)
    <2> SUFFICES ASSUME Multiple(i + 1, j) PROVE FALSE
      OBVIOUS
    <2>1. PICK q \in 0..i + 1 : i + 1 = q * o
      BY <1>2 DEF Multiple
    <2>2. q \in Nat /\ q # 0 /\ i + 1 \in Nat \ {0}
      <3>1. q \in Nat /\ i + 1 \in Nat \ {0}
        BY <1>1
      <3>2. q # 0
        <4> SUFFICES ASSUME q = 0 PROVE FALSE
          OBVIOUS
        <4>1. q * o = 0
          OBVIOUS
        <4> QED BY <2>1, <3>1, <4>1
      <3> QED BY <3>1, <3>2
    <2> HIDE DEF n, B
    <2>3. q <= 2 * n
      <3> SUFFICES ASSUME 2 * n + 1 <= q PROVE FALSE
        BY <1>2, <2>2
      <3>1. (2 * n + 1) * o <= q * o
        BY <1>2, <2>2
      <3>2. (2 * n + 1) * o = 2 * (o * n) + o /\ o * n \in Nat
        BY <1>2
      <3> QED BY <1>1, <1>2, <2>1, <3>1, <3>2
    <2>4. PICK t \in Nat : t < n /\ q \in {2 * t + 1, 2 * t + 2}
      <3>1. (q - 1) \div 2 \in Nat /\ q \in {2 * ((q - 1) \div 2) + 1, 2 * ((q - 1) \div 2) + 2}
        BY <2>2
      <3>2. (q - 1) \div 2 < n
        BY <1>2, <2>2, <2>3
      <3> QED BY <3>1, <3>2
    <2>5. t < Scan!Active(r)
      BY <2>4 DEF n
    <2> DEFINE p == Scan!PairOf(t, r)
    <2>6. p[1] + 1 = o * (2 * t + 1) /\ p[2] + 1 = o * (2 * t + 2) /\ p[1] \in Int /\ p[2] \in Int
      <3>1. o = Scan!Offset(r)
        BY <1>2
      <3> QED BY ONLY <2>5, <3>1, t \in Nat, r \in 1..2 * Scan!Levels, Scan!SizesAssumption,
                      PairPlaces
    <2>7. i # p[1] /\ i # p[2]
      BY <2>5
    <2> HIDE DEF p
    <2>8. q * o = o * q
      BY <2>2
    <2>9. i + 1 \in {p[1] + 1, p[2] + 1}
      BY <2>1, <2>4, <2>6, <2>8
    <2> QED BY <1>1, <2>6, <2>7, <2>9
  <1>4. CASE r <= L
    <2>1. Exponent(r) = j /\ Exponent(r + 1) = j + 1 /\ j \in Nat
      <3>1. CASE r = L
        BY <1>1, <1>2, <3>1 DEF Exponent
      <3>2. CASE r # L
        BY <1>1, <1>2, <1>4, <3>2 DEF Exponent
      <3> QED BY <3>1, <3>2
    <2>2. i + 1 \in Nat /\ ~ Multiple(i + 1, j + 1)
      <3>1. i + 1 \in Nat /\ j \in 0..j + 1 /\ j + 1 \in Nat
        BY <1>1, <2>1
      <3> QED BY <1>3, <3>1, MultipleLess
    <2>3. \A k \in 0..Exponent(r + 1) - 1 : k = j \/ k \in 0..Exponent(r) - 1
      BY <2>1
    <2> QED BY <1>3, <2>1, <2>2, <2>3 DEF SweptTo
  <1>5. CASE ~ (r <= L)
    <2>1. Exponent(r) = j + 1 /\ Exponent(r + 1) = j /\ j \in Nat /\ ~ (r + 1 <= L)
      BY <1>1, <1>2, <1>5 DEF Exponent
    <2>2. \A k \in 0..Exponent(r + 1) - 1 : k \in 0..Exponent(r) - 1
      BY <2>1
    <2> QED BY <1>3, <2>1, <2>2 DEF SweptTo
  <1> QED BY <1>4, <1>5

\* Each element of a block has a warp's thread that loads it, and each element of
\* the array a block.
LEMMA SweepPlaces ==
  ASSUME Scan!SizesAssumption, SweepTypes
  PROVE  /\ host.n \in Nat \ {0} /\ Scan!NumBlocks \in Nat \ {0} /\ Scan!NumBlocks <= Scan!Elems
         /\ host.n <= Scan!NumBlocks * Scan!Elems /\ BlocksOf \in Nat \ {0}
         /\ \A w \in ScanGrid : /\ w = << w[1], w[2] >> /\ w[1] \in 0..BlocksOf - 1 /\ w[2] \in Nat
                                /\ Scan!Lanes(w) \subseteq 0..ScanBlock - 1
         /\ \A v, w \in ScanGrid : \A t \in Scan!Lanes(v) : v[1] = w[1] /\ t \in Scan!Lanes(w) =>
              v = w
         /\ \A b \in 0..BlocksOf - 1, t \in 0..ScanBlock - 1 : \E w \in ScanGrid :
              w[1] = b /\ t \in Scan!Lanes(w)
         /\ \A i \in 0..host.n - 1 : \E b \in 0..Scan!NumBlocks - 1, t \in 0..Scan!Elems - 1 :
              i = b * Scan!Elems + t /\ b = i \div Scan!Elems
         /\ \A b, c \in Nat : \A t, u \in 0..Scan!Elems - 1 :
              b * Scan!Elems + t = c * Scan!Elems + u => b = c /\ t = u
         /\ \A b \in 0..BlocksOf - 1 : << b, 0 >> \in ScanGrid
  <1> DEFINE n == host.n
             T == ScanBlock
             B == Scan!Elems
             W == WarpSize
             k == T \div W
             m == Scan!NumBlocks
             c == BlocksOf
  <1>1. /\ n \in ScanSizes /\ n \in Nat \ {0} /\ T \in Nat \ {0} /\ B \in Nat \ {0}
        /\ W \in Nat \ {0} /\ T % W = 0
        /\ B = 2 * T
    <2>1. host.n \in ScanSizes
      BY DEF SweepTypes
    <2> QED BY <2>1, SweepLevels DEF Scan!SizesAssumption
  <1>2. m = (n + B - 1) \div B /\ m <= B
    BY <1>1 DEF Scan!NumBlocks, Scan!SizesAssumption, Scan!CeilDiv, Scan!Elems
  <1>3. /\ m \in Nat \ {0}
        /\ \A i \in 0..n - 1 : \E b \in 0..m - 1, t \in 0..B - 1 : i = b * B + t /\ b = i \div B
        /\ \A b, d \in Nat : \A t, u \in 0..B - 1 : b * B + t = d * B + u => b = d /\ t = u
    <2>1. B % B = 0
      BY <1>1
    <2>2. PlacesOf(n, B, B)
      BY <1>1, <2>1, Places
    <2> QED BY <1>2, <2>2, Zenon DEF PlacesOf
  <1>4. /\ k \in Nat \ {0}
        /\ \A e \in 0..k - 1, l \in 0..W - 1 : e * W + l \in 0..T - 1
        /\ \A t \in 0..T - 1 : \E e \in 0..k - 1, l \in 0..W - 1 : t = e * W + l
    <2>1. PlacesOf(n, T, W)
      BY <1>1, Places
    <2>2. k \in Nat \ {0}
      BY <1>1, WholeQuotient
    <2> QED BY <2>1, <2>2, Zenon DEF PlacesOf
  <1>5. n <= m * B
    <2>1. PICK q \in Nat, r \in 0..B - 1 : q = (n + B - 1) \div B /\ n + B - 1 = q * B + r
      <3> DEFINE x == n + B - 1
      <3>1. x \in Nat /\ B \in Nat \ {0}
        BY <1>1
      <3> HIDE DEF x, B
      <3>2. \E q \in Nat, r \in 0..B - 1 : q = x \div B /\ r = x % B /\ x = q * B + r
        BY <3>1, DivMod
      <3> QED BY <3>2 DEF x
    <2> DEFINE z == q * B
    <2>2. z \in Nat /\ n + B - 1 = z + r /\ m = q
      BY <1>1, <1>2, <2>1
    <2> HIDE DEF z
    <2>3. n <= z
      BY <1>1, <2>2
    <2> QED BY <2>2, <2>3 DEF z
  <1>6. c \in Nat \ {0} /\ ScanGrid = (0..c - 1) \X (0..k - 1)
    BY <1>3 DEF BlocksOf, ScanGrid, Scan!Grid
  <1>7. \A w : Scan!Lanes(w) = { w[2] * W + l : l \in 0..W - 1 }
    BY DEF Scan!Lanes
  <1>8. (\A w \in ScanGrid :
          w = << w[1], w[2] >> /\ w[1] \in 0..c - 1 /\ w[2] \in 0..k - 1 /\ w[2] \in Nat)
        /\ \A b \in 0..c - 1 : << b, 0 >> \in ScanGrid
    BY <1>4, <1>6
  <1> HIDE DEF n, T, B, W, k, m, c
  <1>9. \A w \in ScanGrid : Scan!Lanes(w) \subseteq 0..T - 1
    <2> TAKE w \in ScanGrid
    <2>1. \A l \in 0..W - 1 : w[2] * W + l \in 0..T - 1
      BY <1>4, <1>8
    <2> QED BY <1>7, <2>1, Zenon
  <1>10. ASSUME NEW v \in ScanGrid, NEW w \in ScanGrid, NEW t \in Scan!Lanes(v), v[1] = w[1],
                t \in Scan!Lanes(w)
         PROVE  v = w
    <2>1. PICK l \in 0..W - 1 : t = v[2] * W + l
      BY <1>7
    <2>2. PICK j \in 0..W - 1 : t = w[2] * W + j
      BY <1>7, <1>10
    <2> DEFINE d == v[2]
               e == w[2]
    <2>3. d \in Nat /\ e \in Nat /\ d * W + l = e * W + j
      BY <1>8, <2>1, <2>2
    <2>4. d = e
      <3> HIDE DEF d, e
      <3> QED BY <1>1, <2>3, DigitsUnique
    <2> QED BY <1>8, <1>10, <2>4
  <1>11. ASSUME NEW b \in 0..c - 1, NEW t \in 0..T - 1
         PROVE  \E w \in ScanGrid : w[1] = b /\ t \in Scan!Lanes(w)
    <2>1. PICK e \in 0..k - 1, l \in 0..W - 1 : t = e * W + l
      BY <1>4
    <2>2. << b, e >> \in ScanGrid /\ << b, e >>[1] = b /\ << b, e >>[2] = e
      BY <1>6
    <2>3. t \in Scan!Lanes(<< b, e >>)
      BY <1>7, <2>1, <2>2
    <2> QED BY <2>2, <2>3
  <1>12. \A v, w \in ScanGrid : \A t \in Scan!Lanes(v) : v[1] = w[1] /\ t \in Scan!Lanes(w) =>
           v = w
    BY <1>10
  <1>13. \A b \in 0..c - 1, t \in 0..T - 1 : \E w \in ScanGrid : w[1] = b /\ t \in Scan!Lanes(w)
    BY <1>11
  <1>14. n \in Nat \ {0} /\ m \in Nat \ {0} /\ m <= B /\ n <= m * B /\ c \in Nat \ {0}
    BY <1>1, <1>2, <1>3, <1>5, <1>6
  <1>15. \A w \in ScanGrid : /\ w = << w[1], w[2] >> /\ w[1] \in 0..c - 1 /\ w[2] \in Nat
                             /\ Scan!Lanes(w) \subseteq 0..T - 1
    BY <1>8, <1>9
  <1> QED BY <1>3, <1>8, <1>12, <1>13, <1>14, <1>15, Zenon DEF n, T, B, m, c

\* The sums are numbers, 0 at first, and grow by the inputs.
LEMMA SumFacts ==
  ASSUME NEW n \in Nat, host.n = n
  PROVE  /\ \A i \in Nat : SumBelow(i) \in Nat
         /\ SumBelow(0) = 0
         /\ \A i \in Nat : i < n => SumBelow(i + 1) = SumBelow(i) + Scan!Input(i)
         /\ \A i, j \in Nat : n <= i /\ n <= j => SumBelow(i) = SumBelow(j)
  <1>1. ASSUME NEW i \in Nat PROVE SumBelow(i) \in Nat
    <2> DEFINE e == IF i <= host.n THEN i ELSE host.n
    <2>1. e \in Nat
      OBVIOUS
    <2> HIDE DEF e
    <2>2. 2^e \in Nat \ {0}
      BY <2>1, Powers
    <2> QED BY <2>2 DEF SumBelow, e
  <1>2. SumBelow(0) = 0
    BY Powers DEF SumBelow
  <1>3. ASSUME NEW i \in Nat, i < n PROVE SumBelow(i + 1) = SumBelow(i) + Scan!Input(i)
    <2>1. SumBelow(i + 1) = 2^(i + 1) - 1 /\ SumBelow(i) = 2^i - 1
      BY <1>3 DEF SumBelow
    <2>2. 2^(i + 1) = 2 * 2^i /\ 2^i \in Nat
      BY Powers
    <2>3. Scan!Input(i) = 2^i
      BY DEF Scan!Input
    <2> QED BY <2>1, <2>2, <2>3
  <1>4. ASSUME NEW i \in Nat, NEW j \in Nat, n <= i, n <= j PROVE SumBelow(i) = SumBelow(j)
    <2>1. (IF i <= host.n THEN i ELSE host.n) = n /\ (IF j <= host.n THEN j ELSE host.n) = n
      BY <1>4
    <2> QED BY <2>1 DEF SumBelow
  <1> QED BY <1>1, <1>2, <1>3, <1>4

\* What a thread loads is what its element adds to the sums.
LEMMA LoadedSums ==
  ASSUME Scan!SizesAssumption, SweepTypes, TotalsHold, host.pass \in {1, 2},
         NEW b \in 0..BlocksOf - 1
  PROVE  /\ Sums(b) \in SumsOf
         /\ \A i \in 0..Scan!Elems - 1 :
              Scan!Source(b * Scan!Elems + i) = Sums(b)[i + 1] - Sums(b)[i]
  <1> DEFINE n == host.n
             m == Scan!NumBlocks
             B == Scan!Elems
             s(i) == SumBelow(i)
  <1>1. n \in Nat \ {0} /\ m \in Nat \ {0} /\ B \in Nat \ {0} /\ n <= m * B /\ b \in Nat
        /\ b * B \in Nat
    <2>1. n \in Nat \ {0} /\ m \in Nat \ {0} /\ B \in Nat \ {0} /\ n <= m * B /\ BlocksOf \in Nat
      BY SweepPlaces, SweepLevels
    <2> QED BY <2>1
  <1>2. /\ \A i \in Nat : s(i) \in Nat
        /\ \A i \in Nat : i < n => s(i + 1) = s(i) + Scan!Input(i)
        /\ \A i, j \in Nat : n <= i /\ n <= j => s(i) = s(j)
    BY <1>1, SumFacts
  <1>3. \A i \in 0..B : Sums(b)[i] = IF host.pass = 1 THEN s(b * B + i) ELSE s(i * B)
    BY DEF Sums
  <1>4. DOMAIN Sums(b) = 0..B /\ Sums(b) = [i \in 0..B |-> Sums(b)[i]]
    BY DEF Sums
  <1>5. \A k : Scan!Source(k) = IF k >= (IF host.pass = 1 THEN n ELSE m) THEN 0
                                ELSE IF host.pass = 1 THEN Scan!Input(k) ELSE gmem.block_sums[k]
    BY DEF Scan!Source, Scan!Size
  <1>6. host.pass = 2 =>
          b = 0 /\ \A i \in 0..m - 1 : gmem.block_sums[i] = s((i + 1) * B) - s(i * B)
    BY DEF BlocksOf, TotalsHold, TotalOf
  <1> HIDE DEF n, m, B, s
  <1>7. ASSUME NEW i \in 0..B PROVE Sums(b)[i] \in Int
    <2>1. b * B + i \in Nat /\ i * B \in Nat
      BY <1>1
    <2> QED BY <1>2, <1>3, <2>1
  <1>8. Sums(b) \in SumsOf
    BY <1>4, <1>7 DEF SumsOf, B
  <1>9. ASSUME NEW i \in 0..B - 1 PROVE Scan!Source(b * B + i) = Sums(b)[i + 1] - Sums(b)[i]
    <2>1. i \in 0..B /\ i + 1 \in 0..B /\ i \in Nat
      BY <1>1
    <2>2. CASE host.pass = 1
      <3> DEFINE k == b * B + i
      <3>1. k \in Nat /\ b * B + (i + 1) = k + 1
        BY <1>1, <2>1
      <3>2. Sums(b)[i] = s(k) /\ Sums(b)[i + 1] = s(k + 1)
        BY <1>3, <2>1, <2>2, <3>1
      <3>3. Scan!Source(k) = IF k >= n THEN 0 ELSE Scan!Input(k)
        BY <1>5, <2>2
      <3> HIDE DEF k
      <3>4. CASE k < n
        <4>1. s(k + 1) = s(k) + Scan!Input(k) /\ s(k) \in Nat /\ Scan!Input(k) \in Nat
          BY <1>2, <3>1, <3>4, Powers DEF Scan!Input
        <4> QED BY <1>1, <3>1, <3>2, <3>3, <3>4, <4>1 DEF k
      <3>5. CASE ~ (k < n)
        <4>1. s(k + 1) = s(k) /\ s(k) \in Nat /\ k >= n
          BY <1>1, <1>2, <3>1, <3>5
        <4> QED BY <3>2, <3>3, <4>1 DEF k
      <3> QED BY <3>4, <3>5
    <2>3. CASE host.pass # 1
      <3>1. host.pass = 2 /\ b = 0 /\ b * B + i = i
        <4>1. host.pass = 2 /\ b = 0
          BY <1>6, <2>3
        <4>2. 0 * B = 0
          BY <1>1
        <4> QED BY <2>1, <4>1, <4>2
      <3>2. Sums(b)[i] = s(i * B) /\ Sums(b)[i + 1] = s((i + 1) * B)
        BY <1>3, <2>1, <3>1
      <3>3. CASE i < m
        <4>1. Scan!Source(i) = gmem.block_sums[i]
          BY <1>1, <1>5, <2>1, <3>1, <3>3
        <4>2. i \in 0..m - 1
          BY <1>1, <2>1, <3>3
        <4> QED BY <1>6, <3>1, <3>2, <4>1, <4>2
      <3>4. CASE ~ (i < m)
        <4>1. Scan!Source(i) = 0
          BY <1>1, <1>5, <2>1, <3>1, <3>4
        <4>2. m * B <= i * B /\ i * B \in Nat /\ (i + 1) * B \in Nat /\ m * B \in Nat
              /\ (i + 1) * B = i * B + B
          BY <1>1, <2>1, <3>4
        <4> DEFINE x == m * B
                   y == i * B
                   z == (i + 1) * B
        <4>3. x <= y /\ x \in Nat /\ y \in Nat /\ z \in Nat /\ z = y + B /\ n <= x
          BY <1>1, <4>2
        <4>4. Sums(b)[i] = s(y) /\ Sums(b)[i + 1] = s(z)
          BY <3>2
        <4> HIDE DEF x, y, z
        <4>5. s(y) = s(z) /\ s(y) \in Nat
          BY <1>1, <1>2, <4>3
        <4> QED BY <3>1, <4>1, <4>4, <4>5
      <3> QED BY <3>3, <3>4
    <2> QED BY <2>2, <2>3
  <1> QED BY <1>8, <1>9 DEF B

\* The elements of two warps of a block are different, and of a round before the last
\* every element is one's, or is in place for the next.
LEMMA TouchApart ==
  ASSUME Scan!SizesAssumption, SweepTypes, NEW v \in ScanGrid, NEW w \in ScanGrid, v[1] = w[1],
         v # w,
         NEW r \in 0..Scan!LastRound, NEW i \in Touches(v, r)
  PROVE  i \notin Touches(w, r)
  <1> SUFFICES ASSUME i \in Touches(w, r) PROVE FALSE
    OBVIOUS
  <1>1. /\ Scan!Lanes(v) \subseteq 0..ScanBlock - 1 /\ Scan!Lanes(w) \subseteq 0..ScanBlock - 1
        /\ \A t \in Scan!Lanes(v) : t \notin Scan!Lanes(w)
    BY SweepPlaces
  <1>2. ScanBlock \in Nat \ {0} /\ Scan!Levels \in Nat \ {0}
        /\ Scan!LastRound = 2 * Scan!Levels + 1
        /\ Scan!UpRound \cup Scan!DownRound = 1..2 * Scan!Levels
    BY SweepLevels
  <1>3. CASE r = 0
    <2>1. i \in Scan!Own(v) /\ i \in Scan!Own(w)
      BY <1>3 DEF Touches
    <2> QED BY <1>1, <1>2, <2>1 DEF Scan!Own
  <1>4. CASE r \in 1..2 * Scan!Levels
    <2>1. PICK s \in Scan!Lanes(v) :
                 s < Scan!Active(r) /\ i \in {Scan!PairOf(s, r)[1], Scan!PairOf(s, r)[2]}
      BY <1>2, <1>4 DEF Touches
    <2>2. PICK t \in Scan!Lanes(w) :
                 t < Scan!Active(r) /\ i \in {Scan!PairOf(t, r)[1], Scan!PairOf(t, r)[2]}
      BY <1>2, <1>4 DEF Touches
    <2>3. s \in Nat /\ t \in Nat /\ s # t
      BY <1>1, <2>1, <2>2
    <2> DEFINE p == Scan!PairOf(s, r)
               q == Scan!PairOf(t, r)
    <2>4. p[1] # q[2] /\ q[1] # p[2] /\ p[1] # q[1] /\ p[2] # q[2]
      BY <1>4, <2>1, <2>2, <2>3, PairApart
    <2>5. i \in {p[1], p[2]} /\ i \in {q[1], q[2]}
      BY <2>1, <2>2
    <2> HIDE DEF p, q
    <2> QED BY <2>4, <2>5
  <1>5. CASE r = Scan!LastRound
    <2>1. r # 0 /\ r \notin Scan!UpRound \cup Scan!DownRound
      BY <1>2, <1>5
    <2> QED BY <2>1 DEF Touches
  <1> QED BY <1>2, <1>3, <1>4, <1>5

\* What no warp touches in a round is swept to the next as well.
LEMMA TouchAll ==
  ASSUME Scan!SizesAssumption, SweepTypes, NEW b \in 0..BlocksOf - 1,
         NEW r \in 0..2 * Scan!Levels,
         NEW i \in 0..Scan!Elems - 1, \A v \in ScanGrid : v[1] = b => i \notin Touches(v, r)
  PROVE  r > 0 /\ \A f, x : SweptTo(f, r, i, x) => SweptTo(f, r + 1, i, x)
  <1>1. ScanBlock \in Nat \ {0} /\ Scan!Levels \in Nat \ {0} /\ Scan!Elems = 2 * ScanBlock
        /\ Scan!UpRound \cup Scan!DownRound = 1..2 * Scan!Levels
    <2>1. /\ ScanBlock \in Nat \ {0} /\ Scan!Levels \in Nat \ {0}
          /\ Scan!Elems = 2 * ScanBlock /\ Scan!UpRound = 1..Scan!Levels
          /\ Scan!DownRound = Scan!Levels + 1..2 * Scan!Levels
      BY ONLY Scan!SizesAssumption, SweepLevels
    <2> QED BY ONLY <2>1
  <1>2. \A t \in 0..ScanBlock - 1 : \E w \in ScanGrid : w[1] = b /\ t \in Scan!Lanes(w)
    BY SweepPlaces
  <1>3. r # 0
    <2> SUFFICES ASSUME r = 0 PROVE FALSE
      OBVIOUS
    <2>1. i \in 0..ScanBlock - 1
          \/ (i - ScanBlock \in 0..ScanBlock - 1 /\ i = (i - ScanBlock) + ScanBlock)
      BY <1>1
    <2>2. PICK t \in 0..ScanBlock - 1 : i = t \/ i = t + ScanBlock
      BY <2>1
    <2>3. PICK w \in ScanGrid : w[1] = b /\ t \in Scan!Lanes(w)
      BY <1>2
    <2>4. i \in Touches(w, r)
      BY <2>2, <2>3 DEF Touches, Scan!Own
    <2> QED BY <2>3, <2>4
  <1>4. r \in 1..2 * Scan!Levels
    BY <1>3
  <1>5. ASSUME NEW t \in Nat, t < Scan!Active(r)
        PROVE  i # Scan!PairOf(t, r)[1] /\ i # Scan!PairOf(t, r)[2]
    <2>1. t \in 0..ScanBlock - 1
      <3>1. PICK o \in Nat \ {0} :
                   Scan!Active(r) \in Nat \ {0} /\ 2 * (o * Scan!Active(r)) = Scan!Elems
        BY <1>4, SweepPairs
      <3> DEFINE n == Scan!Active(r)
      <3>2. n \in Nat \ {0} /\ o * n = ScanBlock /\ t < n
        BY <1>1, <1>5, <3>1
      <3> HIDE DEF n
      <3>3. 1 * n <= o * n
        BY <3>2
      <3> QED BY <1>1, <3>2, <3>3
    <2>2. PICK w \in ScanGrid : w[1] = b /\ t \in Scan!Lanes(w)
      BY <1>2, <2>1
    <2>3. i \notin Touches(w, r)
      BY <2>2
    <2> DEFINE p == Scan!PairOf(t, r)
    <2>4. p[1] \in Touches(w, r) /\ p[2] \in Touches(w, r)
      BY <1>1, <1>3, <1>4, <1>5, <2>2 DEF Touches
    <2> HIDE DEF p
    <2>5. i # p[1] /\ i # p[2]
      BY <2>3, <2>4
    <2> QED BY <2>5 DEF p
  <1>6. ASSUME NEW f, NEW x, SweptTo(f, r, i, x) PROVE SweptTo(f, r + 1, i, x)
    BY <1>4, <1>5, <1>6, NoPair
  <1> QED BY <1>3, <1>6

\* A warp that passes a barrier finds the others of its block at its round or the next.
LEMMA SweepTurn ==
  ASSUME Scan!SizesAssumption, SweepTypes, SweepRounds, NEW w \in ScanGrid,
         NEW R \in SUBSET (0..Scan!LastRound), Scan!Turn(w, R), host' = host
  PROVE  /\ round[w] \in R /\ round[w] \in 0..Scan!LastRound /\ Scan!Synced(w)
         /\ round'[w] = round[w] + 1
         /\ \A v \in ScanGrid : v # w => round'[v] = round[v]
         /\ \A v \in ScanGrid : v[1] = w[1] => round[v] \in {round[w], round[w] + 1}
         /\ ScanGrid' = ScanGrid /\ SweepRounds'
  <1>1. Scan!LastRound \in Nat
    BY SweepLevels
  <1>2. round \in [ScanGrid -> 0..Scan!LastRound + 1] /\ Scan!Warps = ScanGrid
        /\ \A u, v \in ScanGrid : u[1] = v[1] => round[u] <= round[v] + 1
    BY DEF SweepRounds, Scan!Warps
  <1>3. round[w] \in R /\ round[w] \in 0..Scan!LastRound /\ round' = [round EXCEPT ![w] = @ + 1]
        /\ Scan!Synced(w) /\ \A v \in ScanGrid : v[1] = w[1] => round[v] >= round[w]
    BY <1>2 DEF Scan!Turn, Scan!Synced, Scan!Arrive
  <1> DEFINE m == Scan!LastRound
  <1> HIDE DEF m
  <1>4. round'[w] = round[w] + 1 /\ (\A v \in ScanGrid : v # w => round'[v] = round[v])
        /\ round' \in [ScanGrid -> 0..m + 1]
    BY <1>1, <1>2, <1>3 DEF m
  <1>5. ASSUME NEW v \in ScanGrid, v[1] = w[1] PROVE round[v] \in {round[w], round[w] + 1}
    BY <1>1, <1>2, <1>3, <1>5
  <1>6. ASSUME NEW u \in ScanGrid, NEW v \in ScanGrid, u[1] = v[1]
        PROVE  round'[u] <= round'[v] + 1
    <2>1. /\ round[u] \in 0..m + 1 /\ round[v] \in 0..m + 1 /\ round[u] <= round[v] + 1
          /\ (u = w => round[v] >= round[w]) /\ (v = w => round[u] \in {round[w], round[w] + 1})
      BY <1>2, <1>3, <1>5, <1>6 DEF m
    <2> QED BY <1>1, <1>4, <2>1 DEF m
  <1>7. ScanGrid' = ScanGrid /\ Scan!LastRound' = Scan!LastRound
    BY DEF ScanGrid, BlocksOf, Scan!Grid, Scan!NumBlocks, Scan!CeilDiv, Scan!Elems,
           Scan!LastRound,
           Scan!Levels, Scan!Log2
  <1>8. SweepRounds'
    BY <1>4, <1>6, <1>7 DEF SweepRounds, m
  <1> QED BY <1>3, <1>4, <1>5, <1>7, <1>8

\* What it works on is at its round.
LEMMA TouchedAt ==
  ASSUME Scan!SizesAssumption, SweepTypes, SweepRounds, Contents, NEW w \in ScanGrid,
         Scan!Synced(w), round[w] \in 1..Scan!LastRound, NEW i \in 0..Scan!Elems - 1,
         i \in Touches(w, round[w]) \/ round[w] = Scan!LastRound
  PROVE  SweptTo(Sums(w[1]), round[w], i, smem[w[1]][i])
  <1>1. round[w] \in 0..Scan!LastRound /\ round[w] > 0
    <2>1. Scan!LastRound \in Nat
      BY SweepLevels
    <2> QED BY <2>1
  <1>2. ASSUME NEW v \in ScanGrid, v[1] = w[1], round[v] = round[w] + 1,
               i \in Touches(v, round[w])
        PROVE  FALSE
    <2>1. CASE i \in Touches(w, round[w])
      <3>1. v # w
        BY <1>1, <1>2
      <3> QED BY <1>1, <1>2, <2>1, <3>1, TouchApart
    <2>2. CASE round[w] = Scan!LastRound
      <3>1. round[w] # 0 /\ round[w] \notin Scan!UpRound \cup Scan!DownRound
        BY <2>2, SweepLevels
      <3> QED BY <1>2, <3>1 DEF Touches
    <2> QED BY <2>1, <2>2
  <1>3. RoundOf(w, i) = round[w]
    BY <1>2 DEF RoundOf
  <1> QED BY <1>1, <1>3 DEF Contents

\* The names a step leaves alone.
LEMMA SameSweep ==
  ASSUME host' = host
  PROVE  /\ ScanGrid' = ScanGrid /\ BlocksOf' = BlocksOf /\ Scan!NumBlocks' = Scan!NumBlocks
         /\ Scan!Elems' = Scan!Elems /\ Scan!LastRound' = Scan!LastRound
         /\ Scan!Levels' = Scan!Levels
         /\ \A i : SumBelow(i)' = SumBelow(i) /\ Partial(i)' = Partial(i)
            /\ TotalOf(i)' = TotalOf(i)
         /\ \A b : Sums(b)' = Sums(b)
         /\ \A w, r : Touches(w, r)' = Touches(w, r)
         /\ \A w : OutOf(w)' = OutOf(w) /\ Scan!Own(w)' = Scan!Own(w)
         /\ \A f, r, i, x : SweptTo(f, r, i, x)' <=> SweptTo(f, r, i, x)
  <1>1. /\ BlocksOf' = BlocksOf /\ Scan!NumBlocks' = Scan!NumBlocks /\ ScanGrid' = ScanGrid
        /\ Scan!Elems' = Scan!Elems /\ Scan!LastRound' = Scan!LastRound
        /\ Scan!Levels' = Scan!Levels
    BY DEF ScanGrid, BlocksOf, Scan!Grid, Scan!NumBlocks, Scan!CeilDiv, Scan!Elems,
           Scan!LastRound,
           Scan!Levels, Scan!Log2
  <1>2. \A i : SumBelow(i)' = SumBelow(i) /\ Partial(i)' = Partial(i) /\ TotalOf(i)' = TotalOf(i)
    BY <1>1 DEF SumBelow, Partial, TotalOf
  <1>3. \A b : Sums(b)' = Sums(b)
    BY <1>1, <1>2 DEF Sums
  <1>4. \A w : OutOf(w)' = OutOf(w) /\ Scan!Own(w)' = Scan!Own(w)
    BY <1>1 DEF OutOf, Scan!Own, Scan!Lanes
  <1>5. \A w, r : Touches(w, r)' = Touches(w, r)
    BY <1>1, <1>4 DEF Touches, Scan!Lanes, Scan!UpRound, Scan!DownRound, Scan!PairOf,
                      Scan!Offset, Scan!Active
  <1>6. \A f, r, i, x : SweptTo(f, r, i, x)' <=> SweptTo(f, r, i, x)
    BY <1>1 DEF SweptTo, Multiple, Exponent
  <1> QED BY <1>1, <1>2, <1>3, <1>4, <1>5, <1>6

\* A warp that brings what it works on to the next round keeps the contents.
LEMMA ContentsKept ==
  ASSUME Scan!SizesAssumption, SweepTypes, SweepRounds, Contents, NEW w \in ScanGrid,
         NEW R \in SUBSET (0..Scan!LastRound), Scan!Turn(w, R), host' = host,
         \A b \in 0..BlocksOf - 1 : b # w[1] => smem'[b] = smem[b],
         \A i \in 0..Scan!Elems - 1 :
           IF i \in Touches(w, round[w]) THEN SweptTo(Sums(w[1]), round[w] + 1, i, smem'[w[1]][i])
                                         ELSE smem'[w[1]][i] = smem[w[1]][i]
  PROVE  Contents'
  <1> DEFINE r == round[w]
             b == w[1]
             f == Sums(b)
             L == Scan!Levels
  <1>1. /\ r \in 0..Scan!LastRound /\ Scan!Synced(w) /\ round'[w] = r + 1
        /\ \A v \in ScanGrid : v # w => round'[v] = round[v]
        /\ \A v \in ScanGrid : v[1] = b => round[v] \in {r, r + 1}
        /\ ScanGrid' = ScanGrid /\ SweepRounds'
    BY SweepTurn
  <1>2. /\ Scan!LastRound = 2 * L + 1 /\ L \in Nat /\ Scan!Warps = ScanGrid
        /\ Scan!Warps' = ScanGrid
        /\ \A v \in ScanGrid : round[v] \in Nat /\ round'[v] \in Nat
    <2>1. \A v \in ScanGrid : round[v] \in 0..Scan!LastRound + 1
      BY DEF SweepRounds
    <2>2. \A v \in ScanGrid : round'[v] \in (0..Scan!LastRound + 1)'
      BY <1>1 DEF SweepRounds
    <2>3. DOMAIN round = ScanGrid /\ DOMAIN round' = ScanGrid
      BY <1>1 DEF SweepRounds
    <2> QED BY <2>1, <2>2, <2>3, SweepLevels, SameSweep DEF Scan!Warps
  <1> SUFFICES ASSUME NEW u \in ScanGrid, Scan!Synced(u)', round'[u] \in 0..Scan!LastRound,
                      NEW i \in 0..Scan!Elems - 1, RoundOf(u, i)' > 0
               PROVE  SweptTo(Sums(u[1]), RoundOf(u, i)', i, smem'[u[1]][i])
    BY <1>1, SameSweep DEF Contents
  <1>3. RoundOf(u, i)' = IF \E v \in ScanGrid :
          v[1] = u[1] /\ round'[v] = round'[u] + 1 /\ i \in Touches(v, round'[u])
                         THEN round'[u] + 1 ELSE round'[u]
    BY <1>1, SameSweep DEF RoundOf
  <1>4. \A v \in ScanGrid : v[1] = u[1] => round'[v] >= round'[u]
    BY <1>2 DEF Scan!Synced
  <1>5. u[1] \in 0..BlocksOf - 1 /\ b \in 0..BlocksOf - 1
    BY SweepPlaces
  <1> HIDE DEF r, b, f, L
  <1>6. CASE u[1] # b
    <2>1. \A v \in ScanGrid : v[1] = u[1] => v # w /\ round'[v] = round[v]
      BY <1>1, <1>6 DEF b
    <2>2. Scan!Synced(u) /\ round'[u] = round[u]
      BY <1>2, <1>4, <2>1 DEF Scan!Synced
    <2>3. RoundOf(u, i)' = RoundOf(u, i)
      BY <1>3, <2>1, <2>2 DEF RoundOf
    <2>4. smem'[u[1]] = smem[u[1]]
      BY <1>5, <1>6 DEF b
    <2> QED BY <2>2, <2>3, <2>4 DEF Contents
  <1>7. CASE u[1] = b
    <2>1. u = w \/ round'[u] \in {r, r + 1}
      BY <1>1, <1>7
    <2>2. round'[u] \in {r, r + 1}
      BY <1>1, <2>1
    <2>3. CASE i \in Touches(w, r)
      <3>1. RoundOf(u, i)' = r + 1
        <4>1. CASE round'[u] = r
          BY <1>1, <1>3, <1>7, <2>3, <4>1 DEF b
        <4>2. CASE round'[u] = r + 1
          <5>1. \A v \in ScanGrid : v[1] = b => round'[v] # r + 2
            BY <1>1, <1>2
          <5> QED BY <1>1, <1>3, <1>7, <4>2, <5>1
        <4> QED BY <2>2, <4>1, <4>2
      <3>2. SweptTo(f, r + 1, i, smem'[b][i])
        BY <2>3 DEF r, f, b
      <3> QED BY <1>7, <3>1, <3>2 DEF f
    <2>4. CASE i \notin Touches(w, r)
      <3>1. smem'[b][i] = smem[b][i]
        BY <2>4 DEF r, b
      <3>2. CASE round'[u] = r
        <4>1. u # w /\ round[u] = r
          BY <1>1, <1>2, <3>2
        <4>2. Scan!Synced(u)
          <5>1. \A v \in ScanGrid : v[1] = u[1] => round[v] >= r
            BY <1>1, <1>2, <1>7
          <5> QED BY <1>2, <4>1, <5>1 DEF Scan!Synced
        <4>3. RoundOf(u, i)' = RoundOf(u, i)
          <5>1. \A v \in ScanGrid : v[1] = u[1] /\ i \in Touches(v, r) => round'[v] = round[v]
            BY <1>1, <2>4
          <5> QED BY <1>3, <3>2, <4>1, <5>1 DEF RoundOf
        <4>4. round[u] \in 0..Scan!LastRound
          BY <1>1, <4>1
        <4> QED BY <1>7, <3>1, <4>2, <4>3, <4>4 DEF Contents
      <3>3. CASE round'[u] = r + 1
        <4>1. RoundOf(u, i)' = r + 1
          <5>1. \A v \in ScanGrid : v[1] = b => round'[v] # r + 2
            BY <1>1, <1>2
          <5> QED BY <1>1, <1>3, <1>7, <3>3, <5>1
        <4>2. \A v \in ScanGrid : v[1] = b /\ v # w => round[v] = r + 1
          BY <1>1, <1>2, <1>4, <1>7, <3>3
        <4>3. RoundOf(w, i) > 0 => SweptTo(f, RoundOf(w, i), i, smem[b][i])
          BY <1>1 DEF Contents, r, f, b
        <4>4. CASE \E v \in ScanGrid : v[1] = b /\ i \in Touches(v, r)
          <5>1. PICK v \in ScanGrid : v[1] = b /\ i \in Touches(v, r)
            BY <4>4
          <5>2. v # w /\ round[v] = r + 1
            BY <2>4, <4>2, <5>1
          <5>3. RoundOf(w, i) = r + 1
            BY <5>1, <5>2 DEF RoundOf, r, b
          <5>4. SweptTo(f, r + 1, i, smem[b][i])
            BY <1>1, <4>3, <5>3
          <5> QED BY <1>7, <3>1, <4>1, <5>4 DEF f
        <4>5. CASE ~ \E v \in ScanGrid : v[1] = b /\ i \in Touches(v, r)
          <5>1. r \in 0..2 * L
            BY <1>1, <1>2, <3>3
          <5>2. r > 0 /\ \A x : SweptTo(f, r, i, x) => SweptTo(f, r + 1, i, x)
            BY <1>5, <4>5, <5>1, TouchAll DEF L
          <5>3. RoundOf(w, i) = r
            BY <4>5 DEF RoundOf, r, b
          <5>4. SweptTo(f, r + 1, i, smem[b][i])
            BY <4>3, <5>2, <5>3
          <5> QED BY <1>7, <3>1, <4>1, <5>4 DEF f
        <4> QED BY <4>4, <4>5
      <3> QED BY <2>2, <3>2, <3>3
    <2> QED BY <2>3, <2>4
  <1> QED BY <1>6, <1>7

\* Before the last round a step leaves alone what the kernel stores,
LEMMA StoredKept ==
  ASSUME Scan!SizesAssumption, SweepTypes, SweepRounds, PartialsHold, PrefixesHold,
         NEW w \in ScanGrid,
         NEW R \in SUBSET (0..Scan!LastRound), Scan!Turn(w, R), host' = host,
         round[w] # Scan!LastRound, gmem'.out = gmem.out, gmem'.block_prefixes
           = gmem.block_prefixes
  PROVE  PartialsHold' /\ PrefixesHold' /\ ResultHolds'
  <1>1. /\ round[w] \in 0..Scan!LastRound /\ round'[w] = round[w] + 1 /\ ScanGrid' = ScanGrid
        /\ \A v \in ScanGrid : v # w => round'[v] = round[v]
    BY SweepTurn
  <1>2. Scan!LastRound \in Nat
    BY SweepLevels
  <1>3. ASSUME NEW v \in ScanGrid, round'[v] = Scan!LastRound + 1
        PROVE round[v] = Scan!LastRound + 1
    BY <1>1, <1>2, <1>3
  <1>4. host.pass \in {1, 2}
    BY DEF Scan!Turn
  <1>5. PartialsHold'
    BY <1>1, <1>3, <1>4, SameSweep DEF PartialsHold
  <1>6. PrefixesHold'
    BY <1>1, <1>3, <1>4, SameSweep DEF PrefixesHold
  <1>7. ResultHolds'
    BY <1>4 DEF ResultHolds
  <1> QED BY <1>5, <1>6, <1>7

\* and but for the top of the up-sweep the totals.
LEMMA TotalsKept ==
  ASSUME Scan!SizesAssumption, SweepTypes, SweepRounds, TotalsHold, NEW w \in ScanGrid,
         NEW R \in SUBSET (0..Scan!LastRound), Scan!Turn(w, R), host' = host,
         ~ (round[w] = Scan!Levels /\ w[2] = 0), gmem'.block_sums = gmem.block_sums
  PROVE  TotalsHold'
  <1>1. /\ round[w] \in 0..Scan!LastRound /\ round'[w] = round[w] + 1
        /\ \A v \in ScanGrid : v # w => round'[v] = round[v]
    BY SweepTurn
  <1>2. Scan!LastRound \in Nat /\ Scan!Levels \in Nat
    BY SweepLevels
  <1>3. host.pass \in {1, 2}
    BY DEF Scan!Turn
  <1>4. ASSUME NEW b \in 0..Scan!NumBlocks - 1, host.pass > 1 \/ round'[<< b, 0 >>] > Scan!Levels
        PROVE  host.pass > 1 \/ round[<< b, 0 >>] > Scan!Levels
    <2> SUFFICES ASSUME host.pass = 1, round'[<< b, 0 >>] > Scan!Levels
                 PROVE round[<< b, 0 >>] > Scan!Levels
      BY <1>3, <1>4
    <2>1. << b, 0 >> \in ScanGrid
      <3>1. b \in 0..BlocksOf - 1
        BY DEF BlocksOf
      <3> QED BY <3>1, SweepPlaces
    <2>2. CASE << b, 0 >> = w
      <3>1. w[2] = 0
        BY <2>2
      <3> QED BY <1>1, <1>2, <2>2, <3>1
    <2>3. CASE << b, 0 >> # w
      BY <1>1, <2>1, <2>3
    <2> QED BY <2>2, <2>3
  <1> QED BY <1>4, SameSweep DEF TotalsHold

\* A step on a block's shared memory.
LEMMA SharedIs ==
  ASSUME Scan!SizesAssumption, SweepTypes, NEW w \in ScanGrid, host' = host,
         NEW m, smem' = [smem EXCEPT ![w[1]] = m], m \in [0..Scan!Elems - 1 -> Int]
  PROVE  /\ smem' \in [0..BlocksOf - 1 -> [0..Scan!Elems - 1 -> Int]]
         /\ smem'[w[1]] = m /\ \A b \in 0..BlocksOf - 1 : b # w[1] => smem'[b] = smem[b]
         /\ gmem' = gmem => SweepTypes'
  <1>1. w[1] \in 0..BlocksOf - 1
    BY SweepPlaces
  <1>2. smem \in [0..BlocksOf - 1 -> [0..Scan!Elems - 1 -> Int]]
    BY DEF SweepTypes
  <1>3. /\ smem' \in [0..BlocksOf - 1 -> [0..Scan!Elems - 1 -> Int]]
        /\ smem'[w[1]] = m /\ \A b \in 0..BlocksOf - 1 : b # w[1] => smem'[b] = smem[b]
    BY <1>1, <1>2
  <1>4. ASSUME gmem' = gmem PROVE SweepTypes'
    BY <1>3, <1>4, SameSweep DEF SweepTypes
  <1> QED BY <1>3, <1>4

\* The threads load their elements.
LEMMA LoadStep ==
  ASSUME Scan!SizesAssumption, SweepInv, NEW w \in Scan!Warps, Scan!Load(w)
  PROVE  SweepInv'
  <1> DEFINE b == w[1]
             B == Scan!Elems
             f == Sums(b)
             m == Scan!Loaded(w)
  <1>1. /\ host.pass \in {1, 2} /\ host' = host /\ gmem' = gmem /\ Scan!Turn(w, {0})
        /\ smem' = [smem EXCEPT ![b] = m] /\ round[w] = 0
    BY DEF Scan!Load, Scan!Turn
  <1>2. SweepTypes /\ SweepRounds /\ Contents /\ TotalsHold /\ PartialsHold /\ PrefixesHold
        /\ w \in ScanGrid
    BY <1>1 DEF SweepInv, SweepRounds, Scan!Warps
  <1>3. /\ b \in 0..BlocksOf - 1 /\ Scan!Lanes(w) \subseteq 0..ScanBlock - 1 /\ B \in Nat \ {0}
        /\ ScanBlock \in Nat \ {0} /\ B = 2 * ScanBlock /\ Scan!Levels \in Nat \ {0}
        /\ Scan!LastRound = 2 * Scan!Levels + 1 /\ {0} \in SUBSET (0..Scan!LastRound)
    BY <1>2, SweepPlaces, SweepLevels
  <1>4. f \in SumsOf /\ \A i \in 0..B - 1 : Scan!Source(b * B + i) = f[i + 1] - f[i]
    BY <1>1, <1>2, <1>3, LoadedSums
  <1>5. smem[b] \in [0..B - 1 -> Int]
    BY <1>2, <1>3 DEF SweepTypes
  <1>6. m = [i \in 0..B - 1 |-> IF i \in Scan!Own(w) THEN Scan!Source(b * B + i) ELSE smem[b][i]]
    BY <1>5 DEF Scan!Loaded
  <1>7. \A i \in 0..B - 1 : f[i] \in Int /\ f[i + 1] \in Int
    BY <1>3, <1>4 DEF SumsOf
  <1> HIDE DEF m, f, b, B
  <1>8. m \in [0..B - 1 -> Int]
    <2> DEFINE v(i) == IF i \in Scan!Own(w) THEN Scan!Source(b * B + i) ELSE smem[b][i]
    <2>1. ASSUME NEW i \in 0..B - 1 PROVE v(i) \in Int
      <3>1. Scan!Source(b * B + i) = f[i + 1] - f[i] /\ f[i] \in Int /\ f[i + 1] \in Int
        BY <1>4, <1>7
      <3>2. smem[b][i] \in Int
        BY <1>5
      <3>3. Scan!Source(b * B + i) \in Int
        BY <3>1
      <3> QED BY <3>2, <3>3
    <2>2. m = [i \in 0..B - 1 |-> v(i)]
      BY <1>6
    <2> HIDE DEF v
    <2> QED BY <2>1, <2>2
  <1>9. smem'[b] = m /\ (\A c \in 0..BlocksOf - 1 : c # b => smem'[c] = smem[c]) /\ SweepTypes'
    BY <1>1, <1>2, <1>8, SharedIs DEF b, B
  <1>10. ASSUME NEW i \in 0..B - 1
         PROVE  IF i \in Touches(w, 0) THEN SweptTo(f, 1, i, smem'[b][i])
                  ELSE smem'[b][i] = smem[b][i]
    <2>1. Touches(w, 0) = Scan!Own(w)
      BY DEF Touches
    <2>2. CASE i \in Scan!Own(w)
      <3>1. smem'[b][i] = f[i + 1] - f[i + 1 - 1]
        BY <1>3, <1>4, <1>6, <1>9, <2>2
      <3>2. Exponent(1) = 0 /\ 1 <= Scan!Levels /\ 2^0 = 1
        BY <1>3, Powers DEF Exponent
      <3>3. smem'[b][i] = f[i + 1] - f[i + 1 - 2^Exponent(1)]
        BY <3>1, <3>2
      <3>4. 0..Exponent(1) - 1 = {}
        BY <3>2
      <3> QED BY <2>1, <2>2, <3>2, <3>3, <3>4 DEF SweptTo
    <2>3. CASE i \notin Scan!Own(w)
      BY <1>6, <1>9, <2>1, <2>3
    <2> QED BY <2>2, <2>3
  <1>11. SweepRounds'
    BY <1>1, <1>2, <1>3, SweepTurn
  <1>12. Contents'
    <2>1. \A i \in 0..Scan!Elems - 1 :
            IF i \in Touches(w, round[w])
              THEN SweptTo(Sums(w[1]), round[w] + 1, i, smem'[w[1]][i])
                                          ELSE smem'[w[1]][i] = smem[w[1]][i]
      BY <1>1, <1>10 DEF f, b, B
    <2>2. \A c \in 0..BlocksOf - 1 : c # w[1] => smem'[c] = smem[c]
      BY <1>9 DEF b
    <2> QED BY <1>1, <1>2, <1>3, <2>1, <2>2, ContentsKept
  <1>13. PartialsHold' /\ PrefixesHold' /\ ResultHolds'
    <2>1. round[w] # Scan!LastRound
      BY <1>1, <1>3
    <2> QED BY <1>1, <1>2, <1>3, <2>1, StoredKept
  <1>14. TotalsHold'
    <2>1. round[w] # Scan!Levels
      BY <1>1, <1>3
    <2> QED BY <1>1, <1>2, <1>3, <2>1, TotalsKept
  <1> QED BY <1>9, <1>11, <1>12, <1>13, <1>14 DEF SweepInv

\* The pairs a warp combines in a round are made of what it touches; the top of the
\* up-sweep has one, of the block's first warp.
LEMMA PairsAre ==
  ASSUME Scan!SizesAssumption, SweepTypes, NEW w \in ScanGrid, NEW r \in 1..2 * Scan!Levels,
         round[w] = r
  PROVE  /\ \A p \in Scan!Pairs(w) : \E t \in Nat : t < Scan!Active(r) /\ p = Scan!PairOf(t, r)
         /\ \A p \in Scan!Pairs(w) : /\ p[1] \in 0..Scan!Elems - 1 /\ p[2] \in 0..Scan!Elems - 1
                                     /\ p[1] \in Touches(w, r) /\ p[2] \in Touches(w, r)
         /\ \A p, q \in Scan!Pairs(w) : p[1] # q[2] /\ (p[1] = q[1] \/ p[2] = q[2] => p = q)
         /\ \A i \in Touches(w, r) : \E p \in Scan!Pairs(w) : i = p[1] \/ i = p[2]
         /\ r = Scan!Levels => (Scan!Pairs(w) # {} <=> w[2] = 0)
  <1>1. /\ Scan!UpRound \cup Scan!DownRound = 1..2 * Scan!Levels /\ Scan!Levels \in Nat \ {0}
        /\ r # 0
        /\ WarpSize \in Nat \ {0}
    BY SweepLevels
  <1>2. Scan!Lanes(w) \subseteq 0..ScanBlock - 1 /\ w[2] \in Nat
    BY SweepPlaces
  <1>3. Scan!Pairs(w) = { Scan!PairOf(t, r) : t \in { t \in Scan!Lanes(w) : t < Scan!Active(r) } }
    BY DEF Scan!Pairs
  <1>4. Touches(w, r) = UNION { { Scan!PairOf(t, r)[1], Scan!PairOf(t, r)[2] } :
                                  t \in { t \in Scan!Lanes(w) : t < Scan!Active(r) } }
    BY <1>1 DEF Touches
  <1>5. ASSUME NEW p \in Scan!Pairs(w)
        PROVE  \E t \in Scan!Lanes(w) : t \in Nat /\ t < Scan!Active(r) /\ p = Scan!PairOf(t, r)
    BY <1>2, <1>3
  <1>6. ASSUME NEW p \in Scan!Pairs(w)
        PROVE  /\ p[1] \in 0..Scan!Elems - 1 /\ p[2] \in 0..Scan!Elems - 1
               /\ p[1] \in Touches(w, r) /\ p[2] \in Touches(w, r)
    <2>1. PICK t \in Scan!Lanes(w) : t \in Nat /\ t < Scan!Active(r) /\ p = Scan!PairOf(t, r)
      BY <1>5
    <2>2. p[1] \in 0..Scan!Elems - 1 /\ p[2] \in 0..Scan!Elems - 1
      BY <2>1, PairPlaces
    <2>3. p[1] \in Touches(w, r) /\ p[2] \in Touches(w, r)
      BY <1>4, <2>1
    <2> QED BY <2>2, <2>3
  <1>7. ASSUME NEW p \in Scan!Pairs(w), NEW q \in Scan!Pairs(w)
        PROVE  p[1] # q[2] /\ (p[1] = q[1] \/ p[2] = q[2] => p = q)
    <2>1. PICK s \in Scan!Lanes(w) : s \in Nat /\ s < Scan!Active(r) /\ p = Scan!PairOf(s, r)
      BY <1>5
    <2>2. PICK t \in Scan!Lanes(w) : t \in Nat /\ t < Scan!Active(r) /\ q = Scan!PairOf(t, r)
      BY <1>5
    <2>3. p[1] # q[2] /\ (p[1] = q[1] \/ p[2] = q[2] => s = t)
      BY <2>1, <2>2, PairApart
    <2> QED BY <2>1, <2>2, <2>3
  <1>8. ASSUME NEW i \in Touches(w, r) PROVE \E p \in Scan!Pairs(w) : i = p[1] \/ i = p[2]
    <2>1. PICK t \in Scan!Lanes(w) :
                 t < Scan!Active(r) /\ i \in {Scan!PairOf(t, r)[1], Scan!PairOf(t, r)[2]}
      BY <1>4
    <2>2. Scan!PairOf(t, r) \in Scan!Pairs(w)
      BY <1>3, <2>1
    <2> QED BY <2>1, <2>2
  <1>9. ASSUME r = Scan!Levels PROVE Scan!Pairs(w) # {} <=> w[2] = 0
    <2>1. Scan!Active(r) = 1
      BY <1>9, SweepPairs
    <2>2. Scan!Pairs(w) # {} <=> 0 \in Scan!Lanes(w)
      <3>1. \A t \in Scan!Lanes(w) : t \in Nat /\ (t < Scan!Active(r) <=> t = 0)
        BY <1>2, <2>1
      <3> QED BY <1>3, <3>1
    <2>3. 0 \in Scan!Lanes(w) <=> w[2] = 0
      <3> DEFINE e == w[2]
      <3>1. Scan!Lanes(w) = { e * WarpSize + l : l \in 0..WarpSize - 1 } /\ e \in Nat
        BY <1>2 DEF Scan!Lanes
      <3> HIDE DEF e
      <3>2. ASSUME 0 \in Scan!Lanes(w) PROVE e = 0
        <4>1. PICK l \in 0..WarpSize - 1 : 0 = e * WarpSize + l
          BY <3>1, <3>2
        <4>2. 0 * WarpSize + 0 = e * WarpSize + l /\ 0 \in 0..WarpSize - 1
          BY <1>1, <4>1
        <4> QED BY <1>1, <3>1, <4>2, DigitsUnique
      <3>3. ASSUME e = 0 PROVE 0 \in Scan!Lanes(w)
        <4>1. 0 = e * WarpSize + 0 /\ 0 \in 0..WarpSize - 1
          BY <1>1, <3>3
        <4> QED BY <3>1, <4>1
      <3> QED BY <3>2, <3>3 DEF e
    <2> QED BY <2>2, <2>3
  <1>10. \A p \in Scan!Pairs(w) : \E t \in Nat : t < Scan!Active(r) /\ p = Scan!PairOf(t, r)
    BY <1>5
  <1> QED BY <1>6, <1>7, <1>8, <1>9, <1>10

\* What the sweeps make of a pair, and of the rest.
LEMMA SweptIs ==
  ASSUME NEW D, NEW m, DOMAIN m = D, NEW P, \A p \in P : p[1] \in D /\ p[2] \in D,
         \A p, q \in P : p[1] # q[2] /\ (p[1] = q[1] \/ p[2] = q[2] => p = q)
  PROVE  /\ DOMAIN Scan!Swept(m, P) = D
         /\ \A p \in P :
              Scan!Swept(m, P)[p[1]] = m[p[1]] /\ Scan!Swept(m, P)[p[2]] = m[p[2]] + m[p[1]]
         /\ \A i \in D : (\A p \in P : p[1] # i /\ p[2] # i) => Scan!Swept(m, P)[i] = m[i]
  <1> DEFINE v(i) == IF \E p \in P :
        p[2] = i THEN m[i] + m[(CHOOSE p \in P : p[2] = i)[1]] ELSE m[i]
  <1>1. Scan!Swept(m, P) = [i \in D |-> v(i)]
    BY DEF Scan!Swept
  <1>2. ASSUME NEW p \in P PROVE v(p[1]) = m[p[1]] /\ v(p[2]) = m[p[2]] + m[p[1]]
    <2>1. \A q \in P : q[2] # p[1]
      OBVIOUS
    <2>2. (CHOOSE q \in P : q[2] = p[2]) = p
      <3> DEFINE c == CHOOSE q \in P : q[2] = p[2]
      <3>1. c \in P /\ c[2] = p[2]
        OBVIOUS
      <3> HIDE DEF c
      <3>2. c = p
        BY <3>1
      <3> QED BY <3>2 DEF c
    <2>3. v(p[1]) = m[p[1]]
      BY <2>1
    <2>4. v(p[2]) = m[p[2]] + m[p[1]]
      BY <2>2
    <2> QED BY <2>3, <2>4
  <1>3. ASSUME NEW i \in D, \A p \in P : p[1] # i /\ p[2] # i PROVE v(i) = m[i]
    BY <1>3
  <1> HIDE DEF v
  <1> QED BY <1>1, <1>2, <1>3

\* The threads combine pairs on the way up; at the top thread 0 saves the block's
\* total and clears it.
LEMMA UpStep ==
  ASSUME Scan!SizesAssumption, SweepInv, NEW w \in Scan!Warps, Scan!UpSweep(w)
  PROVE  SweepInv'
  <1> DEFINE b == w[1]
             r == round[w]
             L == Scan!Levels
             B == Scan!Elems
             f == Sums(b)
             m == smem[b]
             P == Scan!Pairs(w)
             s == Scan!Swept(m, P)
             top == r = L /\ w[2] = 0
             n == IF top THEN [s EXCEPT ![B - 1] = 0] ELSE s
  <1>1. /\ host.pass \in {1, 2} /\ host' = host /\ Scan!Turn(w, Scan!UpRound)
        /\ smem' = [smem EXCEPT ![b] = n]
        /\ gmem' = IF top /\ host.pass = 1 THEN [gmem EXCEPT !.block_sums[b] = s[B - 1]] ELSE gmem
    BY DEF Scan!UpSweep, Scan!Turn, Scan!Cleared, Scan!Total
  <1>2. SweepTypes /\ SweepRounds /\ Contents /\ TotalsHold /\ PartialsHold /\ PrefixesHold
        /\ w \in ScanGrid
    BY <1>1 DEF SweepInv, SweepRounds, Scan!Warps
  <1>3. /\ b \in 0..BlocksOf - 1 /\ B \in Nat \ {0} /\ L \in Nat \ {0} /\ Scan!UpRound = 1..L
        /\ Scan!LastRound = 2 * L + 1 /\ Scan!UpRound \in SUBSET (0..Scan!LastRound)
        /\ Scan!NumBlocks \in Nat \ {0}
    <2>1. b \in 0..BlocksOf - 1 /\ Scan!NumBlocks \in Nat \ {0}
      BY <1>2, SweepPlaces
    <2>2. B \in Nat \ {0} /\ L \in Nat \ {0} /\ Scan!UpRound = 1..L /\ Scan!LastRound = 2 * L + 1
      BY SweepLevels
    <2> HIDE DEF L
    <2>3. Scan!UpRound \in SUBSET (0..Scan!LastRound)
      BY <2>2
    <2> QED BY <2>1, <2>2, <2>3
  <1>4. r \in 1..L /\ Scan!Synced(w) /\ r \in 1..2 * L /\ r \in 1..Scan!LastRound
    <2>1. r \in Scan!UpRound /\ Scan!Synced(w)
      BY <1>1 DEF Scan!Turn
    <2> QED BY <1>3, <2>1
  <1>5. f \in SumsOf /\ m \in [0..B - 1 -> Int]
    BY <1>1, <1>2, <1>3, LoadedSums DEF SweepTypes
  <1>6. /\ \A p \in P : \E t \in Nat : t < Scan!Active(r) /\ p = Scan!PairOf(t, r)
        /\ \A p \in P : /\ p[1] \in 0..B - 1 /\ p[2] \in 0..B - 1
                        /\ p[1] \in Touches(w, r) /\ p[2] \in Touches(w, r)
        /\ \A p, q \in P : p[1] # q[2] /\ (p[1] = q[1] \/ p[2] = q[2] => p = q)
        /\ \A i \in Touches(w, r) : \E p \in P : i = p[1] \/ i = p[2]
        /\ r = L => (P # {} <=> w[2] = 0)
    BY <1>2, <1>4, PairsAre
  <1>7. /\ DOMAIN s = 0..B - 1
        /\ \A p \in P : s[p[1]] = m[p[1]] /\ s[p[2]] = m[p[2]] + m[p[1]]
        /\ \A i \in 0..B - 1 : (\A p \in P : p[1] # i /\ p[2] # i) => s[i] = m[i]
    <2> HIDE DEF P, m, B
    <2> DEFINE D == 0..B - 1
    <2>1. DOMAIN m = D /\ \A p \in P : p[1] \in D /\ p[2] \in D
      BY <1>5, <1>6
    <2>2. \A p, q \in P : p[1] # q[2] /\ (p[1] = q[1] \/ p[2] = q[2] => p = q)
      BY <1>6
    <2> HIDE DEF D
    <2>3. /\ DOMAIN Scan!Swept(m, P) = D
          /\ \A p \in P :
               Scan!Swept(m, P)[p[1]] = m[p[1]] /\ Scan!Swept(m, P)[p[2]] = m[p[2]] + m[p[1]]
          /\ \A i \in D : (\A p \in P : p[1] # i /\ p[2] # i) => Scan!Swept(m, P)[i] = m[i]
      BY ONLY <2>1, <2>2, SweptIs
    <2> QED BY <2>3 DEF D
  <1>8. \A i \in Touches(w, r) : i \in 0..B - 1
    BY <1>6
  <1>9. \A i \in Touches(w, r) : SweptTo(f, r, i, m[i])
    BY <1>2, <1>4, <1>8, TouchedAt DEF r, f, m, b, B
  <1>10. ASSUME NEW p \in P
         PROVE  /\ SweptTo(f, r + 1, p[1], s[p[1]])
                /\ r # L => SweptTo(f, r + 1, p[2], s[p[2]])
                /\ r = L => p[2] = B - 1 /\ s[p[2]] = f[B] - f[0] /\ SweptTo(f, r + 1, p[2], 0)
    <2>1. PICK t \in Nat : t < Scan!Active(r) /\ p = Scan!PairOf(t, r)
      BY <1>6
    <2> DEFINE x == m[p[1]]
               y == m[p[2]]
    <2>2. x \in Int /\ y \in Int /\ SweptTo(f, r, p[1], x) /\ SweptTo(f, r, p[2], y)
      BY <1>5, <1>6, <1>9
    <2>3. s[p[1]] = x /\ s[p[2]] = y + x
      BY <1>7
    <2> HIDE DEF x, y, f, s, r, L, B, P
    <2>4. /\ SweptTo(f, r + 1, p[1], x)
          /\ r # L => SweptTo(f, r + 1, p[2], y + x)
          /\ r = L => p[2] = B - 1 /\ y + x = f[B] - f[0] /\ SweptTo(f, r + 1, p[2], 0)
      BY <1>4, <1>5, <2>1, <2>2, UpPair DEF L, B
    <2> QED BY <2>3, <2>4
  <1> HIDE DEF s, f, m, P
  <1>11. s \in [0..B - 1 -> Int]
    <2>1. ASSUME NEW i \in 0..B - 1 PROVE s[i] \in Int
      <3>1. CASE \E p \in P : p[1] = i \/ p[2] = i
        <4>1. PICK p \in P : p[1] = i \/ p[2] = i
          BY <3>1
        <4>2. m[p[1]] \in Int /\ m[p[2]] \in Int
          BY <1>5, <1>6
        <4> QED BY <1>7, <4>1, <4>2
      <3>2. CASE ~ \E p \in P : p[1] = i \/ p[2] = i
        BY <1>5, <1>7, <3>2
      <3> QED BY <3>1, <3>2
    <2>2. s = [i \in 0..B - 1 |-> s[i]]
      <3>1. s = [i \in DOMAIN s |-> s[i]]
        BY DEF s, Scan!Swept
      <3> HIDE DEF s
      <3> QED BY <1>7, <3>1
    <2> HIDE DEF B
    <2> QED BY <2>1, <2>2
  <1> HIDE DEF r, b, B, L
  <1>12. n \in [0..B - 1 -> Int] /\ (top => n[B - 1] = 0) /\ \A i \in 0..B - 1 :
           ~ top \/ i # B - 1 => n[i] = s[i]
    <2>1. CASE top
      BY <1>3, <1>11, <2>1
    <2>2. CASE ~ top
      BY <1>11, <2>2
    <2> QED BY <2>1, <2>2
  <1> HIDE DEF n
  <1>13. /\ smem' \in [0..BlocksOf - 1 -> [0..B - 1 -> Int]]
         /\ smem'[b] = n /\ \A c \in 0..BlocksOf - 1 : c # b => smem'[c] = smem[c]
         /\ gmem' = gmem => SweepTypes'
    BY <1>1, <1>2, <1>12, SharedIs DEF b, B
  <1>14. ASSUME NEW i \in 0..B - 1
         PROVE  IF i \in Touches(w, r) THEN SweptTo(f, r + 1, i, n[i]) ELSE n[i] = m[i]
    <2>1. CASE i \in Touches(w, r)
      <3>1. PICK p \in P : i = p[1] \/ i = p[2]
        BY <1>6, <2>1
      <3>2. r = L => top
        BY <1>6, <3>1
      <3>3. CASE i = p[1]
        <4>1. r = L => i # B - 1
          BY <1>6, <1>10, <3>3
        <4>2. n[i] = s[i]
          BY <1>12, <4>1
        <4> QED BY <1>10, <2>1, <3>3, <4>2
      <3>4. CASE i = p[2] /\ r = L
        BY <1>10, <1>12, <2>1, <3>1, <3>2, <3>4
      <3>5. CASE i = p[2] /\ r # L
        <4>1. n[i] = s[i]
          BY <1>12, <3>5
        <4> QED BY <1>10, <2>1, <3>5, <4>1
      <3> QED BY <3>1, <3>3, <3>4, <3>5
    <2>2. CASE i \notin Touches(w, r)
      <3>1. \A p \in P : p[1] # i /\ p[2] # i
        BY <1>6, <2>2
      <3>2. top => i # B - 1
        <4> SUFFICES ASSUME top PROVE i # B - 1
          OBVIOUS
        <4>1. PICK p \in P : TRUE
          BY <1>6
        <4> QED BY <1>10, <3>1, <4>1
      <3> QED BY <1>7, <1>12, <2>2, <3>1, <3>2
    <2> QED BY <2>1, <2>2
  <1>15. SweepRounds'
    BY <1>1, <1>2, <1>3, SweepTurn
  <1>16. Contents'
    <2>1. \A i \in 0..Scan!Elems - 1 :
            IF i \in Touches(w, round[w])
              THEN SweptTo(Sums(w[1]), round[w] + 1, i, smem'[w[1]][i])
                                          ELSE smem'[w[1]][i] = smem[w[1]][i]
      BY <1>13, <1>14 DEF f, b, B, r, m
    <2>2. \A c \in 0..BlocksOf - 1 : c # w[1] => smem'[c] = smem[c]
      BY <1>13 DEF b
    <2> QED BY <1>1, <1>2, <1>3, <2>1, <2>2, ContentsKept
  <1>17. gmem'.out = gmem.out /\ gmem'.block_prefixes = gmem.block_prefixes
    BY <1>1, <1>2 DEF SweepTypes
  <1>18. PartialsHold' /\ PrefixesHold' /\ ResultHolds'
    <2>1. round[w] # Scan!LastRound
      BY <1>3, <1>4 DEF r
    <2> QED BY <1>1, <1>2, <1>3, <1>17, <2>1, StoredKept
  <1>19. SweepTypes' /\ TotalsHold'
    <2>1. CASE ~ top
      <3>1. gmem' = gmem
        BY <1>1, <2>1
      <3>2. TotalsHold'
        BY <1>1, <1>2, <1>3, <2>1, <3>1, TotalsKept DEF r, L
      <3> QED BY <1>13, <3>1, <3>2
    <2>2. CASE top /\ host.pass = 2
      <3>1. gmem' = gmem
        BY <1>1, <2>2
      <3>2. TotalsHold'
        BY <1>1, <1>2, <2>2, <3>1, SameSweep DEF TotalsHold
      <3> QED BY <1>13, <3>1, <3>2
    <2>3. CASE top /\ host.pass = 1
      <3> DEFINE g == gmem.block_sums
                 v == s[B - 1]
      <3>1. gmem' = [gmem EXCEPT !.block_sums[b] = v] /\ b \in 0..Scan!NumBlocks - 1
        BY <1>1, <1>3, <2>3 DEF BlocksOf
      <3>2. v \in Int
        BY <1>3, <1>11
      <3> HIDE DEF v
      <3>3. /\ gmem \in [out : [0..host.n - 1 -> Int],
                         block_sums : [0..Scan!NumBlocks - 1 -> Int],
                         block_prefixes : [0..Scan!NumBlocks - 1 -> Int]]
            /\ host \in [pass : 1..4, n : ScanSizes]
        BY <1>2 DEF SweepTypes
      <3>4. /\ gmem'.block_sums[b] = v
            /\ \A c \in 0..Scan!NumBlocks - 1 : c # b => gmem'.block_sums[c] = gmem.block_sums[c]
            /\ gmem' \in [out : [0..host.n - 1 -> Int],
                          block_sums : [0..Scan!NumBlocks - 1 -> Int],
                          block_prefixes : [0..Scan!NumBlocks - 1 -> Int]]
        BY <3>1, <3>2, <3>3
      <3>5. SweepTypes'
        <4>1. ScanSizes' = ScanSizes /\ host'.n = host.n /\ B' = B
          BY <1>1, SameSweep DEF B
        <4> QED BY <1>1, <1>13, <3>3, <3>4, <4>1, SameSweep DEF SweepTypes, B
      <3>6. v = TotalOf(b)
        <4>1. PICK p \in P : TRUE
          BY <1>6, <2>3
        <4>2. v = f[B] - f[0]
          BY <1>10, <2>3, <4>1 DEF v
        <4>3. f[B] = SumBelow(b * B + B) /\ f[0] = SumBelow(b * B + 0)
          BY <1>3, <2>3 DEF f, Sums, B
        <4>4. b * B + B = (b + 1) * B /\ b * B + 0 = b * B
          BY <1>3, <3>1
        <4> QED BY <4>2, <4>3, <4>4 DEF TotalOf, B
      <3>7. /\ \A u \in ScanGrid : u # w => round'[u] = round[u]
            /\ \A c \in 0..BlocksOf - 1 : << c, 0 >> \in ScanGrid
        BY <1>1, <1>2, <1>3, SweepTurn, SweepPlaces
      <3>8. ASSUME NEW c \in 0..Scan!NumBlocks - 1, round'[<< c, 0 >>] > Scan!Levels
            PROVE  gmem'.block_sums[c] = TotalOf(c)
        <4>1. CASE c = b
          BY <3>4, <3>6, <4>1
        <4>2. CASE c # b
          <5>1. << c, 0 >> # w /\ << c, 0 >> \in ScanGrid
            BY <2>3, <3>7, <4>2 DEF b, BlocksOf
          <5>2. round[<< c, 0 >>] > Scan!Levels
            BY <3>7, <3>8, <5>1
          <5>3. gmem.block_sums[c] = TotalOf(c)
            BY <1>2, <5>2 DEF TotalsHold
          <5> QED BY <3>4, <4>2, <5>3
        <4> QED BY <4>1, <4>2
      <3>9. TotalsHold'
        BY <1>1, <2>3, <3>8, SameSweep DEF TotalsHold
      <3> QED BY <3>5, <3>9
    <2> QED BY <1>1, <2>1, <2>2, <2>3
  <1> QED BY <1>15, <1>16, <1>18, <1>19 DEF SweepInv

\* On the way down each first takes what its pair's second has, and the second the
\* sum of both.
LEMMA DownStep ==
  ASSUME Scan!SizesAssumption, SweepInv, NEW w \in Scan!Warps, Scan!DownSweep(w)
  PROVE  SweepInv'
  <1> DEFINE b == w[1]
             r == round[w]
             L == Scan!Levels
             B == Scan!Elems
             f == Sums(b)
             m == smem[b]
             P == Scan!Pairs(w)
             s == Scan!Swept(m, P)
             v(i) == IF \E p \in P : p[1] = i THEN m[(CHOOSE p \in P : p[1] = i)[2]] ELSE s[i]
             n == [i \in DOMAIN m |-> v(i)]
  <1>1. /\ host.pass \in {1, 2} /\ host' = host /\ gmem' = gmem /\ Scan!Turn(w, Scan!DownRound)
        /\ smem' = [smem EXCEPT ![b] = [i \in DOMAIN smem[b] |-> v(i)]]
    BY DEF Scan!DownSweep, Scan!Turn
  <1>2. SweepTypes /\ SweepRounds /\ Contents /\ TotalsHold /\ PartialsHold /\ PrefixesHold
        /\ w \in ScanGrid
    BY <1>1 DEF SweepInv, SweepRounds, Scan!Warps
  <1>3. /\ b \in 0..BlocksOf - 1 /\ B \in Nat \ {0} /\ L \in Nat \ {0}
        /\ Scan!DownRound = L + 1..2 * L
        /\ Scan!LastRound = 2 * L + 1 /\ Scan!DownRound \in SUBSET (0..Scan!LastRound)
    <2>1. b \in 0..BlocksOf - 1
      BY <1>2, SweepPlaces
    <2>2. B \in Nat \ {0} /\ L \in Nat \ {0} /\ Scan!DownRound = L + 1..2 * L
          /\ Scan!LastRound = 2 * L + 1
      BY SweepLevels
    <2> HIDE DEF L
    <2>3. Scan!DownRound \in SUBSET (0..Scan!LastRound)
      BY <2>2
    <2> QED BY <2>1, <2>2, <2>3
  <1>4. r \in L + 1..2 * L /\ Scan!Synced(w) /\ r \in 1..2 * L /\ r \in 1..Scan!LastRound /\ r # L
    <2>1. r \in Scan!DownRound /\ Scan!Synced(w)
      BY <1>1 DEF Scan!Turn
    <2> QED BY <1>3, <2>1
  <1>5. f \in SumsOf /\ m \in [0..B - 1 -> Int]
    BY <1>1, <1>2, <1>3, LoadedSums DEF SweepTypes
  <1>6. /\ \A p \in P : \E t \in Nat : t < Scan!Active(r) /\ p = Scan!PairOf(t, r)
        /\ \A p \in P : /\ p[1] \in 0..B - 1 /\ p[2] \in 0..B - 1
                        /\ p[1] \in Touches(w, r) /\ p[2] \in Touches(w, r)
        /\ \A p, q \in P : p[1] # q[2] /\ (p[1] = q[1] \/ p[2] = q[2] => p = q)
        /\ \A i \in Touches(w, r) : \E p \in P : i = p[1] \/ i = p[2]
    BY <1>2, <1>4, PairsAre
  <1>7. /\ DOMAIN s = 0..B - 1
        /\ \A p \in P : s[p[1]] = m[p[1]] /\ s[p[2]] = m[p[2]] + m[p[1]]
        /\ \A i \in 0..B - 1 : (\A p \in P : p[1] # i /\ p[2] # i) => s[i] = m[i]
    <2> HIDE DEF P, m, B
    <2> DEFINE D == 0..B - 1
    <2>1. DOMAIN m = D /\ \A p \in P : p[1] \in D /\ p[2] \in D
      BY <1>5, <1>6
    <2>2. \A p, q \in P : p[1] # q[2] /\ (p[1] = q[1] \/ p[2] = q[2] => p = q)
      BY <1>6
    <2> HIDE DEF D
    <2>3. /\ DOMAIN Scan!Swept(m, P) = D
          /\ \A p \in P :
               Scan!Swept(m, P)[p[1]] = m[p[1]] /\ Scan!Swept(m, P)[p[2]] = m[p[2]] + m[p[1]]
          /\ \A i \in D : (\A p \in P : p[1] # i /\ p[2] # i) => Scan!Swept(m, P)[i] = m[i]
      BY ONLY <2>1, <2>2, SweptIs
    <2> QED BY <2>3 DEF D
  <1>8. \A i \in Touches(w, r) : i \in 0..B - 1
    BY <1>6
  <1>9. \A i \in Touches(w, r) : SweptTo(f, r, i, m[i])
    BY <1>2, <1>4, <1>8, TouchedAt DEF r, f, m, b, B
  <1> HIDE DEF s
  <1>10. /\ n = [i \in 0..B - 1 |-> v(i)]
         /\ \A p \in P : v(p[1]) = m[p[2]] /\ v(p[2]) = m[p[2]] + m[p[1]]
         /\ \A i \in 0..B - 1 : (\A p \in P : p[1] # i /\ p[2] # i) => v(i) = m[i]
    <2>1. n = [i \in 0..B - 1 |-> v(i)]
      BY <1>5
    <2> HIDE DEF P, m
    <2>2. ASSUME NEW p \in P PROVE v(p[1]) = m[p[2]] /\ v(p[2]) = m[p[2]] + m[p[1]]
      <3>1. \A q \in P : q[1] # p[2]
        BY <1>6
      <3>2. (CHOOSE q \in P : q[1] = p[1]) = p
        <4> DEFINE c == CHOOSE q \in P : q[1] = p[1]
        <4>1. c \in P /\ c[1] = p[1]
          OBVIOUS
        <4> HIDE DEF c
        <4>2. c = p
          BY <1>6, <4>1
        <4> QED BY <4>2 DEF c
      <3>3. v(p[1]) = m[p[2]]
        BY <3>2
      <3>4. v(p[2]) = s[p[2]]
        BY <3>1
      <3> QED BY <1>7, <3>3, <3>4
    <2>3. ASSUME NEW i \in 0..B - 1, \A p \in P : p[1] # i /\ p[2] # i PROVE v(i) = m[i]
      BY <1>7, <2>3
    <2> QED BY <2>1, <2>2, <2>3
  <1>11. ASSUME NEW p \in P
         PROVE SweptTo(f, r + 1, p[1], v(p[1])) /\ SweptTo(f, r + 1, p[2], v(p[2]))
    <2>1. PICK t \in Nat : t < Scan!Active(r) /\ p = Scan!PairOf(t, r)
      BY <1>6
    <2> DEFINE x == m[p[1]]
               y == m[p[2]]
    <2>2. x \in Int /\ y \in Int /\ SweptTo(f, r, p[1], x) /\ SweptTo(f, r, p[2], y)
      BY <1>5, <1>6, <1>9
    <2>3. v(p[1]) = y /\ v(p[2]) = y + x
      BY <1>10
    <2> HIDE DEF x, y, f, v, r, L, B, P
    <2>4. SweptTo(f, r + 1, p[1], y) /\ SweptTo(f, r + 1, p[2], y + x)
      BY <1>4, <1>5, <2>1, <2>2, DownPair DEF L
    <2> QED BY <2>3, <2>4
  <1>12. n \in [0..B - 1 -> Int]
    <2> HIDE DEF f, m, P, v
    <2>1. ASSUME NEW i \in 0..B - 1 PROVE v(i) \in Int
      <3>1. CASE \E p \in P : p[1] = i \/ p[2] = i
        <4>1. PICK p \in P : p[1] = i \/ p[2] = i
          BY <3>1
        <4>2. m[p[1]] \in Int /\ m[p[2]] \in Int
          BY <1>5, <1>6
        <4> QED BY <1>10, <4>1, <4>2
      <3>2. CASE ~ \E p \in P : p[1] = i \/ p[2] = i
        BY <1>5, <1>10, <3>2
      <3> QED BY <3>1, <3>2
    <2>2. n = [i \in 0..B - 1 |-> v(i)]
      BY <1>10
    <2> HIDE DEF n, B
    <2> QED BY <2>1, <2>2
  <1>13. \A i \in 0..B - 1 : n[i] = v(i)
    BY <1>5
  <1>14. smem' = [smem EXCEPT ![b] = n]
    BY <1>1
  <1> HIDE DEF f, m, P, v, n, r, b, B, L
  <1>15. /\ smem'[b] = n /\ \A c \in 0..BlocksOf - 1 : c # b => smem'[c] = smem[c]
         /\ SweepTypes'
    BY <1>1, <1>2, <1>12, <1>14, SharedIs DEF b, B
  <1>16. ASSUME NEW i \in 0..B - 1
         PROVE  IF i \in Touches(w, r) THEN SweptTo(f, r + 1, i, n[i]) ELSE n[i] = m[i]
    <2>1. CASE i \in Touches(w, r)
      <3>1. PICK p \in P : i = p[1] \/ i = p[2]
        BY <1>6, <2>1
      <3> QED BY <1>11, <1>13, <2>1, <3>1
    <2>2. CASE i \notin Touches(w, r)
      <3>1. \A p \in P : p[1] # i /\ p[2] # i
        BY <1>6, <2>2
      <3> QED BY <1>10, <1>13, <2>2, <3>1
    <2> QED BY <2>1, <2>2
  <1>17. SweepRounds'
    BY <1>1, <1>2, <1>3, SweepTurn
  <1>18. Contents'
    <2>1. \A i \in 0..Scan!Elems - 1 :
            IF i \in Touches(w, round[w])
              THEN SweptTo(Sums(w[1]), round[w] + 1, i, smem'[w[1]][i])
                                          ELSE smem'[w[1]][i] = smem[w[1]][i]
      BY <1>15, <1>16 DEF f, b, B, r, m
    <2>2. \A c \in 0..BlocksOf - 1 : c # w[1] => smem'[c] = smem[c]
      BY <1>15 DEF b
    <2> QED BY <1>1, <1>2, <1>3, <2>1, <2>2, ContentsKept
  <1>19. PartialsHold' /\ PrefixesHold' /\ ResultHolds'
    <2>1. round[w] # Scan!LastRound
      BY <1>3, <1>4 DEF r
    <2> QED BY <1>1, <1>2, <1>3, <2>1, StoredKept
  <1>20. TotalsHold'
    <2>1. round[w] # Scan!Levels
      BY <1>4 DEF r, L
    <2> QED BY <1>1, <1>2, <1>3, <2>1, TotalsKept
  <1> QED BY <1>15, <1>17, <1>18, <1>19, <1>20 DEF SweepInv

\* After the last sweep each element has the sum before it.
LEMMA ScannedAt ==
  ASSUME Scan!SizesAssumption, SweepTypes, SweepRounds, Contents, NEW w \in ScanGrid,
         Scan!Synced(w), round[w] = Scan!LastRound, NEW t \in 0..Scan!Elems - 1
  PROVE  smem[w[1]][t] = Sums(w[1])[t] - Sums(w[1])[0]
  <1>1. Scan!Levels \in Nat \ {0} /\ Scan!LastRound = 2 * Scan!Levels + 1 /\ Scan!Elems \in Nat
    BY SweepLevels
  <1>2. round[w] \in 1..Scan!LastRound /\ ~ (Scan!LastRound <= Scan!Levels)
    BY <1>1
  <1>3. SweptTo(Sums(w[1]), Scan!LastRound, t, smem[w[1]][t])
    <2>1. SweptTo(Sums(w[1]), round[w], t, smem[w[1]][t])
      BY <1>2, TouchedAt
    <2> QED BY <2>1
  <1>4. Exponent(Scan!LastRound) = 0 /\ 2^0 = 1
    BY <1>1, <1>2, Powers DEF Exponent
  <1>5. Multiple(t + 1, 0)
    <2>1. 1 \in Nat \ {0} /\ 1 = 2^0 /\ t + 1 \in Nat /\ t + 1 = 1 * (t + 1) /\ 0 \in Nat
      BY <1>1, <1>4
    <2> QED BY <2>1, MultipleIs
  <1>6. t + 1 - 2^0 = t
    BY <1>1, <1>4
  <1> QED BY <1>2, <1>3, <1>4, <1>5, <1>6 DEF SweptTo

\* Where a warp's elements are in the array, apart from another's.
LEMMA OutPlaces ==
  ASSUME Scan!SizesAssumption, SweepTypes, NEW w \in ScanGrid
  PROVE  /\ Scan!Own(w) \subseteq 0..Scan!Elems - 1
         /\ \A i \in OutOf(w) : /\ i \in 0..host.n - 1 /\ i - w[1] * Scan!Elems \in Scan!Own(w)
                                /\ i = w[1] * Scan!Elems + (i - w[1] * Scan!Elems)
                                /\ Partial(i) = SumBelow(i) - SumBelow(w[1] * Scan!Elems)
         /\ \A v \in ScanGrid : \A i \in OutOf(v) : i \in OutOf(w) => v = w
  <1> DEFINE B == Scan!Elems
             n == host.n
  <1>1. B \in Nat \ {0} /\ ScanBlock \in Nat \ {0} /\ B = 2 * ScanBlock
    BY SweepLevels
  <1>2. /\ n \in Nat
        /\ \A v \in ScanGrid :
             v[1] \in 0..BlocksOf - 1 /\ Scan!Lanes(v) \subseteq 0..ScanBlock - 1
        /\ BlocksOf \in Nat
        /\ \A i \in 0..n - 1 : \E b \in 0..Scan!NumBlocks - 1, t \in 0..B - 1 :
             i = b * B + t /\ b = i \div B
        /\ \A b, c \in Nat : \A t, u \in 0..B - 1 : b * B + t = c * B + u => b = c /\ t = u
        /\ Scan!NumBlocks \in Nat
    BY SweepPlaces
  <1>3. ASSUME NEW v \in ScanGrid PROVE Scan!Own(v) \subseteq 0..B - 1
    <2>1. \A t \in Scan!Lanes(v) : t \in 0..B - 1 /\ t + ScanBlock \in 0..B - 1
      BY <1>1, <1>2
    <2> QED BY <2>1 DEF Scan!Own
  <1> HIDE DEF B, n
  <1>4. ASSUME NEW v \in ScanGrid, NEW i \in OutOf(v)
        PROVE  /\ i \in 0..n - 1 /\ i - v[1] * B \in Scan!Own(v) /\ i = v[1] * B + (i - v[1] * B)
               /\ v[1] = i \div B /\ v[1] \in Nat
    <2>1. i \in 0..n - 1 /\ i - v[1] * B \in Scan!Own(v)
      BY DEF OutOf, B, n
    <2>2. v[1] \in Nat
      BY <1>2
    <2> DEFINE x == v[1] * B
               t == i - x
    <2>3. x \in Nat /\ i \in Nat
      BY <1>1, <1>2, <2>1, <2>2
    <2>4. t \in 0..B - 1
      BY <1>3, <2>1
    <2>5. i = x + t
      <3> HIDE DEF x
      <3> QED BY <2>3
    <2>6. PICK b \in 0..Scan!NumBlocks - 1, u \in 0..B - 1 : i = b * B + u /\ b = i \div B
      BY <1>2, <2>1
    <2>7. b \in Nat /\ v[1] * B + t = b * B + u
      BY <1>2, <2>5, <2>6
    <2> HIDE DEF t
    <2>8. v[1] = b
      BY <1>2, <2>2, <2>4, <2>7
    <2> QED BY <2>1, <2>2, <2>5, <2>6, <2>8 DEF t
  <1>5. \A i \in OutOf(w) : /\ i \in 0..n - 1 /\ i - w[1] * B \in Scan!Own(w) /\ i = w[1] * B + (i - w[1] * B)
                            /\ Partial(i) = SumBelow(i) - SumBelow(w[1] * B)
    <2> TAKE i \in OutOf(w)
    <2>1. (i \div B) * B = w[1] * B
      BY <1>4
    <2>2. Partial(i) = SumBelow(i) - SumBelow((i \div B) * B)
      BY DEF Partial, B
    <2> QED BY <1>4, <2>1, <2>2
  <1>6. ASSUME NEW v \in ScanGrid, NEW i \in OutOf(v), i \in OutOf(w) PROVE v = w
    <2>1. v[1] = w[1]
      BY <1>4, <1>6
    <2>2. i - v[1] * B \in Scan!Own(v) /\ i - v[1] * B \in Scan!Own(w)
      BY <1>4, <1>6, <2>1
    <2> DEFINE t == i - v[1] * B
    <2>3. t \in Touches(v, 0) /\ t \in Touches(w, 0)
      BY <2>2 DEF Touches
    <2>4. 0 \in 0..Scan!LastRound
      BY SweepLevels
    <2> HIDE DEF t
    <2> QED BY <2>1, <2>3, <2>4, TouchApart
  <1>7. Scan!Own(w) \subseteq 0..B - 1
    BY <1>3
  <1> QED BY <1>5, <1>6, <1>7 DEF B, n

\* The threads store the sums before their elements.
LEMMA StoreStep ==
  ASSUME Scan!SizesAssumption, SweepInv, NEW w \in Scan!Warps, Scan!Store(w)
  PROVE  SweepInv'
  <1> DEFINE b == w[1]
             B == Scan!Elems
             f == Sums(b)
             m == smem[b]
             last == Scan!LastRound
             stored(out, i) == IF i - b * B \in Scan!Own(w) THEN m[i - b * B] ELSE out[i]
  <1>1. /\ host.pass \in {1, 2} /\ host' = host /\ smem' = smem /\ Scan!Turn(w, {last})
        /\ round[w] = last
        /\ Scan!Synced(w)
        /\ gmem' = IF host.pass = 1 THEN [gmem EXCEPT !.out = Scan!Stored(w, gmem.out)]
                                    ELSE [gmem EXCEPT !.block_prefixes
                                      = Scan!Stored(w, gmem.block_prefixes)]
    BY DEF Scan!Store, Scan!Turn
  <1>2. SweepTypes /\ SweepRounds /\ Contents /\ TotalsHold /\ PartialsHold /\ PrefixesHold
        /\ w \in ScanGrid
    BY <1>1 DEF SweepInv, SweepRounds, Scan!Warps
  <1>3. /\ b \in 0..BlocksOf - 1 /\ BlocksOf \in Nat /\ Scan!NumBlocks \in Nat \ {0}
        /\ host.n \in Nat
        /\ Scan!NumBlocks <= B
    BY <1>2, SweepPlaces
  <1>4. B \in Nat \ {0} /\ last \in Nat /\ Scan!Levels \in Nat \ {0} /\ last = 2 * Scan!Levels + 1
        /\ Scan!UpRound \cup Scan!DownRound = 1..2 * Scan!Levels /\ {last} \in SUBSET (0..last)
    <2>1. B \in Nat \ {0} /\ last \in Nat /\ Scan!Levels \in Nat \ {0}
          /\ last = 2 * Scan!Levels + 1
          /\ Scan!UpRound = 1..Scan!Levels /\ Scan!DownRound = Scan!Levels + 1..2 * Scan!Levels
      BY SweepLevels
    <2> HIDE DEF last
    <2> QED BY <2>1
  <1>5. /\ gmem \in [out : [0..host.n - 1 -> Int], block_sums : [0..Scan!NumBlocks - 1 -> Int],
                     block_prefixes : [0..Scan!NumBlocks - 1 -> Int]]
        /\ host \in [pass : 1..4, n : ScanSizes] /\ m \in [0..B - 1 -> Int]
        /\ smem \in [0..BlocksOf - 1 -> [0..B - 1 -> Int]]
    BY <1>2, <1>3 DEF SweepTypes
  <1>6. \A t \in 0..B - 1 : m[t] = f[t] - f[0]
    BY <1>1, <1>2, ScannedAt
  <1>7. /\ Scan!Own(w) \subseteq 0..B - 1
        /\ \A i \in OutOf(w) : /\ i \in 0..host.n - 1 /\ i - b * B \in Scan!Own(w)
                               /\ i = b * B + (i - b * B)
                               /\ Partial(i) = SumBelow(i) - SumBelow(b * B)
    BY <1>2, OutPlaces
  <1>8. \A i \in 0..B - 1 : f[i] = IF host.pass = 1 THEN SumBelow(b * B + i) ELSE SumBelow(i * B)
    BY <1>4 DEF Sums
  <1>9. /\ round'[w] = last + 1 /\ ScanGrid' = ScanGrid /\ SweepRounds'
        /\ \A v \in ScanGrid : v # w => round'[v] = round[v]
    BY <1>1, <1>2, <1>4, SweepTurn
  <1>10. Contents'
    <2>1. round[w] # 0 /\ round[w] \notin Scan!UpRound \cup Scan!DownRound
      BY <1>1, <1>4
    <2>2. Touches(w, round[w]) = {}
      BY <2>1 DEF Touches
    <2>3. \A i \in 0..Scan!Elems - 1 :
            IF i \in Touches(w, round[w])
              THEN SweptTo(Sums(w[1]), round[w] + 1, i, smem'[w[1]][i])
                                          ELSE smem'[w[1]][i] = smem[w[1]][i]
      BY <1>1, <2>2
    <2>4. \A c \in 0..BlocksOf - 1 : c # w[1] => smem'[c] = smem[c]
      BY <1>1
    <2> QED BY <1>1, <1>2, <1>4, <2>3, <2>4, ContentsKept
  <1>11. TotalsHold'
    <2>1. round[w] # Scan!Levels
      BY <1>1, <1>4
    <2>2. gmem'.block_sums = gmem.block_sums
      BY <1>1, <1>5
    <2> QED BY <1>1, <1>2, <1>4, <2>1, <2>2, TotalsKept
  <1>12. \A out : Scan!Stored(w, out) = [i \in DOMAIN out |-> stored(out, i)]
    BY DEF Scan!Stored
  <1>13. ResultHolds'
    BY <1>1 DEF ResultHolds
  <1>14. ASSUME NEW k \in Nat, NEW out \in [0..k - 1 -> Int]
         PROVE  /\ Scan!Stored(w, out) \in [0..k - 1 -> Int]
                /\ \A i \in 0..k - 1 : Scan!Stored(w, out)[i] = stored(out, i)
    <2>1. ASSUME NEW i \in 0..k - 1 PROVE stored(out, i) \in Int
      BY <1>5, <1>7
    <2>2. Scan!Stored(w, out) = [i \in 0..k - 1 |-> stored(out, i)]
      BY <1>12
    <2> HIDE DEF stored
    <2> QED BY <2>1, <2>2
  <1> HIDE DEF stored, f, m, last, b, B
  <1>15. CASE host.pass = 1
    <2> DEFINE o == Scan!Stored(w, gmem.out)
    <2>1. o \in [0..host.n - 1 -> Int] /\ \A i \in 0..host.n - 1 : o[i] = stored(gmem.out, i)
      BY <1>3, <1>5, <1>14
    <2>2. gmem' = [gmem EXCEPT !.out = o]
      BY <1>1, <1>15
    <2> HIDE DEF o
    <2>3. /\ gmem'.out = o /\ gmem'.block_prefixes = gmem.block_prefixes
          /\ gmem' \in [out : [0..host.n - 1 -> Int], block_sums : [0..Scan!NumBlocks - 1 -> Int],
                        block_prefixes : [0..Scan!NumBlocks - 1 -> Int]]
      BY <1>5, <2>1, <2>2
    <2>4. SweepTypes'
      BY <1>1, <1>5, <2>3, SameSweep DEF SweepTypes, B
    <2>5. PrefixesHold'
      BY <1>1, <1>15 DEF PrefixesHold
    <2>6. ASSUME NEW i \in OutOf(w) PROVE o[i] = Partial(i)
      <3> DEFINE t == i - b * B
      <3>1. t \in Scan!Own(w) /\ t \in 0..B - 1 /\ i \in 0..host.n - 1 /\ i = b * B + t
        BY <1>7
      <3>2. o[i] = m[t]
        BY <2>1, <3>1 DEF stored
      <3>3. m[t] = f[t] - f[0] /\ 0 \in 0..B - 1
        BY <1>4, <1>6, <3>1
      <3>4. f[t] = SumBelow(i) /\ f[0] = SumBelow(b * B)
        <4>1. b * B + 0 = b * B
          BY <1>3, <1>4
        <4> HIDE DEF t
        <4> QED BY <1>8, <1>15, <3>1, <3>3, <4>1
      <3> QED BY <1>7, <3>2, <3>3, <3>4
    <2>7. ASSUME NEW i \in 0..host.n - 1, i \notin OutOf(w) PROVE o[i] = gmem.out[i]
      BY <2>1, <2>7 DEF OutOf, stored, b, B
    <2>8. ASSUME NEW v \in ScanGrid, round'[v] = last + 1, NEW i \in OutOf(v)
          PROVE o[i] = Partial(i)
      <3>1. CASE i \in OutOf(w)
        BY <2>6, <3>1
      <3>2. CASE i \notin OutOf(w)
        <4>1. v # w /\ round[v] = last + 1 /\ i \in 0..host.n - 1
          BY <1>9, <2>8, <3>2 DEF OutOf
        <4>2. gmem.out[i] = Partial(i)
          BY <1>2, <1>15, <4>1 DEF PartialsHold, last
        <4> QED BY <2>7, <3>2, <4>1, <4>2
      <3> QED BY <3>1, <3>2
    <2>9. PartialsHold'
      BY <1>1, <1>9, <1>15, <2>3, <2>8, SameSweep DEF PartialsHold, last
    <2> QED BY <1>9, <1>10, <1>11, <1>13, <2>4, <2>5, <2>9 DEF SweepInv
  <1>16. CASE host.pass = 2
    <2> DEFINE o == Scan!Stored(w, gmem.block_prefixes)
    <2>1. o \in [0..Scan!NumBlocks - 1 -> Int] /\ \A i \in 0..Scan!NumBlocks - 1 :
            o[i] = stored(gmem.block_prefixes, i)
      BY <1>3, <1>5, <1>14
    <2>2. gmem' = [gmem EXCEPT !.block_prefixes = o]
      BY <1>1, <1>16
    <2> HIDE DEF o
    <2>3. /\ gmem'.block_prefixes = o /\ gmem'.out = gmem.out
          /\ gmem' \in [out : [0..host.n - 1 -> Int], block_sums : [0..Scan!NumBlocks - 1 -> Int],
                        block_prefixes : [0..Scan!NumBlocks - 1 -> Int]]
      BY <1>5, <2>1, <2>2
    <2>4. SweepTypes'
      BY <1>1, <1>5, <2>3, SameSweep DEF SweepTypes, B
    <2>5. PartialsHold'
      BY <1>1, <1>2, <1>16, <2>3, SameSweep DEF PartialsHold
    <2>6. b = 0 /\ b * B = 0
      <3>1. b = 0
        BY <1>3, <1>16 DEF BlocksOf
      <3> QED BY <1>4, <3>1
    <2>7. ASSUME NEW i \in Scan!Own(w), i < Scan!NumBlocks PROVE o[i] = SumBelow(i * B)
      <3>1. i \in 0..B - 1 /\ i \in 0..Scan!NumBlocks - 1 /\ i - b * B = i
        BY <1>3, <1>4, <1>7, <2>6, <2>7
      <3>2. o[i] = m[i]
        BY <2>1, <3>1 DEF stored
      <3>3. m[i] = f[i] - f[0] /\ 0 \in 0..B - 1
        BY <1>4, <1>6, <3>1
      <3>4. f[i] = SumBelow(i * B) /\ f[0] = SumBelow(0)
        <4>1. 0 * B = 0
          BY <1>4
        <4> QED BY <1>8, <1>16, <3>1, <3>3, <4>1
      <3>5. SumBelow(0) = 0 /\ SumBelow(i * B) \in Nat
        <4>1. i * B \in Nat
          BY <1>4, <3>1
        <4> QED BY <1>3, <4>1, SumFacts
      <3> QED BY <3>2, <3>3, <3>4, <3>5
    <2>8. ASSUME NEW i \in 0..Scan!NumBlocks - 1, i \notin Scan!Own(w)
          PROVE o[i] = gmem.block_prefixes[i]
      <3>1. i - b * B = i
        BY <1>3, <2>6
      <3> QED BY <2>1, <2>8, <3>1 DEF stored
    <2>9. ASSUME NEW v \in ScanGrid, round'[v] = last + 1, NEW i \in Scan!Own(v),
                 i < Scan!NumBlocks
          PROVE  o[i] = SumBelow(i * B)
      <3>1. CASE i \in Scan!Own(w)
        BY <2>7, <2>9, <3>1
      <3>2. CASE i \notin Scan!Own(w)
        <4>1. v # w /\ round[v] = last + 1
          BY <1>9, <2>9, <3>2
        <4>2. i \in 0..Scan!NumBlocks - 1
          <5>1. Scan!Own(v) \subseteq 0..B - 1
            BY <1>2, OutPlaces DEF B
          <5> QED BY <1>3, <1>4, <2>9, <5>1
        <4>3. gmem.block_prefixes[i] = SumBelow(i * B)
          BY <1>2, <1>16, <2>9, <4>1 DEF PrefixesHold, last, B
        <4> QED BY <2>8, <3>2, <4>2, <4>3
      <3> QED BY <3>1, <3>2
    <2>10. PrefixesHold'
      BY <1>1, <1>9, <1>16, <2>3, <2>9, SameSweep DEF PrefixesHold, last, B
    <2> QED BY <1>9, <1>10, <1>11, <1>13, <2>4, <2>5, <2>10 DEF SweepInv
  <1> QED BY <1>1, <1>15, <1>16

\* Each element of a block is one of a warp's.
LEMMA OwnAll ==
  ASSUME Scan!SizesAssumption, SweepTypes, NEW b \in 0..BlocksOf - 1, NEW t \in 0..Scan!Elems - 1
  PROVE  \E w \in ScanGrid : w[1] = b /\ t \in Scan!Own(w)
  <1>1. ScanBlock \in Nat \ {0} /\ Scan!Elems = 2 * ScanBlock
    BY SweepLevels
  <1>2. t \in 0..ScanBlock - 1
        \/ (t - ScanBlock \in 0..ScanBlock - 1 /\ t = (t - ScanBlock) + ScanBlock)
    BY <1>1
  <1>3. PICK u \in 0..ScanBlock - 1 : t = u \/ t = u + ScanBlock
    BY <1>2
  <1>4. PICK w \in ScanGrid : w[1] = b /\ u \in Scan!Lanes(w)
    BY SweepPlaces
  <1>5. t \in Scan!Own(w)
    BY <1>3, <1>4 DEF Scan!Own
  <1> QED BY <1>4, <1>5

\* The last kernel adds the sums before the blocks.
LEMMA PropagateStep ==
  ASSUME Scan!SizesAssumption, SweepInv, NEW w \in Scan!Warps, Scan!Propagate(w)
  PROVE  SweepInv'
  <1> DEFINE b == w[1]
             B == Scan!Elems
             pre == gmem.block_prefixes
             added(i) == IF i - b * B \in Scan!Own(w) THEN gmem.out[i] + pre[b] ELSE gmem.out[i]
             o == [i \in DOMAIN gmem.out |-> added(i)]
  <1>1. /\ host.pass = 3 /\ host' = host /\ smem' = smem /\ round[w] = 0
        /\ round' = [round EXCEPT ![w] = @ + 1]
        /\ gmem' = [gmem EXCEPT !.out = o]
    BY DEF Scan!Propagate, Scan!Arrive
  <1>2. SweepTypes /\ TotalsHold /\ PrefixesHold /\ ResultHolds
    BY DEF SweepInv
  <1>3. /\ round \in [ScanGrid -> 0..1] /\ w \in ScanGrid
        /\ \A v \in ScanGrid : \A i \in OutOf(v) :
             gmem.out[i] = IF round[v] = 1 THEN SumBelow(i) ELSE Partial(i)
    BY <1>1, <1>2 DEF ResultHolds, Scan!Warps
  <1>4. round' \in [ScanGrid -> 0..1] /\ round'[w] = 1 /\ \A v \in ScanGrid : v # w =>
          round'[v] = round[v]
    BY <1>1, <1>3
  <1>5. /\ gmem \in [out : [0..host.n - 1 -> Int], block_sums : [0..Scan!NumBlocks - 1 -> Int],
                     block_prefixes : [0..Scan!NumBlocks - 1 -> Int]]
        /\ host \in [pass : 1..4, n : ScanSizes]
    BY <1>2 DEF SweepTypes
  <1>6. b \in 0..Scan!NumBlocks - 1 /\ pre[b] = SumBelow(b * B) /\ pre[b] \in Int
    <2>1. b \in 0..Scan!NumBlocks - 1
      BY <1>1, <1>2, <1>3, SweepPlaces DEF BlocksOf
    <2>2. host.pass > 2
      BY <1>1
    <2> HIDE DEF b, B
    <2>3. pre[b] = SumBelow(b * B)
      BY <1>2, <2>1, <2>2 DEF PrefixesHold, B
    <2>4. pre \in [0..Scan!NumBlocks - 1 -> Int]
      BY <1>5
    <2> QED BY <2>1, <2>3, <2>4
  <1>7. o \in [0..host.n - 1 -> Int] /\ \A i \in 0..host.n - 1 : o[i] = added(i)
    <2>1. ASSUME NEW i \in 0..host.n - 1 PROVE added(i) \in Int
      <3>1. gmem.out[i] \in Int
        BY <1>5
      <3> HIDE DEF b, pre
      <3> QED BY <1>6, <3>1
    <2>2. o = [i \in 0..host.n - 1 |-> added(i)]
      BY <1>5
    <2> HIDE DEF added, o
    <2> QED BY <2>1, <2>2
  <1> HIDE DEF o
  <1>8. /\ gmem'.out = o /\ gmem'.block_prefixes = gmem.block_prefixes
        /\ gmem'.block_sums = gmem.block_sums
        /\ gmem' \in [out : [0..host.n - 1 -> Int], block_sums : [0..Scan!NumBlocks - 1 -> Int],
                      block_prefixes : [0..Scan!NumBlocks - 1 -> Int]]
    BY <1>1, <1>5, <1>7
  <1>9. SweepTypes'
    BY <1>1, <1>2, <1>8, SameSweep DEF SweepTypes
  <1>10. TotalsHold' /\ PartialsHold' /\ PrefixesHold'
    BY <1>1, <1>2, <1>8, SameSweep DEF TotalsHold, PartialsHold, PrefixesHold
  <1>11. ASSUME NEW v \in ScanGrid, NEW i \in OutOf(v)
         PROVE  o[i] = IF round'[v] = 1 THEN SumBelow(i) ELSE Partial(i)
    <2>1. i \in 0..host.n - 1
      BY DEF OutOf
    <2>2. CASE v = w
      <3>1. i - b * B \in Scan!Own(w) /\ Partial(i) = SumBelow(i) - SumBelow(b * B)
        BY <1>2, <1>3, <2>2, OutPlaces
      <3>2. gmem.out[i] = Partial(i)
        BY <1>1, <1>3, <2>2
      <3>3. SumBelow(i) \in Int
        <4>1. host.n \in Nat /\ i \in Nat
          BY <1>2, <2>1, SweepPlaces
        <4> QED BY <4>1, SumFacts
      <3> HIDE DEF pre, b
      <3>4. o[i] = gmem.out[i] + pre[b]
        BY <1>7, <2>1, <3>1
      <3>5. o[i] = SumBelow(i)
        BY <1>6, <3>1, <3>2, <3>3, <3>4
      <3> QED BY <1>4, <2>2, <3>5
    <2>3. CASE v # w
      <3>1. i \notin OutOf(w)
        BY <1>2, <1>3, <2>3, OutPlaces
      <3>2. i - b * B \notin Scan!Own(w)
        BY <2>1, <3>1 DEF OutOf
      <3>3. o[i] = gmem.out[i]
        BY <1>7, <2>1, <3>2
      <3> QED BY <1>3, <1>4, <2>3, <3>3
    <2> QED BY <2>2, <2>3
  <1>12. ResultHolds'
    <2>1. host'.pass = 3
      BY <1>1
    <2> QED BY <1>1, <1>4, <1>8, <1>11, <2>1, SameSweep DEF ResultHolds
  <1>13. ~ (host'.pass \in {1, 2})
    BY <1>1
  <1> QED BY <1>9, <1>10, <1>12, <1>13 DEF SweepInv

\* The next kernel starts with what the last has left.
LEMMA PassStep ==
  ASSUME Scan!SizesAssumption, SweepInv, Scan!NextPass
  PROVE  SweepInv'
  <1> DEFINE B == Scan!Elems
             k == ScanBlock \div WarpSize
             m == Scan!NumBlocks
             blocks == IF host'.pass = 2 THEN 1 ELSE m
             last == Scan!LastRound
  <1>1. /\ host.pass < 4 /\ host' = [host EXCEPT !.pass = @ + 1] /\ gmem' = gmem
        /\ \A w \in Scan!Warps : round[w] = (IF host.pass = 3 THEN 0 ELSE last) + 1
        /\ smem' = [b
             \in 0..(IF host'.pass = 2 THEN 1 ELSE Scan!NumBlocks) - 1 |-> [i \in 0..B - 1 |-> 0]]
        /\ round' = IF host'.pass = 4 THEN Scan!NoKernel
                    ELSE [w \in Scan!Grid(IF host'.pass = 2 THEN 1 ELSE Scan!NumBlocks, k) |-> 0]
    BY DEF Scan!NextPass, Scan!KernelEnded, Scan!Shared, Scan!Array, Scan!Launched
  <1>2. SweepTypes /\ TotalsHold /\ PartialsHold /\ PrefixesHold /\ ResultHolds
        /\ (host.pass \in {1, 2} => SweepRounds)
    BY DEF SweepInv
  <1>3. host \in [pass : 1..4, n : ScanSizes]
    BY <1>2 DEF SweepTypes
  <1>4. host'.n = host.n /\ host'.pass = host.pass + 1 /\ host.pass \in {1, 2, 3}
        /\ host' \in [pass : 1..4, n : ScanSizes]
    BY <1>1, <1>3
  <1>5. /\ Scan!NumBlocks' = m /\ BlocksOf' = blocks /\ Scan!Elems' = B /\ Scan!LastRound' = last
        /\ Scan!Levels' = Scan!Levels /\ ScanGrid' = Scan!Grid(blocks, k)
    BY <1>4 DEF Scan!NumBlocks, BlocksOf, Scan!CeilDiv, Scan!Elems, Scan!LastRound, Scan!Levels,
                Scan!Log2,
                ScanGrid, Scan!Grid
  <1>6. \A i : SumBelow(i)' = SumBelow(i) /\ Partial(i)' = Partial(i) /\ TotalOf(i)' = TotalOf(i)
    BY <1>4, <1>5 DEF SumBelow, Partial, TotalOf
  <1>7. \A w : OutOf(w)' = OutOf(w) /\ Scan!Own(w)' = Scan!Own(w)
    BY <1>4, <1>5 DEF OutOf, Scan!Own, Scan!Lanes
  <1>8. /\ host.n \in Nat /\ m \in Nat \ {0} /\ m <= B
        /\ \A i \in 0..host.n - 1 : \E b \in 0..m - 1, t \in 0..B - 1 : i = b * B + t
        /\ \A b \in 0..BlocksOf - 1 : << b, 0 >> \in ScanGrid
    BY <1>2, SweepPlaces
  <1>9. B \in Nat \ {0} /\ Scan!Levels \in Nat \ {0} /\ last = 2 * Scan!Levels + 1 /\ last \in Nat
    BY SweepLevels
  <1>10. \A w \in ScanGrid : round[w] = (IF host.pass = 3 THEN 0 ELSE last) + 1
    <2>1. Scan!Warps = ScanGrid
      BY <1>2, <1>4 DEF SweepRounds, ResultHolds, Scan!Warps
    <2> QED BY <1>1, <2>1
  <1> HIDE DEF B, m, last, k
  <1>11. ASSUME NEW i \in 0..host.n - 1, host.pass \in {1, 3}
         PROVE \E w \in ScanGrid : i \in OutOf(w)
    <2>1. PICK b \in 0..m - 1, t \in 0..B - 1 : i = b * B + t
      BY <1>8
    <2>2. b \in 0..BlocksOf - 1
      BY <1>11 DEF BlocksOf, m
    <2>3. PICK w \in ScanGrid : w[1] = b /\ t \in Scan!Own(w)
      BY <1>2, <2>2, OwnAll DEF B
    <2>4. i - w[1] * B = t
      <3> DEFINE x == b * B
      <3>1. x \in Nat /\ i = x + t /\ w[1] * B = x
        BY <1>8, <1>9, <2>1, <2>3
      <3> HIDE DEF x
      <3> QED BY <3>1
    <2>5. i \in OutOf(w)
      BY <2>3, <2>4 DEF OutOf, B
    <2> QED BY <2>5
  <1>12. SweepTypes'
    <2>1. smem' \in [0..blocks - 1 -> [0..B - 1 -> Int]]
      BY <1>1 DEF m
    <2>2. gmem' \in [out : [0..host.n - 1 -> Int], block_sums : [0..m - 1 -> Int],
                     block_prefixes : [0..m - 1 -> Int]]
      BY <1>1, <1>2 DEF SweepTypes, m
    <2> QED BY <1>4, <1>5, <2>1, <2>2 DEF SweepTypes
  <1>13. TotalsHold'
    <2>1. ASSUME NEW b \in 0..m - 1 PROVE gmem.block_sums[b] = TotalOf(b)
      <3>1. host.pass > 1 \/ round[<< b, 0 >>] > Scan!Levels
        <4>1. CASE host.pass = 1
          <5>1. << b, 0 >> \in ScanGrid
            BY <1>8, <4>1 DEF BlocksOf, m
          <5> QED BY <1>9, <1>10, <4>1, <5>1
        <4> QED BY <1>4, <4>1
      <3> QED BY <1>2, <3>1 DEF TotalsHold, m
    <2> QED BY <1>1, <1>5, <1>6, <2>1 DEF TotalsHold
  <1>14. ASSUME host.pass # 3 PROVE round' = [w \in ScanGrid' |-> 0]
    BY <1>1, <1>4, <1>5, <1>14 DEF m
  <1>15. PartialsHold'
    <2> SUFFICES ASSUME host'.pass = 2 PROVE \A i \in 0..host.n - 1 : gmem.out[i] = Partial(i)
      BY <1>1, <1>4, <1>6 DEF PartialsHold
    <2> TAKE i \in 0..host.n - 1
    <2>1. host.pass = 1
      BY <1>4
    <2>2. PICK w \in ScanGrid : i \in OutOf(w)
      BY <1>11, <2>1
    <2>3. round[w] = Scan!LastRound + 1
      BY <1>10, <2>1 DEF last
    <2> QED BY <1>2, <2>1, <2>2, <2>3 DEF PartialsHold
  <1>16. PrefixesHold'
    <2>1. ASSUME host'.pass = 2, NEW w \in ScanGrid', round'[w] = last + 1 PROVE FALSE
      BY <1>4, <1>9, <1>14, <2>1
    <2>2. ASSUME host'.pass > 2, NEW b \in 0..m - 1 PROVE gmem.block_prefixes[b] = SumBelow(b * B)
      <3>1. CASE host.pass > 2
        BY <1>2, <3>1 DEF PrefixesHold, m, B
      <3>2. CASE ~ (host.pass > 2)
        <4>1. host.pass = 2 /\ 0 \in 0..BlocksOf - 1
          BY <1>4, <2>2, <3>2 DEF BlocksOf
        <4>2. b \in 0..B - 1 /\ b < m
          BY <1>8, <1>9
        <4>3. PICK w \in ScanGrid : w[1] = 0 /\ b \in Scan!Own(w)
          BY <1>2, <4>1, <4>2, OwnAll DEF B
        <4>4. round[w] = Scan!LastRound + 1
          BY <1>10, <4>1 DEF last
        <4> QED BY <1>2, <4>1, <4>2, <4>3, <4>4 DEF PrefixesHold, m, B
      <3> QED BY <3>1, <3>2
    <2> QED BY <1>1, <1>5, <1>6, <1>7, <2>1, <2>2 DEF PrefixesHold
  <1>17. ResultHolds'
    <2>1. ASSUME host'.pass = 3
          PROVE  /\ round' \in [ScanGrid' -> 0..1]
                 /\ \A w \in ScanGrid' : \A i \in OutOf(w) :
                      gmem.out[i] = IF round'[w] = 1 THEN SumBelow(i) ELSE Partial(i)
      <3>1. round' = [w \in ScanGrid' |-> 0] /\ host.pass = 2
        BY <1>4, <1>14, <2>1
      <3>2. \A w : \A i \in OutOf(w) : gmem.out[i] = Partial(i)
        BY <1>2, <3>1 DEF PartialsHold, OutOf
      <3> QED BY <3>1, <3>2
    <2>2. ASSUME host'.pass = 4
          PROVE  round' = Scan!NoKernel /\ \A i \in 0..host.n - 1 : gmem.out[i] = SumBelow(i)
      <3>1. host.pass = 3 /\ round' = Scan!NoKernel
        BY <1>1, <1>4, <2>2
      <3>2. ASSUME NEW i \in 0..host.n - 1 PROVE gmem.out[i] = SumBelow(i)
        <4>1. PICK w \in ScanGrid : i \in OutOf(w)
          BY <1>11, <3>1
        <4>2. round[w] = 1
          BY <1>10, <3>1
        <4> QED BY <1>2, <3>1, <4>1, <4>2 DEF ResultHolds
      <3> QED BY <3>1, <3>2
    <2>3. Scan!NoKernel' = Scan!NoKernel
      BY DEF Scan!NoKernel
    <2> QED BY <1>1, <1>4, <1>6, <1>7, <2>1, <2>2, <2>3 DEF ResultHolds
  <1>18. ASSUME host'.pass \in {1, 2} PROVE SweepRounds' /\ Contents'
    <2>1. round' = [w \in ScanGrid' |-> 0]
      BY <1>4, <1>14, <1>18
    <2>2. SweepRounds'
      BY <1>5, <1>9, <2>1 DEF SweepRounds
    <2>3. \A w \in ScanGrid' : \A i : RoundOf(w, i)' = 0
      BY <2>1 DEF RoundOf
    <2>4. Contents'
      BY <2>3 DEF Contents
    <2> QED BY <2>2, <2>4
  <1> QED BY <1>12, <1>13, <1>15, <1>16, <1>17, <1>18 DEF SweepInv

\* Nothing is loaded at first.
LEMMA SweepInit == ASSUME Scan!SizesAssumption, Scan!Init PROVE SweepInv
  <1> DEFINE B == Scan!Elems
             m == Scan!NumBlocks
  <1>1. /\ host \in [pass : {1}, n : ScanSizes] /\ host.pass = 1
        /\ gmem = [out |-> [i \in 0..host.n - 1 |-> 0], block_sums |-> [i \in 0..m - 1 |-> 0],
                   block_prefixes |-> [i \in 0..m - 1 |-> 0]]
        /\ smem = [b \in 0..m - 1 |-> [i \in 0..B - 1 |-> 0]]
        /\ round = [w \in Scan!Grid(m, ScanBlock \div WarpSize) |-> 0]
    BY DEF Scan!Init, Scan!Array, Scan!Shared, Scan!Launched
  <1>2. BlocksOf = m /\ round = [w \in ScanGrid |-> 0] /\ host \in [pass : 1..4, n : ScanSizes]
    BY <1>1 DEF BlocksOf, ScanGrid
  <1>3. Scan!LastRound \in Nat /\ Scan!Levels \in Nat
    BY SweepLevels
  <1>4. SweepTypes
    <2> HIDE DEF B, m
    <2>1. smem \in [0..m - 1 -> [0..B - 1 -> Int]]
      BY <1>1
    <2>2. gmem \in [out : [0..host.n - 1 -> Int], block_sums : [0..m - 1 -> Int],
                    block_prefixes : [0..m - 1 -> Int]]
      BY <1>1
    <2> QED BY <1>2, <2>1, <2>2 DEF SweepTypes, m, B
  <1>5. \A b \in 0..m - 1 : << b, 0 >> \in ScanGrid
    BY <1>2, <1>4, SweepPlaces
  <1> HIDE DEF m, B
  <1>6. SweepRounds
    BY <1>2, <1>3 DEF SweepRounds
  <1>7. Contents
    <2>1. \A w \in ScanGrid : \A i : RoundOf(w, i) = 0
      BY <1>2 DEF RoundOf
    <2> QED BY <2>1 DEF Contents
  <1>8. TotalsHold
    BY <1>1, <1>2, <1>3, <1>5 DEF TotalsHold, m
  <1>9. PartialsHold /\ PrefixesHold /\ ResultHolds
    <2>1. \A w \in ScanGrid : round[w] # Scan!LastRound + 1
      BY <1>2, <1>3
    <2> QED BY <1>1, <2>1 DEF PartialsHold, PrefixesHold, ResultHolds
  <1> QED BY <1>4, <1>6, <1>7, <1>8, <1>9 DEF SweepInv

\* Every step keeps the invariant.
LEMMA SweepStep ==
  ASSUME Scan!SizesAssumption, SweepInv, Scan!Next \/ UNCHANGED << host, gmem, smem, reg, round >>
  PROVE  SweepInv'
  <1>1. CASE UNCHANGED << host, gmem, smem, reg, round >>
    <2>1. /\ host' = host /\ gmem' = gmem /\ smem' = smem /\ round' = round
      BY <1>1
    <2>2. SweepTypes' /\ TotalsHold' /\ PartialsHold' /\ PrefixesHold' /\ ResultHolds'
      <3>1. Scan!NoKernel' = Scan!NoKernel
        BY DEF Scan!NoKernel
      <3> QED BY <2>1, <3>1, SameSweep DEF SweepInv, SweepTypes, TotalsHold, PartialsHold,
                                           PrefixesHold, ResultHolds
    <2>3. ASSUME host'.pass \in {1, 2} PROVE SweepRounds' /\ Contents'
      <3>1. SweepRounds /\ Contents
        BY <2>1, <2>3 DEF SweepInv
      <3>2. SweepRounds'
        BY <2>1, <3>1, SameSweep DEF SweepRounds
      <3>3. \A w, i : RoundOf(w, i)' = RoundOf(w, i)
        BY <2>1, SameSweep DEF RoundOf
      <3>4. \A w : Scan!Synced(w)' <=> Scan!Synced(w)
        BY <2>1 DEF Scan!Synced, Scan!Warps
      <3>5. Contents'
        BY <2>1, <3>1, <3>3, <3>4, SameSweep DEF Contents
      <3> QED BY <3>2, <3>5
    <2> QED BY <2>2, <2>3 DEF SweepInv
  <1>2. CASE Scan!Next
    <2>1. CASE Scan!NextPass
      BY <2>1, PassStep
    <2>2. CASE ~ Scan!NextPass
      <3>1. PICK w \in Scan!Warps :
              Scan!Load(w) \/ Scan!UpSweep(w) \/ Scan!DownSweep(w) \/ Scan!Store(w)
              \/ Scan!Propagate(w)
        BY <1>2, <2>2 DEF Scan!Next
      <3> QED BY <3>1, LoadStep, UpStep, DownStep, StoreStep, PropagateStep
    <2> QED BY <2>1, <2>2
  <1> QED BY <1>1, <1>2

\* Once the last kernel has ended the array holds what exclusive_scan_cpu computes.
LEMMA ScanResult == ASSUME Scan!SizesAssumption, SweepInv PROVE Scan!ScanCorrect
  <1>1. SweepTypes /\ ResultHolds
    BY DEF SweepInv
  <1> DEFINE n == host.n
             h == Scan!Reference
             Sum(f) == [i \in 0..n |-> IF i = 0 THEN 0 ELSE f[i - 1] + Scan!Input(i - 1)]
             g == [i \in 0..n |-> SumBelow(i)]
  <1>2. n \in Nat
    BY <1>1, SweepPlaces
  <1>3. /\ SumBelow(0) = 0
        /\ \A i \in Nat : i < n => SumBelow(i + 1) = SumBelow(i) + Scan!Input(i)
    BY <1>2, SumFacts
  <1>4. h = CHOOSE f : f = Sum(f)
    BY DEF Scan!Reference
  <1>5. ASSUME NEW i \in 0..n, i # 0
        PROVE  i - 1 \in 0..n /\ SumBelow(i) = SumBelow(i - 1) + Scan!Input(i - 1)
    <2>1. i - 1 \in Nat /\ i - 1 \in 0..n /\ i - 1 < n /\ i - 1 + 1 = i
      BY <1>2, <1>5
    <2>2. SumBelow(i - 1 + 1) = SumBelow(i - 1) + Scan!Input(i - 1)
      BY <1>3, <2>1
    <2> QED BY <2>1, <2>2
  <1> HIDE DEF n
  <1>6. g = Sum(g)
    <2>1. \A i \in 0..n : g[i] = IF i = 0 THEN 0 ELSE g[i - 1] + Scan!Input(i - 1)
      BY <1>3, <1>5
    <2>2. g = [i \in 0..n |-> g[i]]
      OBVIOUS
    <2> HIDE DEF g
    <2> QED BY <2>1, <2>2
  <1>7. h = Sum(h)
    <2> HIDE DEF g, h, Sum
    <2> QED BY <1>4, <1>6
  <1> DEFINE bad == { i \in 0..n : h[i] # SumBelow(i) }
  <1>8. bad = {}
    <2> SUFFICES ASSUME bad # {} PROVE FALSE
      OBVIOUS
    <2>1. bad \subseteq Nat
      BY <1>2
    <2>2. PICK i \in bad : \A j \in bad : i <= j
      <3> HIDE DEF bad
      <3> QED BY <2>1, LeastOf
    <2>3. i \in 0..n /\ h[i] # SumBelow(i)
      BY <2>2
    <2>4. h[i] = IF i = 0 THEN 0 ELSE h[i - 1] + Scan!Input(i - 1)
      <3>1. Sum(h)[i] = IF i = 0 THEN 0 ELSE h[i - 1] + Scan!Input(i - 1)
        BY <2>3
      <3> HIDE DEF h, Sum
      <3> QED BY <1>7, <3>1
    <2> HIDE DEF h
    <2>5. i # 0
      BY <1>3, <2>3, <2>4
    <2>6. i - 1 \in 0..n /\ SumBelow(i) = SumBelow(i - 1) + Scan!Input(i - 1)
      BY <1>5, <2>3, <2>5
    <2>7. ~ (i <= i - 1)
      BY <1>2, <2>3
    <2>8. h[i - 1] = SumBelow(i - 1)
      BY <2>2, <2>6, <2>7
    <2> QED BY <2>3, <2>4, <2>5, <2>6, <2>8
  <1>9. \A i \in 0..n - 1 : i \in 0..n /\ h[i] = SumBelow(i)
    <2>1. \A i \in 0..n - 1 : i \in 0..n
      BY <1>2
    <2> HIDE DEF h
    <2> QED BY <1>8, <2>1
  <1> QED BY <1>1, <1>9 DEF ResultHolds, Scan!ScanCorrect, n
-------------------------------------------------------------------------------
(* cooperative_sync: what the tree sums                                    *)

\* A thread's group, its rank there, and how far apart the ranks are whose sum it has.
SizeIn(s)    == IF s.phase = "tile" THEN TileSize ELSE GroupBlock
RankIn(t, s) == IF s.phase = "tile" THEN t % TileSize ELSE t
StrideOf(s)  == IF s.pc \in {"return", "done"} THEN 1 ELSE 2 * s.span

\* Twice the sum of r, r + m, r + 2 * m, ..., the k of them below n, is twice x.
SumFrom(n, m, r, x) == \E k \in Nat : n = m * k /\ 2 * x = 2 * r * k + n * (k - 1)

\* What a thread in state s and its element, x, hold: when it comes to a level, the first
\* ranks have sums, and the elements of as many after them what their threads came with
\* to the level before.
LevelHolds(t, s, x) ==
  /\ s.pc \in {"store", "add"} => \E j \in Nat : s.span = 2^j
  /\ s.pc \in {"store", "add", "return"} /\ RankIn(t, s) < StrideOf(s) =>
       SumFrom(SizeIn(s), StrideOf(s), RankIn(t, s), s.seed)
  /\ s.pc = "add" => x = s.seed
  /\ s.pc \in {"store", "return", "done"} /\ StrideOf(s) <= RankIn(t, s)
       /\ RankIn(t, s) < 2 * StrideOf(s) =>
       SumFrom(SizeIn(s), 2 * StrideOf(s), RankIn(t, s), x)

\* What its calls have returned.
BlockSum(t) == IF t % GroupBlock = 0 THEN Groups!SumOfRanks(GroupBlock) ELSE -1
TileSum(t)  == IF t % TileSize = 0 THEN Groups!SumOfRanks(TileSize) ELSE -1

GatheredHolds(t, s) ==
  s.gathered = IF s.pc = "done" THEN << BlockSum(t), TileSum(t) >>
               ELSE IF s.pc = "split" \/ s.phase = "tile" THEN << BlockSum(t) >>
               ELSE << >>

SumsInv ==
  /\ GroupInv
  /\ \A t \in Groups!Thread : LevelHolds(t, reg[t], smem[t]) /\ GatheredHolds(t, reg[t])

\* A power of 2 has a half, until it is 1.
LEMMA HalfOfPower ==
  ASSUME NEW j \in Nat, NEW s, s = 2^j
  PROVE  /\ s \in Nat \ {0}
         /\ s \div 2 > 0 => 2 * (s \div 2) = s /\ \E i \in Nat : s \div 2 = 2^i
         /\ ~ (s \div 2 > 0) => s = 1
  <1>1. s \in Nat \ {0} /\ 2^0 = 1
    BY Powers
  <1>2. CASE j = 0
    <2>1. s = 1
      BY <1>1, <1>2
    <2> QED BY <2>1
  <1>3. CASE j # 0
    <2> DEFINE h == 2^(j - 1)
    <2>1. j - 1 \in Nat /\ (j - 1) + 1 = j
      BY <1>3
    <2>2. h \in Nat \ {0} /\ 2^((j - 1) + 1) = 2 * h
      BY <2>1, Powers
    <2>3. s = 2 * h
      BY <2>1, <2>2
    <2>4. \E i \in Nat : h = 2^i
      BY <2>1
    <2> HIDE DEF h
    <2>5. s \div 2 = h
      BY <2>2, <2>3
    <2> QED BY <2>2, <2>3, <2>4, <2>5
  <1> QED BY <1>2, <1>3

\* The sizes of the groups are powers of 2 above 1.
LEMMA GroupSizes ==
  ASSUME Groups!SizesAssumption
  PROVE  \A n \in {GroupBlock, TileSize} :
           /\ n \in Nat \ {0} /\ 2 * (n \div 2) = n /\ \E j \in Nat : n \div 2 = 2^j
  <1>1. ASSUME NEW n \in Nat, NEW j \in 1..n, 2^j = n
        PROVE  n \in Nat \ {0} /\ 2 * (n \div 2) = n /\ \E i \in Nat : n \div 2 = 2^i
    <2>1. j \in Nat /\ j # 0
      OBVIOUS
    <2>2. j - 1 \in Nat /\ (j - 1) + 1 = j
      BY <2>1
    <2> DEFINE h == 2^(j - 1)
    <2>3. h \in Nat \ {0} /\ 2^((j - 1) + 1) = 2 * h
      BY <2>2, Powers
    <2>4. n = 2 * h /\ \E i \in Nat : h = 2^i
      BY <1>1, <2>2, <2>3
    <2> HIDE DEF h
    <2>5. n \div 2 = h
      BY <2>3, <2>4
    <2> QED BY <2>3, <2>4, <2>5
  <1>2. /\ GroupBlock \in Nat /\ TileSize \in Nat
        /\ \E j \in 1..GroupBlock : 2^j = GroupBlock
        /\ \E j \in 1..TileSize : 2^j = TileSize
    BY DEF Groups!SizesAssumption
  <1> QED BY <1>1, <1>2

\* A rank alone is its own sum,
LEMMA SumOfOne == ASSUME NEW n \in Nat, NEW r \in Nat PROVE SumFrom(n, n, r, r)
  <1>1. n = n * 1 /\ 2 * r = 2 * r * 1 + n * (1 - 1)
    OBVIOUS
  <1> QED BY <1>1 DEF SumFrom

\* two sums at twice the stride are one,
LEMMA SumJoins ==
  ASSUME NEW n \in Nat, NEW s \in Nat \ {0}, NEW r \in Nat, NEW x \in Int, NEW y \in Int,
         SumFrom(n, 2 * s, r, x), SumFrom(n, 2 * s, r + s, y)
  PROVE  SumFrom(n, s, r, x + y)
  <1>1. PICK k \in Nat : n = (2 * s) * k /\ 2 * x = 2 * r * k + n * (k - 1)
    BY DEF SumFrom
  <1>2. PICK i \in Nat : n = (2 * s) * i /\ 2 * y = 2 * (r + s) * i + n * (i - 1)
    BY DEF SumFrom
  <1>3. i = k
    <2>1. ASSUME NEW a \in Nat, NEW b \in Nat, a < b PROVE (2 * s) * a # (2 * s) * b
      <3>1. (2 * s) * b = (2 * s) * a + (2 * s) * (b - a)
        OBVIOUS
      <3>2. (2 * s) * (b - a) > 0
        BY <2>1
      <3>3. (2 * s) * a \in Nat /\ (2 * s) * (b - a) \in Int
        OBVIOUS
      <3> QED BY <3>1, <3>2, <3>3
    <2> QED BY <1>1, <1>2, <2>1
  <1>4. n = s * (2 * k)
    BY <1>1
  <1> DEFINE p == r * k
             q == s * k
             m == n * k
  <1>5. p \in Int /\ q \in Int /\ m \in Int
    OBVIOUS
  <1>6. /\ 2 * r * k = 2 * p /\ n * (k - 1) = m - n /\ 2 * (r + s) * k = 2 * p + 2 * q
        /\ 2 * r * (2 * k) = 4 * p /\ n * (2 * k - 1) = 2 * m - n /\ (2 * s) * k = 2 * q
    OBVIOUS
  <1> HIDE DEF p, q, m
  <1>7. 2 * (x + y) = 4 * p + (2 * m - n)
    <2>1. 2 * x = 2 * p + (m - n) /\ 2 * y = 2 * p + 2 * q + (m - n) /\ n = 2 * q
      BY <1>1, <1>2, <1>3, <1>6
    <2> QED BY <1>5, <2>1
  <1>8. 2 * (x + y) = 2 * r * (2 * k) + n * (2 * k - 1)
    BY <1>6, <1>7
  <1>9. 2 * k \in Nat
    OBVIOUS
  <1> QED BY <1>4, <1>8, <1>9 DEF SumFrom

\* and at stride 1 it is the group's.
LEMMA SumOfAll ==
  ASSUME NEW n \in Nat, NEW x \in Int, SumFrom(n, 1, 0, x)
  PROVE  x = Groups!SumOfRanks(n)
  <1>1. PICK k \in Nat : n = 1 * k /\ 2 * x = 2 * 0 * k + n * (k - 1)
    BY DEF SumFrom
  <1> DEFINE y == n * (n - 1)
  <1>2. y \in Int /\ 2 * x = y
    <2>1. k = n
      BY <1>1
    <2> QED BY <1>1, <2>1
  <1> HIDE DEF y
  <1>3. x = y \div 2
    BY <1>2
  <1> QED BY <1>3 DEF y, Groups!SumOfRanks

\* A thread's rank is below the size of its group.
LEMMA GroupRank ==
  ASSUME Groups!SizesAssumption, NEW t \in Groups!Thread, NEW s
  PROVE  /\ t \in Nat /\ SizeIn(s) \in {GroupBlock, TileSize} /\ SizeIn(s) \in Nat \ {0}
         /\ RankIn(t, s) \in Nat /\ RankIn(t, s) < SizeIn(s)
  <1>1. PICK q \in Nat, r \in 0..TileSize - 1 : r = t % TileSize
    BY TileFacts
  <1>2. t \in Nat /\ TileSize \in Nat \ {0} /\ GroupBlock \in Nat
    BY TileFacts
  <1>3. t < GroupBlock /\ GroupBlock \in Nat \ {0}
    BY <1>2 DEF Groups!Thread
  <1>4. r \in Nat /\ r < TileSize
    BY <1>2
  <1> QED BY <1>1, <1>2, <1>3, <1>4 DEF SizeIn, RankIn

\* The thread whose element a thread adds is in its group, as many ranks on.
LEMMA AddedRank ==
  ASSUME Groups!SizesAssumption, GroupTypes, NEW t \in Groups!Thread, Groups!Reads(t),
         NEW u, u = t + reg[t].span
  PROVE  /\ u \in Groups!Thread /\ u \in Groups!Members(t)
         /\ ~ Groups!InTile(t) => u = t + reg[t].span
         /\ u % TileSize = (t % TileSize) + reg[t].span \/ ~ Groups!InTile(t)
         /\ u \div TileSize = t \div TileSize \/ ~ Groups!InTile(t)
  <1> DEFINE h == reg[t].span
  <1>1. /\ u \in Groups!Thread
        /\ Groups!InTile(t) => \E q \in Nat : /\ q = t \div TileSize /\ q * TileSize <= u
                                              /\ u < q * TileSize + TileSize
    BY ReadsInGroup
  <1>2. CASE Groups!InTile(t)
    <2>1. PICK q \in Nat : /\ q = t \div TileSize /\ q * TileSize <= u
                           /\ u < q * TileSize + TileSize
      BY <1>1, <1>2
    <2>2. PICK r \in 0..TileSize - 1 : /\ r = t % TileSize /\ t = q * TileSize + r
      BY <2>1, TileFacts
    <2>3. PICK p \in Nat, z \in 0..TileSize - 1 :
            p = u \div TileSize /\ z = u % TileSize /\ u = p * TileSize + z
      BY <1>1, TileFacts
    <2>4. TileSize \in Nat \ {0} /\ h \in Nat /\ u = t + h
      BY TileFacts DEF GroupTypes, ThreadState
    <2> HIDE DEF h
    <2>5. q * TileSize \in Nat
      BY <2>4
    <2>6. r + h \in 0..TileSize - 1 /\ u = q * TileSize + (r + h)
      BY <2>1, <2>2, <2>4, <2>5
    <2>7. p = q /\ z = r + h
      <3> DEFINE g == TileSize
                 y == r + h
      <3>1. g \in Nat \ {0} /\ y \in 0..g - 1 /\ z \in 0..g - 1 /\ p * g + z = q * g + y
        BY <2>3, <2>4, <2>6
      <3> HIDE DEF g, y
      <3>2. p = q /\ z = y
        BY ONLY <3>1, p \in Nat, q \in Nat, DigitsUnique
      <3> QED BY <3>2 DEF y
    <2>8. u \div TileSize = t \div TileSize /\ u % TileSize = (t % TileSize) + h
      BY <2>1, <2>2, <2>3, <2>7
    <2> QED BY <1>1, <1>2, <2>8 DEF h, Groups!Members
  <1>3. CASE ~ Groups!InTile(t)
    BY <1>1, <1>3 DEF Groups!Members
  <1> QED BY <1>2, <1>3

\* When a thread adds, the element it reads has the sum that is due: its thread has come
\* to the sync between with it, or is past it and did not add itself.
LEMMA AddedSum ==
  ASSUME Groups!SizesAssumption, SumsInv, NEW t \in Groups!Thread, Groups!Reads(t),
         Groups!GroupSynced(t)
  PROVE  LET h == reg[t].span IN
           /\ t + h \in Groups!Thread /\ smem[t + h] \in Int
           /\ SumFrom(SizeIn(reg[t]), 2 * h, RankIn(t, reg[t]) + h, smem[t + h])
  <1> DEFINE h == reg[t].span
             u == t + h
             s == reg[t]
             v == reg[u]
             r == RankIn(t, s)
  <1>1. GroupInv /\ GroupTypes /\ s.pc = "add" /\ s \in ThreadState /\ r < h
    BY DEF SumsInv, GroupInv, GroupTypes, Groups!Reads, Groups!Rank, Groups!InTile, RankIn
  <1>2. PICK j \in Nat : h = 2^j
    BY <1>1 DEF SumsInv, LevelHolds
  <1>3. /\ h \in Nat \ {0} /\ (h \div 2 > 0 => 2 * (h \div 2) = h)
        /\ (~ (h \div 2 > 0) => h = 1)
    BY <1>2, HalfOfPower
  <1>4. /\ u \in Groups!Thread /\ u \in Groups!Members(t)
        /\ u % TileSize = (t % TileSize) + h \/ ~ Groups!InTile(t)
        /\ u \div TileSize = t \div TileSize \/ ~ Groups!InTile(t)
    BY <1>1, AddedRank
  <1>5. v \in ThreadState /\ smem[u] \in Int /\ round[u] \in Nat /\ round[t] \in Nat
    BY <1>1, <1>4 DEF GroupTypes
  <1>6. InOneGroup(u, t)
    BY <1>1, <1>4 DEF InOneGroup, AtPhase, Groups!InTile, ThreadState
  <1>7. InStep(u, t) /\ round[u] >= round[t]
    BY <1>1, <1>4, <1>6 DEF GroupInv, Groups!GroupSynced
  <1>8. AtPc(t) = "add" /\ AtPhase(t) = s.phase /\ AtSpan(t) = h
    BY <1>1 DEF AtPc, AtPhase, AtSpan
  <1>9. v.phase = s.phase => RankIn(u, v) = r + h /\ SizeIn(v) = SizeIn(s)
    BY <1>4 DEF RankIn, SizeIn, Groups!InTile
  <1>10. r \in Nat
    BY GroupRank
  <1>11. LevelHolds(u, v, smem[u])
    BY <1>4 DEF SumsInv
  <1>12. CASE round[u] = round[t]
    <2>1. AtPc(u) = "add" /\ AtPhase(u) = s.phase /\ AtSpan(u) = h
      BY <1>7, <1>8, <1>12 DEF InStep, Abreast
    <2>2. v.pc = "add" /\ v.phase = s.phase /\ v.span = h
      BY <2>1 DEF AtPc, AtPhase, AtSpan
    <2>3. RankIn(u, v) = r + h /\ SizeIn(v) = SizeIn(s) /\ StrideOf(v) = 2 * h
      BY <1>9, <2>2 DEF StrideOf
    <2>4. r + h < 2 * h
      BY <1>1, <1>3, <1>10
    <2>5. SumFrom(SizeIn(s), 2 * h, r + h, v.seed) /\ smem[u] = v.seed
      BY <1>11, <2>2, <2>3, <2>4 DEF LevelHolds
    <2> QED BY <1>4, <1>5, <2>5
  <1>13. CASE round[u] # round[t]
    <2>1. round[u] = round[t] + 1
      BY <1>5, <1>7, <1>13 DEF InStep
    <2>2. /\ AtPhase(u) = s.phase /\ AtSpan(u) = h \div 2
          /\ AtPc(u) = IF h \div 2 > 0 THEN "store" ELSE "return"
      BY <1>7, <1>8, <2>1 DEF InStep, Follows
    <2>3. v.pc # "split"
      <3> SUFFICES ASSUME v.pc = "split" PROVE FALSE
        OBVIOUS
      <3>1. s.phase = "tile" /\ TileSize \div 2 = h \div 2
        BY <2>2 DEF AtPhase, AtSpan
      <3>2. 2 * h <= TileSize /\ 2 * (TileSize \div 2) = TileSize
        BY <1>1, <3>1, GroupSizes DEF GroupTypes, Groups!InTile
      <3>3. h \div 2 \in Nat /\ 2 * (h \div 2) <= h
        BY <1>3
      <3> QED BY <1>3, <3>1, <3>2, <3>3
    <2>4. v.phase = s.phase /\ v.span = h \div 2
          /\ v.pc \in IF h \div 2 > 0 THEN {"store"} ELSE {"return", "done"}
      BY <2>2, <2>3 DEF AtPhase, AtSpan, AtPc
    <2>5. v.pc \in {"store", "return", "done"} /\ StrideOf(v) = h
      BY <1>3, <2>4 DEF StrideOf
    <2>6. RankIn(u, v) = r + h /\ SizeIn(v) = SizeIn(s)
      BY <1>9, <2>4
    <2>7. h <= r + h /\ r + h < 2 * h
      BY <1>1, <1>3, <1>10
    <2>8. SumFrom(SizeIn(s), 2 * h, r + h, smem[u])
      BY <1>11, <2>5, <2>6, <2>7 DEF LevelHolds
    <2> QED BY <1>4, <1>5, <2>8
  <1> QED BY <1>12, <1>13

\* A sequence of two.
LEMMA AppendTwo ==
  ASSUME NEW a \in Int, NEW b \in Int PROVE Append(<< a >>, b) = << a, b >>
  <1> DEFINE g == Append(<< a >>, b)
  <1>1. << a >> \in Seq(Int) /\ Len(<< a >>) = 1
    OBVIOUS
  <1>2. g \in Seq(Int) /\ Len(g) = 2
    BY <1>1
  <1>3. g[1] = a /\ g[2] = b
    BY <1>1
  <1> HIDE DEF g
  <1>4. g = << a, b >>
    BY <1>2, <1>3
  <1> QED BY <1>4 DEF g

\* The others' states and elements are as they were.
OthersKept(t) ==
  \A u \in Groups!Thread : u # t => reg'[u] = reg[u] /\ smem'[u] = smem[u]

\* A store brings a thread's element to its sum,
LEMMA StoreSums ==
  ASSUME Groups!SizesAssumption, SumsInv, NEW t \in Groups!Thread, Groups!Store(t)
  PROVE  OthersKept(t) /\ LevelHolds(t, reg'[t], smem'[t]) /\ GatheredHolds(t, reg'[t])
  <1>1. /\ reg[t].pc = "store" /\ reg' = [reg EXCEPT ![t].pc = "add"]
        /\ smem' = [smem EXCEPT ![t] = reg[t].seed]
    BY SlotIs DEF Groups!Store, Groups!At
  <1>2. reg \in [Groups!Thread -> ThreadState] /\ smem \in [Groups!Thread -> Int]
    BY DEF SumsInv, GroupInv, GroupTypes
  <1>3. OthersKept(t) /\ smem'[t] = reg[t].seed /\ reg'[t] = [reg[t] EXCEPT !.pc = "add"]
    BY <1>1, <1>2 DEF OthersKept
  <1>4. /\ reg'[t].pc = "add" /\ reg'[t].span = reg[t].span /\ reg'[t].seed = reg[t].seed
        /\ reg'[t].phase = reg[t].phase /\ reg'[t].gathered = reg[t].gathered
    BY <1>2, <1>3 DEF ThreadState
  <1>5. /\ StrideOf(reg'[t]) = StrideOf(reg[t]) /\ SizeIn(reg'[t]) = SizeIn(reg[t])
        /\ RankIn(t, reg'[t]) = RankIn(t, reg[t])
    BY <1>1, <1>4 DEF StrideOf, SizeIn, RankIn
  <1>6. LevelHolds(t, reg[t], smem[t]) /\ GatheredHolds(t, reg[t])
    BY DEF SumsInv
  <1>7. LevelHolds(t, reg'[t], smem'[t])
    BY <1>1, <1>3, <1>4, <1>5, <1>6 DEF LevelHolds
  <1>8. GatheredHolds(t, reg'[t])
    BY <1>1, <1>4, <1>6 DEF GatheredHolds
  <1> QED BY <1>3, <1>7, <1>8

\* an addition joins two of them,
LEMMA AddSums ==
  ASSUME Groups!SizesAssumption, SumsInv, NEW t \in Groups!Thread, Groups!Add(t)
  PROVE  OthersKept(t) /\ LevelHolds(t, reg'[t], smem'[t]) /\ GatheredHolds(t, reg'[t])
  <1> DEFINE s == reg[t]
             h == s.span
             x == Groups!Sum(t)
             l == IF h \div 2 > 0 THEN "store" ELSE "return"
             r == RankIn(t, s)
             n == SizeIn(s)
  <1>1. /\ s.pc = "add" /\ Groups!GroupSynced(t) /\ smem' = smem
        /\ reg' = [reg EXCEPT ![t].seed = x, ![t].span = @ \div 2, ![t].pc = l]
    BY DEF Groups!Add, Groups!Added, Groups!At
  <1>2. reg \in [Groups!Thread -> ThreadState] /\ smem \in [Groups!Thread -> Int]
        /\ s \in ThreadState
    BY DEF SumsInv, GroupInv, GroupTypes
  <1>3. OthersKept(t) /\ reg'[t] = [s EXCEPT !.seed = x, !.span = @ \div 2, !.pc = l]
    BY <1>1, <1>2 DEF OthersKept
  <1>4. /\ reg'[t].pc = l /\ reg'[t].span = h \div 2 /\ reg'[t].seed = x
        /\ reg'[t].phase = s.phase /\ reg'[t].gathered = s.gathered
    BY <1>2, <1>3 DEF ThreadState
  <1>5. LevelHolds(t, s, smem[t]) /\ GatheredHolds(t, s)
    BY DEF SumsInv
  <1>6. PICK j \in Nat : h = 2^j
    BY <1>1, <1>5 DEF LevelHolds
  <1>7. /\ h \in Nat \ {0} /\ (h \div 2 > 0 => 2 * (h \div 2) = h /\ \E i \in Nat : h \div 2 = 2^i)
        /\ (~ (h \div 2 > 0) => h = 1)
    BY <1>6, HalfOfPower
  <1>8. r \in Nat /\ n \in Nat /\ r = Groups!Rank(t)
    BY GroupRank DEF RankIn, Groups!Rank, Groups!InTile
  <1>9. StrideOf(s) = 2 * h /\ StrideOf(reg'[t]) = h
    BY <1>1, <1>4, <1>7 DEF StrideOf
  <1>10. SizeIn(reg'[t]) = n /\ RankIn(t, reg'[t]) = r
    BY <1>4 DEF SizeIn, RankIn
  <1>11. ASSUME r < h PROVE SumFrom(n, h, r, x)
    <2>1. Groups!Reads(t)
      BY <1>1, <1>8, <1>11 DEF Groups!Reads
    <2>2. t + h \in Groups!Thread /\ smem[t + h] \in Int /\ SumFrom(n, 2 * h, r + h, smem[t + h])
      BY <1>1, <2>1, AddedSum
    <2>3. x = s.seed + smem[t + h]
      BY <2>1, SlotIs DEF Groups!Sum
    <2>4. SumFrom(n, 2 * h, r, s.seed) /\ s.seed \in Int
      <3>1. r < 2 * h
        BY <1>7, <1>8, <1>11
      <3>2. s.seed \in Int
        BY <1>2 DEF ThreadState
      <3> QED BY <1>1, <1>5, <1>9, <3>1, <3>2 DEF LevelHolds
    <2> HIDE DEF s, h, x, l, r, n
    <2> QED BY <1>7, <1>8, <2>2, <2>3, <2>4, SumJoins
  <1>12. ASSUME h <= r, r < 2 * h PROVE SumFrom(n, 2 * h, r, smem[t])
    BY <1>1, <1>5, <1>9, <1>12 DEF LevelHolds
  <1>13. LevelHolds(t, reg'[t], smem'[t])
    <2>1. l = "store" => \E i \in Nat : h \div 2 = 2^i
      BY <1>7
    <2>2. l \in {"store", "return"}
      OBVIOUS
    <2> HIDE DEF s, h, x, l, r, n
    <2> QED BY <1>1, <1>4, <1>9, <1>10, <1>11, <1>12, <2>1, <2>2 DEF LevelHolds
  <1>14. GatheredHolds(t, reg'[t])
    BY <1>1, <1>4, <1>5 DEF GatheredHolds
  <1> QED BY <1>3, <1>13, <1>14

\* and at the end rank 0 has that of its group.
LEMMA ReturnSums ==
  ASSUME Groups!SizesAssumption, SumsInv, NEW t \in Groups!Thread, Groups!Return(t)
  PROVE  OthersKept(t) /\ LevelHolds(t, reg'[t], smem'[t]) /\ GatheredHolds(t, reg'[t])
  <1> DEFINE s == reg[t]
             v == IF Groups!Rank(t) = 0 THEN s.seed ELSE -1
             l == IF Groups!InTile(t) THEN "done" ELSE "split"
             g == Append(s.gathered, v)
  <1>1. /\ s.pc = "return" /\ smem' = smem
        /\ reg' = [reg EXCEPT ![t].gathered = g, ![t].pc = l]
    BY DEF Groups!Return, Groups!At
  <1>2. reg \in [Groups!Thread -> ThreadState] /\ smem \in [Groups!Thread -> Int]
        /\ s \in ThreadState
    BY DEF SumsInv, GroupInv, GroupTypes
  <1>3. OthersKept(t) /\ reg'[t] = [s EXCEPT !.gathered = g, !.pc = l]
    BY <1>1, <1>2 DEF OthersKept
  <1>4. /\ reg'[t].pc = l /\ reg'[t].span = s.span /\ reg'[t].seed = s.seed
        /\ reg'[t].phase = s.phase /\ reg'[t].gathered = g
    BY <1>2, <1>3 DEF ThreadState
  <1>5. LevelHolds(t, s, smem[t]) /\ GatheredHolds(t, s)
    BY DEF SumsInv
  <1>6. v = IF RankIn(t, s) = 0 THEN Groups!SumOfRanks(SizeIn(s)) ELSE -1
    <2> SUFFICES ASSUME RankIn(t, s) = 0 PROVE s.seed = Groups!SumOfRanks(SizeIn(s))
      BY DEF RankIn, Groups!Rank, Groups!InTile
    <2>1. SumFrom(SizeIn(s), 1, 0, s.seed)
      BY <1>1, <1>5 DEF LevelHolds, StrideOf
    <2>2. SizeIn(s) \in Nat /\ s.seed \in Int
      BY <1>2, GroupRank DEF ThreadState
    <2> HIDE DEF s
    <2> QED BY <2>1, <2>2, SumOfAll
  <1>7. CASE Groups!InTile(t)
    <2>1. s.phase = "tile" /\ l = "done"
      BY <1>7 DEF Groups!InTile
    <2>2. v = TileSum(t) /\ s.gathered = << BlockSum(t) >>
      BY <1>1, <1>5, <1>6, <2>1 DEF RankIn, SizeIn, TileSum, GatheredHolds
    <2>3. g = << BlockSum(t), TileSum(t) >>
      <3>1. v \in Int /\ s.gathered \in Seq(Int)
        BY <1>2 DEF ThreadState
      <3> HIDE DEF v, s
      <3>2. s.gathered[1] \in Int /\ s.gathered[1] = BlockSum(t)
        BY <2>2, <3>1
      <3> QED BY <2>2, <3>1, <3>2, AppendTwo
    <2>4. GatheredHolds(t, reg'[t])
      BY <1>4, <2>1, <2>3 DEF GatheredHolds
    <2>5. LevelHolds(t, reg'[t], smem'[t])
      BY <1>1, <1>4, <1>5, <2>1 DEF LevelHolds, StrideOf, RankIn, SizeIn
    <2> QED BY <1>3, <2>4, <2>5
  <1>8. CASE ~ Groups!InTile(t)
    <2>1. s.phase # "tile" /\ l = "split"
      BY <1>8 DEF Groups!InTile
    <2>2. t % GroupBlock = t
      <3>1. t \in Nat /\ GroupBlock \in Nat \ {0} /\ t < GroupBlock
        BY TileFacts DEF Groups!Thread
      <3> QED BY <3>1
    <2>3. v = BlockSum(t) /\ s.gathered = << >>
      BY <1>1, <1>5, <1>6, <2>1, <2>2 DEF RankIn, SizeIn, BlockSum, GatheredHolds
    <2>4. g = << BlockSum(t) >>
      BY <2>3
    <2>5. GatheredHolds(t, reg'[t])
      BY <1>4, <2>1, <2>4 DEF GatheredHolds
    <2>6. LevelHolds(t, reg'[t], smem'[t])
      BY <1>4, <2>1 DEF LevelHolds
    <2> QED BY <1>3, <2>5, <2>6
  <1> QED BY <1>7, <1>8

\* A tile's call begins as the block's did.
LEMMA SplitSums ==
  ASSUME Groups!SizesAssumption, SumsInv, NEW t \in Groups!Thread, Groups!Split(t)
  PROVE  OthersKept(t) /\ LevelHolds(t, reg'[t], smem'[t]) /\ GatheredHolds(t, reg'[t])
  <1> DEFINE s == reg[t]
             r == t % TileSize
             h == TileSize \div 2
  <1>1. /\ s.pc = "split" /\ smem' = smem
        /\ reg' = [reg EXCEPT ![t].phase = "tile", ![t].seed = r, ![t].span = h, ![t].pc = "store"]
    BY DEF Groups!Split, Groups!At
  <1>2. reg \in [Groups!Thread -> ThreadState] /\ smem \in [Groups!Thread -> Int]
        /\ s \in ThreadState
    BY DEF SumsInv, GroupInv, GroupTypes
  <1>3. /\ OthersKept(t)
        /\ reg'[t] = [s EXCEPT !.phase = "tile", !.seed = r, !.span = h, !.pc = "store"]
    BY <1>1, <1>2 DEF OthersKept
  <1>4. /\ reg'[t].pc = "store" /\ reg'[t].span = h /\ reg'[t].seed = r
        /\ reg'[t].phase = "tile" /\ reg'[t].gathered = s.gathered
    BY <1>2, <1>3 DEF ThreadState
  <1>5. /\ TileSize \in Nat /\ 2 * h = TileSize /\ \E j \in Nat : h = 2^j
    BY GroupSizes
  <1>6. /\ StrideOf(reg'[t]) = TileSize /\ SizeIn(reg'[t]) = TileSize /\ RankIn(t, reg'[t]) = r
    BY <1>4, <1>5 DEF StrideOf, SizeIn, RankIn
  <1>7. r \in Nat /\ r < TileSize
    BY <1>6, GroupRank
  <1>8. SumFrom(TileSize, TileSize, r, r)
    BY <1>5, <1>7, SumOfOne
  <1>9. GatheredHolds(t, s)
    BY DEF SumsInv
  <1>10. GatheredHolds(t, reg'[t])
    BY <1>1, <1>4, <1>9 DEF GatheredHolds
  <1> HIDE DEF s, r, h
  <1>11. LevelHolds(t, reg'[t], smem'[t])
    BY <1>4, <1>5, <1>6, <1>7, <1>8 DEF LevelHolds
  <1> QED BY <1>3, <1>10, <1>11

\* The sums hold at the start,
LEMMA SumsInit == ASSUME Groups!SizesAssumption, Groups!Init PROVE SumsInv
  <1> SUFFICES ASSUME NEW t \in Groups!Thread
               PROVE  LevelHolds(t, reg[t], smem[t]) /\ GatheredHolds(t, reg[t])
    BY GroupInit DEF SumsInv
  <1> DEFINE h == GroupBlock \div 2
  <1>1. /\ reg[t].pc = "store" /\ reg[t].span = h /\ reg[t].seed = t
        /\ reg[t].phase = "block" /\ reg[t].gathered = << >>
    BY DEF Groups!Init
  <1>2. GroupBlock \in Nat /\ 2 * h = GroupBlock /\ \E j \in Nat : h = 2^j
    BY GroupSizes
  <1>3. StrideOf(reg[t]) = GroupBlock /\ SizeIn(reg[t]) = GroupBlock /\ RankIn(t, reg[t]) = t
    BY <1>1, <1>2 DEF StrideOf, SizeIn, RankIn
  <1>4. t \in Nat /\ t < GroupBlock
    BY <1>3, GroupRank
  <1>5. SumFrom(GroupBlock, GroupBlock, t, t)
    BY <1>2, <1>4, SumOfOne
  <1>6. GatheredHolds(t, reg[t])
    BY <1>1 DEF GatheredHolds
  <1> HIDE DEF h
  <1>7. LevelHolds(t, reg[t], smem[t])
    BY <1>1, <1>2, <1>3, <1>4, <1>5 DEF LevelHolds
  <1> QED BY <1>6, <1>7

\* at every step,
LEMMA SumsStep ==
  ASSUME Groups!SizesAssumption, SumsInv, [Groups!Next]_Groups!machine
  PROVE  SumsInv'
  <1>1. GroupInv'
    BY GroupStep DEF SumsInv
  <1>2. ASSUME NEW t \in Groups!Thread
        PROVE  LevelHolds(t, reg'[t], smem'[t]) /\ GatheredHolds(t, reg'[t])
    <2>1. LevelHolds(t, reg[t], smem[t]) /\ GatheredHolds(t, reg[t])
      BY DEF SumsInv
    <2>2. CASE UNCHANGED Groups!machine
      <3>1. reg' = reg /\ smem' = smem
        BY <2>2 DEF Groups!machine
      <3> QED BY <2>1, <3>1
    <2>3. CASE Groups!Next
      <3>1. PICK u \in Groups!Thread :
              Groups!Store(u) \/ Groups!Add(u) \/ Groups!Return(u) \/ Groups!Split(u)
        BY <2>3 DEF Groups!Next
      <3>2. OthersKept(u) /\ LevelHolds(u, reg'[u], smem'[u]) /\ GatheredHolds(u, reg'[u])
        BY <3>1, StoreSums, AddSums, ReturnSums, SplitSums
      <3>3. u # t => reg'[t] = reg[t] /\ smem'[t] = smem[t]
        BY <3>2 DEF OthersKept
      <3>4. CASE u = t
        BY <3>2, <3>4
      <3>5. CASE u # t
        BY <2>1, <3>3, <3>5
      <3> QED BY <3>4, <3>5
    <2> QED BY <2>2, <2>3
  <1>3. (\A t \in Groups!Thread : LevelHolds(t, reg[t], smem[t]) /\ GatheredHolds(t, reg[t]))'
    BY <1>2 DEF LevelHolds, GatheredHolds, SumFrom, StrideOf, SizeIn, RankIn, BlockSum, TileSum,
                Groups!SumOfRanks, Groups!Thread
  <1> QED BY <1>1, <1>3 DEF SumsInv

\* and are what the calls return.
LEMMA SumsRight == ASSUME SumsInv PROVE Groups!GroupSums
  <1> SUFFICES ASSUME NEW t \in Groups!Thread, NEW i \in 1..Len(reg[t].gathered)
               PROVE  reg[t].gathered[i]
                        = IF t % << GroupBlock, TileSize >>[i] = 0
                          THEN Groups!SumOfRanks(<< GroupBlock, TileSize >>[i]) ELSE -1
    BY DEF Groups!GroupSums
  <1> DEFINE g == reg[t].gathered
  <1>1. g = << >> \/ g = << BlockSum(t) >> \/ g = << BlockSum(t), TileSum(t) >>
    BY DEF SumsInv, GatheredHolds
  <1>2. << GroupBlock, TileSize >>[1] = GroupBlock /\ << GroupBlock, TileSize >>[2] = TileSize
    OBVIOUS
  <1>3. CASE g = << >>
    BY <1>3
  <1>4. CASE g = << BlockSum(t) >>
    <2>1. i = 1 /\ g[1] = BlockSum(t)
      BY <1>4
    <2> QED BY <1>2, <2>1 DEF BlockSum
  <1>5. CASE g = << BlockSum(t), TileSum(t) >>
    <2>1. (i = 1 /\ g[1] = BlockSum(t)) \/ (i = 2 /\ g[2] = TileSum(t))
      BY <1>5
    <2> QED BY <1>2, <2>1 DEF BlockSum, TileSum
  <1> QED BY <1>1, <1>3, <1>4, <1>5
-------------------------------------------------------------------------------
(* The kernels together                                                    *)

\* What is assumed of their sizes.
LEMMA SizesOfScans ==
  /\ Scan!SizesAssumption /\ Compact!SizesAssumption
  /\ TwoPass!SizesAssumption /\ Warp!SizesAssumption
  BY KernelAssumption

\* What the positions and the outputs of the compacting kernels depend on.
ScansInv ==
  /\ sample = "stream_compact" => CompactInv
  /\ sample = "stream_compact, two passes" => TwoPassInv
  /\ sample = "a warp's operations" => WarpInv
  /\ sample = "scan" => SweepInv

\* stream_compact: each passing element once and, after two passes, in the order of
\* the input; warp_aggregated_atomics_cg: each element its own position and the sum
\* of the weights before it; scan: before each element the sum that the host computes.
THEOREM ScansAreCorrect == Spec => []ScannedCorrectly
  <1>1. Init => ScansInv
    <2> SUFFICES ASSUME Init PROVE ScansInv
      OBVIOUS
    <2>1. sample = "stream_compact" => CompactInv
      BY SizesOfScans, CompactInit DEF Init
    <2>2. sample = "stream_compact, two passes" => TwoPassInv
      BY SizesOfScans, TwoPassInit DEF Init
    <2>3. sample = "a warp's operations" => WarpInv
      BY SizesOfScans, WarpInit DEF Init
    <2>4. sample = "scan" => SweepInv
      BY SizesOfScans, SweepInit DEF Init
    <2> QED BY <2>1, <2>2, <2>3, <2>4 DEF ScansInv
  <1>2. ScansInv /\ [Next]_vars => ScansInv'
    <2> SUFFICES ASSUME ScansInv, [Next]_vars PROVE ScansInv'
      OBVIOUS
    <2>1. sample' = sample
      BY DEF Next, vars
    <2>2. sample = "stream_compact" => CompactInv'
      <3> SUFFICES ASSUME sample = "stream_compact" PROVE CompactInv'
        OBVIOUS
      <3>1. [Compact!Next]_Compact!machine
        BY DEF Next, vars, Compact!machine
      <3> QED BY <3>1, SizesOfScans, CompactStep DEF ScansInv
    <2>3. sample = "stream_compact, two passes" => TwoPassInv'
      <3> SUFFICES ASSUME sample = "stream_compact, two passes" PROVE TwoPassInv'
        OBVIOUS
      <3>1. [TwoPass!Next]_TwoPass!machine
        BY DEF Next, vars, TwoPass!machine
      <3> QED BY <3>1, SizesOfScans, TwoPassStep DEF ScansInv
    <2>4. sample = "a warp's operations" => WarpInv'
      <3> SUFFICES ASSUME sample = "a warp's operations" PROVE WarpInv'
        OBVIOUS
      <3>1. [Warp!Next]_Warp!machine
        BY DEF Next, vars, Warp!machine
      <3> QED BY <3>1, SizesOfScans, WarpStep DEF ScansInv
    <2>5. sample = "scan" => SweepInv'
      <3> SUFFICES ASSUME sample = "scan" PROVE SweepInv'
        OBVIOUS
      <3>1. Scan!Next \/ UNCHANGED << host, gmem, smem, reg, round >>
        BY DEF Next, vars
      <3> QED BY <3>1, SizesOfScans, SweepStep DEF ScansInv
    <2> QED BY <2>1, <2>2, <2>3, <2>4, <2>5 DEF ScansInv
  <1>3. ScansInv => ScannedCorrectly
    BY SizesOfScans, CompactCorrect, TwoPassCorrect, WarpClaims, ScanResult
       DEF ScansInv, ScannedCorrectly
  <1> QED BY <1>1, <1>2, <1>3, PTL DEF Spec

\* cooperative_sync: what tree_sum returns to rank 0 of the block and of each tile is
\* the sum of its group's ranks, and to every other thread -1.
THEOREM GroupsSumRanks == Spec => [](sample = "cooperative_sync" => Reduced)
  <1> DEFINE Inv == sample = "cooperative_sync" => SumsInv
  <1>1. Init => Inv
    BY Sizes, SumsInit DEF Init
  <1>2. Inv /\ [Next]_vars => Inv'
    <2> SUFFICES ASSUME Inv, [Next]_vars, sample' = "cooperative_sync" PROVE SumsInv'
      OBVIOUS
    <2>1. sample = "cooperative_sync"
      BY DEF Next, vars
    <2>2. SumsInv /\ [Groups!Next]_Groups!machine
      BY <2>1 DEF Next, vars, Groups!machine
    <2> QED BY <2>2, Sizes, SumsStep
  <1>3. Inv => (sample = "cooperative_sync" => Reduced)
    BY SumsRight DEF Reduced
  <1> QED BY <1>1, <1>2, <1>3, PTL DEF Spec
===============================================================================
