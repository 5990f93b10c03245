---------------------------- MODULE KernelProofs -----------------------------
(***************************************************************************)
(* The properties of KernelMachines, for every value of its constants: any *)
(* number of threads and warps, any lengths and inputs, and any programs   *)
(* that enforce their order.                                               *)
(*                                                                         *)
(* What carries the arguments:                                             *)
(*   A block's program: a thread past a barrier's step has been waited for *)
(*     by all that meet there, the arrive-wait barrier counts what is due  *)
(*     of threads and of links in its phase, and so of two accesses in     *)
(*     conflict the first is done when the second comes; a location then   *)
(*     holds what is done of its accesses.                                 *)
(*   cooperative_sync: in one reduction two threads of a group are in step *)
(*     or one has passed a sync that the other has yet to pass, and no     *)
(*     thread is in a tile before all have left the block's reduction.     *)
(*   block_sort_merge and scan: between the same barriers two lanes work   *)
(*     at one stride, each with the first of a pair and the element that   *)
(*     many places on, which no other lane has.                            *)
(*   stream_compact in one pass: the stretches that a counter has given   *)
(*     out with atomicAdd fill the numbers below it (Fill), one beside     *)
(*     another; what is at a place of a stretch is found by its rank       *)
(*     there. KernelScanProofs goes on from here.                          *)
(***************************************************************************)
EXTENDS KernelMachines, Sequences, FiniteSetTheorems, WellFoundedInduction, TLAPS

-------------------------------------------------------------------------------
(* A block's program: its loads                                            *)

\* The finite sets of the blocks' programs are those of the library.
LEMMA SameSets ==
  ASSUME NEW S
  PROVE  Block!Cardinality(S) = Cardinality(S) /\ (Block!IsFiniteSet(S) <=> IsFiniteSet(S))
  BY DEF Block!Cardinality, Cardinality, Block!IsFiniteSet, IsFiniteSet

\* The library's facts about them.
LEMMA SetSize ==
  ASSUME NEW S, Block!IsFiniteSet(S)
  PROVE  Block!Cardinality(S) \in Nat
  BY SameSets, FS_CardinalityType

\* The empty set is the only one of size 0.
LEMMA EmptySetSize ==
  /\ Block!Cardinality({}) = 0 /\ Block!IsFiniteSet({})
  /\ \A S : Block!IsFiniteSet(S) => (Block!Cardinality(S) = 0 <=> S = {})
  BY SameSets, FS_EmptySet

\* The size of an interval,
LEMMA IntervalSize ==
  ASSUME NEW a \in Int, NEW b \in Int
  PROVE  /\ Block!IsFiniteSet(a..b)
         /\ Block!Cardinality(a..b) = IF a > b THEN 0 ELSE b - a + 1
  BY SameSets, FS_Interval

\* of a subset,
LEMMA SubsetSize ==
  ASSUME NEW S, Block!IsFiniteSet(S), NEW T \in SUBSET S
  PROVE  /\ Block!IsFiniteSet(T)
         /\ Block!Cardinality(T) <= Block!Cardinality(S)
         /\ Block!Cardinality(S) = Block!Cardinality(T) => S = T
  BY SameSets, FS_Subset

\* of a set with an element added,
LEMMA SetWithOneMore ==
  ASSUME NEW S, NEW x, Block!IsFiniteSet(S)
  PROVE  /\ Block!IsFiniteSet(S \cup {x})
         /\ Block!Cardinality(S \cup {x}) =
              IF x \in S THEN Block!Cardinality(S) ELSE Block!Cardinality(S) + 1
  BY SameSets, FS_AddElement

\* of a set with an element taken away,
LEMMA SetWithOneLess ==
  ASSUME NEW S, NEW x, Block!IsFiniteSet(S)
  PROVE  /\ Block!IsFiniteSet(S \ {x})
         /\ Block!Cardinality(S \ {x}) =
              IF x \in S THEN Block!Cardinality(S) - 1 ELSE Block!Cardinality(S)
  BY SameSets, FS_RemoveElement

\* and the product of two finite sets.
LEMMA ProductSize ==
  ASSUME NEW S, Block!IsFiniteSet(S), NEW T, Block!IsFiniteSet(T)
  PROVE  Block!IsFiniteSet(S \X T)
  BY SameSets, FS_Product

\* A nonempty set of natural numbers has a least element.
LEMMA LeastOf ==
  ASSUME NEW S, S \subseteq Nat, S # {}
  PROVE  \E x \in S : \A y \in S : x <= y
  <1>1. PICK x \in S : \A y \in S : ~ (<< y, x >> \in OpToRel(<, Nat))
    BY WFMin, NatLessThanWellFounded, Zenon
  <1>2. \A y \in S : ~ (y < x)
    BY <1>1 DEF OpToRel
  <1>3. \A y \in S : x <= y
    BY <1>2
  <1> QED BY <1>3

\* The step a thread takes next is the first of its steps from some step on.
LEMMA StepFromFacts ==
  ASSUME NEW p, Block!WellFormed(p), NEW t \in Block!ThreadsOf(p), NEW i \in 1..Len(p) + 1
  PROVE  LET s == Block!StepFrom(p, t, i) IN
           /\ s \in i..Len(p) + 1
           /\ s = Len(p) + 1 \/ Block!Takes(p, t, s)
           /\ \A j \in i..Len(p) : Block!Takes(p, t, j) => s <= j
  <1> DEFINE mine == { j \in i..Len(p) : Block!Takes(p, t, j) } \cup {Len(p) + 1}
  <1>1. Len(p) \in Nat
    BY DEF Block!WellFormed
  <1>2. mine \subseteq Nat /\ mine # {}
    BY <1>1
  <1>3. \E x \in mine : \A y \in mine : x <= y
    <2> HIDE DEF mine
    <2> QED BY <1>2, LeastOf
  <1>4. Block!StepFrom(p, t, i) = CHOOSE j \in mine : \A l \in mine : j <= l
    BY DEF Block!StepFrom
  <1>5. Block!StepFrom(p, t, i) \in mine /\ \A l \in mine : Block!StepFrom(p, t, i) <= l
    <2> HIDE DEF mine
    <2> QED BY <1>3, <1>4, Zenon
  <1> QED BY <1>1, <1>5

-------------------------------------------------------------------------------
\* The state a block's program is in has the types of the program.
Typed(p) ==
  /\ Block!WellFormed(p) /\ p = Block!Program
  /\ round \in [Block!ThreadsOf(p) -> 1..Len(p) + 1]
  /\ \A t \in Block!ThreadsOf(p) : round[t] = Len(p) + 1 \/ Block!Takes(p, t, round[t])
  /\ reg \in [copies : SUBSET (Block!ThreadsOf(p) \X (1..Len(p))),
              links : SUBSET (Block!ThreadsOf(p) \X (1..Len(p))), state : [Block!ThreadsOf(p) -> Nat]]
  /\ gmem \in [phase : Nat, pending : Int]
  /\ \A c \in reg.copies :
       p[c[2]].op = "copy" /\ Block!Takes(p, c[1], c[2]) /\ round[c[1]] > c[2]
  /\ \A c \in reg.links :
       p[c[2]].op = "link" /\ Block!Takes(p, c[1], c[2]) /\ round[c[1]] > c[2]

\* A thread that is past a sync has been waited for, and waits, there.
SyncsPassed(p) ==
  \A t \in Block!ThreadsOf(p), k \in 1..Len(p) :
    p[k].op = "sync" /\ Block!Takes(p, t, k) /\ round[t] > k =>
      \A u \in p[k].on[t] : round[u] >= k

\* A thread that is past a wait for its groups has no copies of those on their way.
GroupsWaited(p) ==
  \A t \in Block!ThreadsOf(p), k \in 1..Len(p) :
    p[k].op = "wait group" /\ Block!Takes(p, t, k) /\ round[t] > k =>
      \A c \in reg.copies :
        c[1] = t /\ c[2] < k => Block!Cardinality(Block!Committed(p, t, c[2], k)) <= p[k].n

\* Thread t takes its step.
Moves(p, t, i) ==
  /\ t \in Block!ThreadsOf(p) /\ i \in 1..Len(p) /\ i = round[t] /\ Block!Takes(p, t, i)
  /\ round' = [round EXCEPT ![t] = Block!StepFrom(p, t, i + 1)]
  /\ UNCHANGED host

\* The steps that a thread is past are those it was past and the one it takes.
LEMMA MovesOn ==
  ASSUME NEW CONSTANT p, Typed(p), NEW t, NEW i, Moves(p, t, i)
  PROVE  /\ round' \in [Block!ThreadsOf(p) -> 1..Len(p) + 1]
         /\ \A u \in Block!ThreadsOf(p) : round'[u] = Len(p) + 1 \/ Block!Takes(p, u, round'[u])
         /\ \A u \in Block!ThreadsOf(p) : round'[u] >= round[u]
         /\ \A u \in Block!ThreadsOf(p) : u # t => round'[u] = round[u]
         /\ \A u \in Block!ThreadsOf(p), k \in 1..Len(p) :
              Block!Takes(p, u, k) => (round'[u] > k <=> round[u] > k \/ (u = t /\ k = i))
  <1>1. Len(p) \in Nat /\ t \in Block!ThreadsOf(p) /\ i \in 1..Len(p) /\ i = round[t]
    BY DEF Typed, Block!WellFormed, Moves
  <1> DEFINE s == Block!StepFrom(p, t, i + 1)
  <1>2. /\ s \in i + 1..Len(p) + 1 /\ (s = Len(p) + 1 \/ Block!Takes(p, t, s))
        /\ \A j \in i + 1..Len(p) : Block!Takes(p, t, j) => s <= j
    <2>1. i + 1 \in 1..Len(p) + 1
      BY <1>1
    <2> QED BY <1>1, <2>1, StepFromFacts DEF Typed
  <1>3. round \in [Block!ThreadsOf(p) -> 1..Len(p) + 1] /\ round' = [round EXCEPT ![t] = s]
    BY DEF Typed, Moves
  <1> HIDE DEF s
  <1>4. round'[t] = s /\ \A u \in Block!ThreadsOf(p) : u # t => round'[u] = round[u]
    BY <1>1, <1>3
  <1>5. round' \in [Block!ThreadsOf(p) -> 1..Len(p) + 1]
    BY <1>1, <1>2, <1>3
  <1>6. \A u \in Block!ThreadsOf(p) : round'[u] = Len(p) + 1 \/ Block!Takes(p, u, round'[u])
    BY <1>2, <1>4 DEF Typed
  <1>7. \A u \in Block!ThreadsOf(p) : round'[u] >= round[u]
    <2> SUFFICES ASSUME NEW u \in Block!ThreadsOf(p) PROVE round'[u] >= round[u]
      OBVIOUS
    <2>1. round[u] \in 1..Len(p) + 1
      BY <1>3
    <2>2. CASE u = t
      BY <1>1, <1>2, <1>4, <2>2
    <2>3. CASE u # t
      BY <1>1, <1>4, <2>1, <2>3
    <2> QED BY <2>2, <2>3
  <1>8. ASSUME NEW u \in Block!ThreadsOf(p), NEW k \in 1..Len(p), Block!Takes(p, u, k)
        PROVE  round'[u] > k <=> round[u] > k \/ (u = t /\ k = i)
    <2>1. CASE u = t
      <3>1. k \in i + 1..Len(p) => s <= k
        BY <1>2, <1>8, <2>1
      <3> QED BY <1>1, <1>2, <1>4, <2>1, <3>1
    <2>2. CASE u # t
      BY <1>4, <2>2
    <2> QED BY <2>1, <2>2
  <1> QED BY <1>4, <1>5, <1>6, <1>7, <1>8

\* A thread that does something takes its step.
LEMMA DoesMoves ==
  ASSUME NEW CONSTANT p, Typed(p), NEW t \in Block!Threads, NEW op, Block!Does(t, op)
  PROVE  Moves(p, t, round[t]) /\ p[round[t]].op = op /\ p' = Block!Program'
  <1>1. t \in Block!ThreadsOf(p) /\ round[t] \in 1..Len(p) + 1 /\ Len(p) \in Nat /\ p = Block!Program
    BY DEF Typed, Block!Threads, Block!WellFormed
  <1>2. round[t] # Len(p) + 1 /\ p[round[t]].op = op /\ UNCHANGED host
        /\ round' = [round EXCEPT ![t] = Block!StepFrom(p, t, round[t] + 1)]
    BY <1>1 DEF Block!Does, Block!Ends
  <1>3. Block!Takes(p, t, round[t])
    BY <1>1, <1>2 DEF Typed
  <1> QED BY <1>1, <1>2, <1>3 DEF Moves, Block!Program

\* What the steps of threads leave of the state, by what they do.
Effect(p, t, i) ==
  \/ /\ p[i].op \in {"load", "sync", "return", "commit", "wait group", "test wait"}
     /\ UNCHANGED << smem, gmem, reg >>
  \/ /\ p[i].op = "store" /\ smem' = Block!Overwritten(t, i)
     /\ UNCHANGED << gmem, reg >>
  \/ /\ p[i].op = "add" /\ UNCHANGED << gmem, reg >>
     /\ smem' = [l \in DOMAIN smem |->
                   IF l \in p[i].on[t] THEN smem[l] \cup {<< t, i >>} ELSE smem[l]]
  \/ /\ p[i].op = "copy" /\ UNCHANGED << smem, gmem >>
     /\ reg' = [reg EXCEPT !.copies = @ \cup {<< t, i >>}]
  \/ /\ p[i].op = "awbar init" /\ UNCHANGED << smem, reg >>
     /\ gmem' = [phase |-> 0, pending |-> p[i].n]
  \/ /\ p[i].op = "link" /\ UNCHANGED smem /\ gmem' = Block!Expecting(gmem)
     /\ reg' = [reg EXCEPT !.links = @ \cup {<< t, i >>}]
  \/ /\ p[i].op = "arrive" /\ UNCHANGED smem
     /\ gmem' = Block!Arrived(gmem, Block!Cardinality(Block!Threads))
     /\ reg' = [reg EXCEPT !.state[t] = gmem.phase]

\* What a thread waits for when it takes its step.
Waits(p, t, i) ==
  /\ p[i].op = "sync" => \A u \in p[i].on[t] : round[u] >= i
  /\ p[i].op = "wait group" =>
       \A c \in reg.copies : c[1] = t => Block!Cardinality(Block!Committed(p, t, c[2], i)) <= p[i].n
  /\ p[i].op = "test wait" => gmem.phase # reg.state[t]

\* A step of the machine is a thread's, or ends a copy or a linked arrival.
LEMMA Steps ==
  ASSUME NEW CONSTANT p, Typed(p), Block!Next
  PROVE  \/ \E t, i : Moves(p, t, i) /\ Effect(p, t, i) /\ Waits(p, t, i)
         \/ \E c \in reg.copies : Block!CopyLands(c[1], c[2])
         \/ \E c \in reg.links : Block!LinkArrives(c[1], c[2])
  <1>1. ASSUME NEW t \in Block!Threads,
               \/ Block!Load(t) \/ Block!Store(t) \/ Block!AtomicAdd(t) \/ Block!Sync(t) \/ Block!Return(t)
               \/ Block!Copy(t) \/ Block!Commit(t) \/ Block!WaitGroup(t)
               \/ Block!InitAwbar(t) \/ Block!LinkCopies(t) \/ Block!ArriveAwbar(t) \/ Block!WaitAwbar(t)
        PROVE  \E u, i : Moves(p, u, i) /\ Effect(p, u, i) /\ Waits(p, u, i)
    <2> SUFFICES Moves(p, t, round[t]) /\ Effect(p, t, round[t]) /\ Waits(p, t, round[t])
      OBVIOUS
    <2>1. p = Block!Program
      BY DEF Typed
    <2>2. CASE Block!Load(t) \/ Block!Return(t) \/ Block!Commit(t)
      <3>1. PICK op \in {"load", "return", "commit"} : Block!Does(t, op)
        BY <2>2 DEF Block!Load, Block!Return, Block!Commit
      <3> QED BY <2>2, <3>1, DoesMoves DEF Block!Load, Block!Return, Block!Commit, Effect, Waits
    <2>3. CASE Block!Store(t)
      <3>1. Moves(p, t, round[t]) /\ p[round[t]].op = "store"
        <4>1. Block!Does(t, "store")
          BY <2>3 DEF Block!Store
        <4> QED BY <4>1, DoesMoves
      <3>2. Effect(p, t, round[t])
        BY <2>1, <2>3, <3>1 DEF Block!Store, Effect
      <3>3. Waits(p, t, round[t])
        BY <2>1, <2>3, <3>1 DEF Block!Store, Waits
      <3> QED BY <3>1, <3>2, <3>3
    <2>4. CASE Block!AtomicAdd(t)
      <3>1. Moves(p, t, round[t]) /\ p[round[t]].op = "add"
        <4>1. Block!Does(t, "add")
          BY <2>4 DEF Block!AtomicAdd
        <4> QED BY <4>1, DoesMoves
      <3>2. Effect(p, t, round[t])
        BY <2>1, <2>4, <3>1 DEF Block!AtomicAdd, Block!Targets, Effect
      <3>3. Waits(p, t, round[t])
        BY <2>1, <2>4, <3>1 DEF Block!AtomicAdd, Block!Targets, Waits
      <3> QED BY <3>1, <3>2, <3>3
    <2>5. CASE Block!Sync(t)
      <3>1. Moves(p, t, round[t]) /\ p[round[t]].op = "sync"
        <4>1. Block!Does(t, "sync")
          BY <2>5 DEF Block!Sync
        <4> QED BY <4>1, DoesMoves
      <3>2. Effect(p, t, round[t])
        BY <2>1, <2>5, <3>1 DEF Block!Sync, Block!Targets, Effect
      <3>3. Waits(p, t, round[t])
        BY <2>1, <2>5, <3>1 DEF Block!Sync, Block!Targets, Waits
      <3> QED BY <3>1, <3>2, <3>3
    <2>6. CASE Block!Copy(t)
      <3>1. Moves(p, t, round[t]) /\ p[round[t]].op = "copy"
        <4>1. Block!Does(t, "copy")
          BY <2>6 DEF Block!Copy
        <4> QED BY <4>1, DoesMoves
      <3>2. Effect(p, t, round[t])
        BY <2>1, <2>6, <3>1 DEF Block!Copy, Effect
      <3>3. Waits(p, t, round[t])
        BY <2>1, <2>6, <3>1 DEF Block!Copy, Waits
      <3> QED BY <3>1, <3>2, <3>3
    <2>7. CASE Block!WaitGroup(t)
      <3>1. Moves(p, t, round[t]) /\ p[round[t]].op = "wait group"
        <4>1. Block!Does(t, "wait group")
          BY <2>7 DEF Block!WaitGroup
        <4> QED BY <4>1, DoesMoves
      <3>2. Effect(p, t, round[t])
        BY <2>1, <2>7, <3>1 DEF Block!WaitGroup, Effect
      <3>3. Waits(p, t, round[t])
        BY <2>1, <2>7, <3>1 DEF Block!WaitGroup, Waits
      <3> QED BY <3>1, <3>2, <3>3
    <2>8. CASE Block!InitAwbar(t)
      <3>1. Moves(p, t, round[t]) /\ p[round[t]].op = "awbar init"
        <4>1. Block!Does(t, "awbar init")
          BY <2>8 DEF Block!InitAwbar
        <4> QED BY <4>1, DoesMoves
      <3>2. Effect(p, t, round[t])
        BY <2>1, <2>8, <3>1 DEF Block!InitAwbar, Effect
      <3>3. Waits(p, t, round[t])
        BY <2>1, <2>8, <3>1 DEF Block!InitAwbar, Waits
      <3> QED BY <3>1, <3>2, <3>3
    <2>9. CASE Block!LinkCopies(t)
      <3>1. Moves(p, t, round[t]) /\ p[round[t]].op = "link"
        <4>1. Block!Does(t, "link")
          BY <2>9 DEF Block!LinkCopies
        <4> QED BY <4>1, DoesMoves
      <3>2. Effect(p, t, round[t])
        BY <2>1, <2>9, <3>1 DEF Block!LinkCopies, Effect
      <3>3. Waits(p, t, round[t])
        BY <2>1, <2>9, <3>1 DEF Block!LinkCopies, Waits
      <3> QED BY <3>1, <3>2, <3>3
    <2>10. CASE Block!ArriveAwbar(t)
      <3>1. Moves(p, t, round[t]) /\ p[round[t]].op = "arrive"
        <4>1. Block!Does(t, "arrive")
          BY <2>10 DEF Block!ArriveAwbar
        <4> QED BY <4>1, DoesMoves
      <3>2. Effect(p, t, round[t])
        BY <2>1, <2>10, <3>1 DEF Block!ArriveAwbar, Effect
      <3>3. Waits(p, t, round[t])
        BY <2>1, <2>10, <3>1 DEF Block!ArriveAwbar, Waits
      <3> QED BY <3>1, <3>2, <3>3
    <2>11. CASE Block!WaitAwbar(t)
      <3>1. Moves(p, t, round[t]) /\ p[round[t]].op = "test wait"
        <4>1. Block!Does(t, "test wait")
          BY <2>11 DEF Block!WaitAwbar
        <4> QED BY <4>1, DoesMoves
      <3>2. Effect(p, t, round[t])
        BY <2>1, <2>11, <3>1 DEF Block!WaitAwbar, Effect
      <3>3. Waits(p, t, round[t])
        BY <2>1, <2>11, <3>1 DEF Block!WaitAwbar, Waits
      <3> QED BY <3>1, <3>2, <3>3
    <2> QED BY <1>1, <2>2, <2>3, <2>4, <2>5, <2>6, <2>7, <2>8, <2>9, <2>10, <2>11
  <1> QED BY <1>1 DEF Block!Next

\* The block has finitely many threads.
LEMMA BlockSize ==
  ASSUME NEW p, Typed(p)
  PROVE  Block!Threads = Block!ThreadsOf(p) /\ Block!IsFiniteSet(Block!Threads) /\ Block!Cardinality(Block!Threads) \in Nat
  <1>1. Block!Threads = Block!ThreadsOf(p) /\ Block!IsFiniteSet(Block!ThreadsOf(p))
    BY DEF Typed, Block!Threads, Block!WellFormed
  <1> QED BY <1>1, SetSize

RegTypes(p) ==
  [copies : SUBSET (Block!ThreadsOf(p) \X (1..Len(p))),
   links : SUBSET (Block!ThreadsOf(p) \X (1..Len(p))), state : [Block!ThreadsOf(p) -> Nat]]

\* What a step of a thread leaves of the copies and the links, and of the barrier.
RegMoves(p, t, i) ==
  /\ p[i].op = "copy" => reg'.copies = reg.copies \cup {<< t, i >>}
  /\ p[i].op # "copy" => reg'.copies = reg.copies
  /\ p[i].op = "link" => reg'.links = reg.links \cup {<< t, i >>}
  /\ p[i].op # "link" => reg'.links = reg.links

BarrierMoves(p, t, i) ==
  /\ p[i].op \notin {"awbar init", "link", "arrive"} => gmem' = gmem
  /\ p[i].op = "awbar init" => gmem'.phase = 0 /\ gmem'.pending = p[i].n
  /\ p[i].op = "link" => gmem' = Block!Expecting(gmem)
  /\ p[i].op = "arrive" => gmem' = Block!Arrived(gmem, Block!Cardinality(Block!Threads))

\* A step of a thread keeps the types of its registers and of the barrier.
LEMMA AllFields ==
  ASSUME NEW CONSTANT p, Typed(p), NEW t, NEW i, Moves(p, t, i), Effect(p, t, i)
  PROVE  /\ reg' \in RegTypes(p) /\ gmem' \in [phase : Nat, pending : Int]
         /\ RegMoves(p, t, i) /\ BarrierMoves(p, t, i)
  <1>1. /\ t \in Block!ThreadsOf(p) /\ i \in 1..Len(p) /\ << t, i >> \in Block!ThreadsOf(p) \X (1..Len(p))
        /\ p[i].n \in Nat
    BY DEF Moves, Typed, Block!WellFormed
  <1>2. reg \in RegTypes(p) /\ gmem \in [phase : Nat, pending : Int]
    BY DEF Typed, RegTypes
  <1>3. Block!Cardinality(Block!Threads) \in Nat
    BY BlockSize
  <1> SUFFICES /\ reg' \in RegTypes(p) /\ gmem' \in [phase : Nat, pending : Int]
               /\ p[i].op = "copy" => reg'.copies = reg.copies \cup {<< t, i >>}
               /\ p[i].op # "copy" => reg'.copies = reg.copies
               /\ p[i].op = "link" => reg'.links = reg.links \cup {<< t, i >>}
               /\ p[i].op # "link" => reg'.links = reg.links
               /\ p[i].op \notin {"awbar init", "link", "arrive"} => gmem' = gmem
               /\ p[i].op = "awbar init" => gmem'.phase = 0 /\ gmem'.pending = p[i].n
               /\ p[i].op = "link" => gmem' = Block!Expecting(gmem)
               /\ p[i].op = "arrive" => gmem' = Block!Arrived(gmem, Block!Cardinality(Block!Threads))
    BY DEF RegMoves, BarrierMoves
  <1>4. CASE p[i].op = "copy"
    <2>1. gmem' = gmem /\ reg' = [reg EXCEPT !.copies = @ \cup {<< t, i >>}]
      BY <1>4 DEF Effect
    <2>2. reg.copies \cup {<< t, i >>} \in SUBSET (Block!ThreadsOf(p) \X (1..Len(p)))
      BY <1>1, <1>2 DEF RegTypes
    <2>3. reg' \in RegTypes(p) /\ reg'.copies = reg.copies \cup {<< t, i >>}
          /\ reg'.links = reg.links /\ reg'.state = reg.state
      BY <1>2, <2>1, <2>2 DEF RegTypes
    <2> QED BY <1>2, <1>4, <2>1, <2>3
  <1>5. CASE p[i].op = "link"
    <2>1. gmem' = Block!Expecting(gmem) /\ reg' = [reg EXCEPT !.links = @ \cup {<< t, i >>}]
      BY <1>5 DEF Effect
    <2>2. reg.links \cup {<< t, i >>} \in SUBSET (Block!ThreadsOf(p) \X (1..Len(p)))
      BY <1>1, <1>2 DEF RegTypes
    <2>3. reg' \in RegTypes(p) /\ reg'.links = reg.links \cup {<< t, i >>}
          /\ reg'.copies = reg.copies /\ reg'.state = reg.state
      BY <1>2, <2>1, <2>2 DEF RegTypes
    <2>4. gmem' \in [phase : Nat, pending : Int]
      BY <1>2, <2>1 DEF Block!Expecting
    <2> QED BY <1>2, <1>5, <2>1, <2>3, <2>4
  <1>6. CASE p[i].op = "arrive"
    <2>1. gmem' = Block!Arrived(gmem, Block!Cardinality(Block!Threads)) /\ reg' = [reg EXCEPT !.state[t] = gmem.phase]
      BY <1>6 DEF Effect
    <2>2. [reg.state EXCEPT ![t] = gmem.phase] \in [Block!ThreadsOf(p) -> Nat]
      BY <1>1, <1>2 DEF RegTypes
    <2>3. reg' \in RegTypes(p) /\ reg'.links = reg.links /\ reg'.copies = reg.copies
          /\ reg'.state = [reg.state EXCEPT ![t] = gmem.phase]
      BY <1>2, <2>1, <2>2 DEF RegTypes
    <2>4. gmem' \in [phase : Nat, pending : Int]
      BY <1>2, <1>3, <2>1 DEF Block!Arrived
    <2> QED BY <1>2, <1>6, <2>1, <2>3, <2>4
  <1>7. CASE p[i].op = "awbar init"
    <2>1. gmem' = [phase |-> 0, pending |-> p[i].n] /\ reg' = reg
      BY <1>7 DEF Effect
    <2>2. gmem' \in [phase : Nat, pending : Int]
      BY <1>1, <2>1
    <2> QED BY <1>2, <1>7, <2>1, <2>2
  <1>8. CASE p[i].op \notin {"copy", "link", "arrive", "awbar init"}
    <2>1. gmem' = gmem /\ reg' = reg
      BY <1>8 DEF Effect
    <2> QED BY <1>2, <1>8, <2>1
  <1> QED BY <1>4, <1>5, <1>6, <1>7, <1>8

\* The copies and the links on their way after it.
LEMMA Fields ==
  ASSUME NEW CONSTANT p, Typed(p), NEW t, NEW i, Moves(p, t, i), Effect(p, t, i)
  PROVE  /\ reg' \in RegTypes(p) /\ gmem' \in [phase : Nat, pending : Int]
         /\ \A c : c \in reg'.copies <=> c \in reg.copies \/ (p[i].op = "copy" /\ c = << t, i >>)
         /\ \A c : c \in reg'.links <=> c \in reg.links \/ (p[i].op = "link" /\ c = << t, i >>)
  <1>1. reg' \in RegTypes(p) /\ gmem' \in [phase : Nat, pending : Int] /\ RegMoves(p, t, i)
    BY AllFields
  <1>2. \A c : c \in reg'.copies <=> c \in reg.copies \/ (p[i].op = "copy" /\ c = << t, i >>)
    BY <1>1 DEF RegMoves
  <1>3. \A c : c \in reg'.links <=> c \in reg.links \/ (p[i].op = "link" /\ c = << t, i >>)
    BY <1>1 DEF RegMoves
  <1> QED BY <1>1, <1>2, <1>3

\* What the end of a copy, and of a linked arrival, leaves.
LEMMA LandsFields ==
  ASSUME NEW CONSTANT p, Typed(p), NEW c \in reg.copies, Block!CopyLands(c[1], c[2])
  PROVE  /\ c = << c[1], c[2] >> /\ reg' \in RegTypes(p) /\ reg'.copies = reg.copies \ {c}
         /\ reg'.links = reg.links /\ reg'.state = reg.state
         /\ UNCHANGED << host, gmem, round >> /\ smem' = Block!Overwritten(c[1], c[2])
  <1>1. reg \in RegTypes(p)
    BY DEF Typed, RegTypes
  <1>2. c \in Block!ThreadsOf(p) \X (1..Len(p)) /\ c = << c[1], c[2] >>
    BY <1>1 DEF RegTypes
  <1>3. reg' = [reg EXCEPT !.copies = @ \ {<< c[1], c[2] >>}]
        /\ UNCHANGED << host, gmem, round >> /\ smem' = Block!Overwritten(c[1], c[2])
    BY DEF Block!CopyLands
  <1>4. reg' \in RegTypes(p) /\ reg'.copies = reg.copies \ {<< c[1], c[2] >>}
        /\ reg'.links = reg.links /\ reg'.state = reg.state
    <2>1. reg.copies \ {<< c[1], c[2] >>} \in SUBSET (Block!ThreadsOf(p) \X (1..Len(p)))
      BY <1>1 DEF RegTypes
    <2> QED BY <1>1, <1>3, <2>1 DEF RegTypes
  <1> QED BY <1>2, <1>3, <1>4

\* What the arrival of a link leaves.
LEMMA LinkFields ==
  ASSUME NEW CONSTANT p, Typed(p), NEW c \in reg.links, Block!LinkArrives(c[1], c[2])
  PROVE  /\ c = << c[1], c[2] >> /\ reg' \in RegTypes(p) /\ reg'.links = reg.links \ {c}
         /\ reg'.copies = reg.copies /\ reg'.state = reg.state
         /\ gmem' = Block!Arrived(gmem, Block!Cardinality(Block!Threads)) /\ gmem' \in [phase : Nat, pending : Int]
         /\ UNCHANGED << host, smem, round >>
         /\ \A d \in reg.copies : d[1] = c[1] => d[2] > c[2]
  <1>1. reg \in RegTypes(p) /\ gmem \in [phase : Nat, pending : Int]
    BY DEF Typed, RegTypes
  <1>2. c \in Block!ThreadsOf(p) \X (1..Len(p)) /\ c = << c[1], c[2] >>
    BY <1>1 DEF RegTypes
  <1>3. reg' = [reg EXCEPT !.links = @ \ {<< c[1], c[2] >>}]
        /\ UNCHANGED << host, smem, round >> /\ gmem' = Block!Arrived(gmem, Block!Cardinality(Block!Threads))
        /\ \A d \in reg.copies : d[1] = c[1] => d[2] > c[2]
    BY DEF Block!LinkArrives
  <1>4. reg' \in RegTypes(p) /\ reg'.links = reg.links \ {<< c[1], c[2] >>}
        /\ reg'.copies = reg.copies /\ reg'.state = reg.state
    <2>1. reg.links \ {<< c[1], c[2] >>} \in SUBSET (Block!ThreadsOf(p) \X (1..Len(p)))
      BY <1>1 DEF RegTypes
    <2> QED BY <1>1, <1>3, <2>1 DEF RegTypes
  <1>5. gmem' \in [phase : Nat, pending : Int]
    <2>1. Block!Cardinality(Block!Threads) \in Nat
      BY BlockSize
    <2> QED BY <1>1, <1>3, <2>1 DEF Block!Arrived
  <1> QED BY <1>2, <1>3, <1>4, <1>5

\* Every step keeps the types.
LEMMA TypedStep == ASSUME NEW CONSTANT p, Typed(p), Block!Next PROVE Typed(p)'
  <1>1. ASSUME NEW t, NEW i, Moves(p, t, i), Effect(p, t, i) PROVE Typed(p)'
    <2>1. Block!Program' = p
      BY <1>1 DEF Typed, Moves, Block!Program
    <2>2. ASSUME NEW c \in reg'.copies
          PROVE  p[c[2]].op = "copy" /\ Block!Takes(p, c[1], c[2]) /\ round'[c[1]] > c[2]
      <3>1. reg' \in RegTypes(p)
        BY <1>1, Fields
      <3>2. c[1] \in Block!ThreadsOf(p) /\ c[2] \in 1..Len(p)
        BY <3>1 DEF RegTypes
      <3>3. c \in reg.copies \/ (c = << t, i >> /\ p[i].op = "copy")
        BY <1>1, <2>2, Fields
      <3>4. p[c[2]].op = "copy" /\ Block!Takes(p, c[1], c[2])
            /\ (round[c[1]] > c[2] \/ (c[1] = t /\ c[2] = i))
        BY <1>1, <3>3 DEF Typed, Moves
      <3> QED BY <1>1, <3>2, <3>4, MovesOn
    <2>3. ASSUME NEW c \in reg'.links
          PROVE  p[c[2]].op = "link" /\ Block!Takes(p, c[1], c[2]) /\ round'[c[1]] > c[2]
      <3>1. reg' \in RegTypes(p)
        BY <1>1, Fields
      <3>2. c[1] \in Block!ThreadsOf(p) /\ c[2] \in 1..Len(p)
        BY <3>1 DEF RegTypes
      <3>3. c \in reg.links \/ (c = << t, i >> /\ p[i].op = "link")
        BY <1>1, <2>3, Fields
      <3>4. p[c[2]].op = "link" /\ Block!Takes(p, c[1], c[2])
            /\ (round[c[1]] > c[2] \/ (c[1] = t /\ c[2] = i))
        BY <1>1, <3>3 DEF Typed, Moves
      <3> QED BY <1>1, <3>2, <3>4, MovesOn
    <2>4. reg' \in RegTypes(p) /\ gmem' \in [phase : Nat, pending : Int]
      BY <1>1, Fields
    <2>5. /\ round' \in [Block!ThreadsOf(p) -> 1..Len(p) + 1]
          /\ \A u \in Block!ThreadsOf(p) : round'[u] = Len(p) + 1 \/ Block!Takes(p, u, round'[u])
      BY <1>1, MovesOn
    <2>6. Block!WellFormed(p)
      BY DEF Typed
    <2> QED BY <2>1, <2>2, <2>3, <2>4, <2>5, <2>6 DEF Typed, RegTypes
  <1>2. ASSUME NEW c \in reg.copies, Block!CopyLands(c[1], c[2]) PROVE Typed(p)'
    <2>1. /\ reg' \in RegTypes(p) /\ reg'.copies \subseteq reg.copies /\ reg'.links = reg.links
          /\ UNCHANGED << host, gmem, round >>
      BY <1>2, LandsFields
    <2>2. Block!Program' = p
      BY <2>1 DEF Typed, Block!Program
    <2> QED BY <2>1, <2>2 DEF Typed, RegTypes
  <1>3. ASSUME NEW c \in reg.links, Block!LinkArrives(c[1], c[2]) PROVE Typed(p)'
    <2>1. /\ reg' \in RegTypes(p) /\ reg'.links \subseteq reg.links /\ reg'.copies = reg.copies
          /\ gmem' \in [phase : Nat, pending : Int] /\ UNCHANGED << host, round >>
      BY <1>3, LinkFields
    <2>2. Block!Program' = p
      BY <2>1 DEF Typed, Block!Program
    <2> QED BY <2>1, <2>2 DEF Typed, RegTypes
  <1> QED BY <1>1, <1>2, <1>3, Steps

\* No thread is past a sync before those it waits for are at it.
LEMMA SyncsStep ==
  ASSUME NEW CONSTANT p, Typed(p), SyncsPassed(p), Block!Next
  PROVE  SyncsPassed(p)'
  <1>1. ASSUME NEW t, NEW i, Moves(p, t, i), Waits(p, t, i),
               NEW v \in Block!ThreadsOf(p), NEW k \in 1..Len(p),
               p[k].op = "sync", Block!Takes(p, v, k), round'[v] > k, NEW u \in p[k].on[v]
        PROVE  round'[u] >= k
    <2>1. u \in Block!ThreadsOf(p)
      BY <1>1 DEF Typed, Block!WellFormed
    <2>2. round[v] > k \/ (v = t /\ k = i)
      BY <1>1, MovesOn
    <2>3. round[u] >= k
      BY <1>1, <2>2 DEF SyncsPassed, Waits
    <2>4. round'[u] >= round[u] /\ round[u] \in Nat /\ round'[u] \in Nat
      <3>1. round'[u] >= round[u] /\ round' \in [Block!ThreadsOf(p) -> 1..Len(p) + 1]
        BY <1>1, <2>1, MovesOn
      <3> QED BY <2>1, <3>1 DEF Typed
    <2> QED BY <2>3, <2>4
  <1>2. ASSUME UNCHANGED round PROVE SyncsPassed(p)'
    BY <1>2 DEF SyncsPassed
  <1>3. ASSUME NEW c, Block!CopyLands(c[1], c[2]) \/ Block!LinkArrives(c[1], c[2]) PROVE UNCHANGED round
    BY <1>3 DEF Block!CopyLands, Block!LinkArrives
  <1>4. CASE \E t, i : Moves(p, t, i) /\ Effect(p, t, i) /\ Waits(p, t, i)
    BY <1>1, <1>4 DEF SyncsPassed
  <1> QED BY <1>2, <1>3, <1>4, Steps

\* A copy on its way after a wait is of a group that the wait left.
LEMMA GroupsStep ==
  ASSUME NEW CONSTANT p, Typed(p), GroupsWaited(p), Block!Next
  PROVE  GroupsWaited(p)'
  <1>1. ASSUME NEW t, NEW i, Moves(p, t, i), Effect(p, t, i), Waits(p, t, i),
               NEW v \in Block!ThreadsOf(p), NEW k \in 1..Len(p),
               p[k].op = "wait group", Block!Takes(p, v, k), round'[v] > k,
               NEW c \in reg'.copies, c[1] = v, c[2] < k
        PROVE  Block!Cardinality(Block!Committed(p, v, c[2], k)) <= p[k].n
    <2>1. round[v] > k \/ (v = t /\ k = i)
      <3>1. Moves(p, t, i) /\ Block!Takes(p, v, k) /\ round'[v] > k
        BY <1>1
      <3> QED BY <3>1, MovesOn
    <2>2. c \in reg.copies \/ (c = << t, i >> /\ p[i].op = "copy")
      <3>1. Moves(p, t, i) /\ Effect(p, t, i) /\ c \in reg'.copies
        BY <1>1
      <3> QED BY <3>1, Fields
    <2>3. CASE c = << t, i >> /\ p[i].op = "copy"
      <3>1. v = t /\ i < k /\ i = round[t] /\ k # i
        BY <1>1, <2>3 DEF Moves
      <3>2. round[v] \in Nat /\ k \in Nat
        BY DEF Typed
      <3> QED BY <2>1, <3>1, <3>2
    <2>4. CASE c \in reg.copies
      BY <1>1, <2>1, <2>4 DEF GroupsWaited, Waits
    <2> QED BY <2>2, <2>3, <2>4
  <1>2. ASSUME UNCHANGED round, reg'.copies \subseteq reg.copies PROVE GroupsWaited(p)'
    BY <1>2 DEF GroupsWaited
  <1>3. ASSUME NEW c \in reg.copies, Block!CopyLands(c[1], c[2]) PROVE GroupsWaited(p)'
    <2>1. UNCHANGED round /\ reg'.copies \subseteq reg.copies
      BY <1>3, LandsFields
    <2> QED BY <1>2, <2>1
  <1>4. ASSUME NEW c \in reg.links, Block!LinkArrives(c[1], c[2]) PROVE GroupsWaited(p)'
    <2>1. UNCHANGED round /\ reg'.copies \subseteq reg.copies
      BY <1>4, LinkFields
    <2> QED BY <1>2, <2>1
  <1>5. CASE \E t, i : Moves(p, t, i) /\ Effect(p, t, i) /\ Waits(p, t, i)
    BY <1>1, <1>5 DEF GroupsWaited
  <1> QED BY <1>3, <1>4, <1>5, Steps

-------------------------------------------------------------------------------
\* The set that Arrivals counts.
ArriveSteps(p, k) == { j \in 1..k - 1 : p[j].op = "arrive" }

\* The arrivals before a step, and before a later one.
LEMMA ArrivalsTyped ==
  ASSUME NEW p, NEW k \in Nat
  PROVE  Block!IsFiniteSet(ArriveSteps(p, k)) /\ Block!Arrivals(p, k) \in Nat
  <1>1. Block!IsFiniteSet(1..k - 1)
    BY IntervalSize
  <1>2. ArriveSteps(p, k) \subseteq 1..k - 1
    BY DEF ArriveSteps
  <1>3. Block!IsFiniteSet(ArriveSteps(p, k))
    BY <1>1, <1>2, SubsetSize
  <1> QED BY <1>3, SetSize DEF Block!Arrivals, ArriveSteps

\* Steps that do not arrive leave the count;
LEMMA ArrivalsSkip ==
  ASSUME NEW p, NEW j \in Nat, NEW k \in Nat, j <= k,
         \A l \in j..k - 1 : l = 0 \/ p[l].op # "arrive"
  PROVE  Block!Arrivals(p, j) = Block!Arrivals(p, k)
  <1>1. ArriveSteps(p, j) = ArriveSteps(p, k)
    BY DEF ArriveSteps
  <1> QED BY <1>1 DEF Block!Arrivals, ArriveSteps

\* a step that arrives adds one;
LEMMA ArrivalsMore ==
  ASSUME NEW p, NEW j \in Nat \ {0}, NEW k \in Nat, j < k, p[j].op = "arrive"
  PROVE  Block!Arrivals(p, j) < Block!Arrivals(p, k) /\ Block!Arrivals(p, j + 1) = Block!Arrivals(p, j) + 1
  <1> DEFINE D == ArriveSteps(p, j)
  <1>1. Block!IsFiniteSet(D) /\ j \notin D /\ Block!Arrivals(p, j) = Block!Cardinality(D) /\ Block!Cardinality(D) \in Nat
    BY ArrivalsTyped DEF ArriveSteps, Block!Arrivals
  <1>2. ArriveSteps(p, j + 1) = D \cup {j}
    BY DEF ArriveSteps
  <1>3. Block!IsFiniteSet(D \cup {j}) /\ Block!Cardinality(D \cup {j}) = Block!Cardinality(D) + 1
    <2> HIDE DEF D
    <2> QED BY <1>1, SetWithOneMore
  <1>4. Block!Arrivals(p, j + 1) = Block!Cardinality(D \cup {j})
    BY <1>2 DEF Block!Arrivals, ArriveSteps
  <1>5. D \cup {j} \subseteq ArriveSteps(p, k)
    BY DEF ArriveSteps
  <1>6. Block!IsFiniteSet(ArriveSteps(p, k)) /\ Block!Arrivals(p, k) = Block!Cardinality(ArriveSteps(p, k))
        /\ Block!Arrivals(p, k) \in Nat
    BY ArrivalsTyped DEF ArriveSteps, Block!Arrivals
  <1>7. Block!Cardinality(D \cup {j}) <= Block!Cardinality(ArriveSteps(p, k))
    <2> HIDE DEF D
    <2> QED BY <1>5, <1>6, SubsetSize
  <1> HIDE DEF D
  <1> QED BY <1>1, <1>3, <1>4, <1>6, <1>7

\* no step takes one away.
LEMMA ArrivalsMonotone ==
  ASSUME NEW p, NEW j \in Nat, NEW k \in Nat, j <= k
  PROVE  Block!Arrivals(p, j) <= Block!Arrivals(p, k)
  <1>0. Block!IsFiniteSet(ArriveSteps(p, k))
    BY ArrivalsTyped
  <1>1. Block!IsFiniteSet(ArriveSteps(p, k)) /\ ArriveSteps(p, j) \subseteq ArriveSteps(p, k)
    BY <1>0 DEF ArriveSteps
  <1>2. Block!Cardinality(ArriveSteps(p, j)) <= Block!Cardinality(ArriveSteps(p, k))
    BY <1>1, SubsetSize
  <1> QED BY <1>2 DEF Block!Arrivals, ArriveSteps

\* If the block has arrived, there is a last time it did.
LEMMA LastArrival ==
  ASSUME NEW p, NEW k \in Nat, Block!Arrivals(p, k) # 0
  PROVE  \E j \in 1..k - 1 : p[j].op = "arrive" /\ Block!Arrivals(p, j + 1) = Block!Arrivals(p, k)
  <1>1. ArriveSteps(p, k) # {}
    <2>1. Block!Cardinality({}) = 0
      BY EmptySetSize
    <2> QED BY <2>1 DEF ArriveSteps, Block!Arrivals
  <1> DEFINE S == { k - j : j \in ArriveSteps(p, k) }
  <1>2. S \subseteq Nat /\ S # {}
    BY <1>1 DEF ArriveSteps
  <1>3. PICK d \in S : \A e \in S : d <= e
    <2> HIDE DEF S
    <2> QED BY <1>2, LeastOf
  <1>4. PICK j \in ArriveSteps(p, k) : d = k - j
    OBVIOUS
  <1>5. j \in 1..k - 1 /\ p[j].op = "arrive"
    BY DEF ArriveSteps
  <1>6. \A l \in j + 1..k - 1 : p[l].op # "arrive"
    <2> SUFFICES ASSUME NEW l \in j + 1..k - 1, p[l].op = "arrive" PROVE FALSE
      OBVIOUS
    <2>1. l \in ArriveSteps(p, k)
      BY <1>5 DEF ArriveSteps
    <2>2. k - j <= k - l
      BY <1>3, <1>4, <2>1
    <2> QED BY <1>5, <2>2
  <1>7. Block!Arrivals(p, j + 1) = Block!Arrivals(p, k)
    BY <1>5, <1>6, ArrivalsSkip
  <1> QED BY <1>5, <1>7

\* Two finite sets with one element together, of which one is known.
LEMMA OnlyOne ==
  ASSUME NEW D, NEW L, Block!IsFiniteSet(D), Block!IsFiniteSet(L), NEW x \in D,
         Block!Cardinality(D) + Block!Cardinality(L) = 1
  PROVE  D = {x} /\ L = {}
  <1>1. Block!IsFiniteSet(D \ {x}) /\ Block!Cardinality(D \ {x}) = Block!Cardinality(D) - 1
    BY SetWithOneLess
  <1>2. Block!Cardinality(D) \in Nat /\ Block!Cardinality(L) \in Nat /\ Block!Cardinality(D \ {x}) \in Nat
    BY <1>1, SetSize
  <1>3. Block!Cardinality(L) = 0 /\ Block!Cardinality(D \ {x}) = 0
    BY <1>1, <1>2
  <1>4. L = {} /\ D \ {x} = {}
    BY <1>1, <1>3, EmptySetSize
  <1> QED BY <1>4

-------------------------------------------------------------------------------
(* The arrive-wait barrier                                                 *)

AwbarOps == {"link", "arrive", "test wait"}

\* The phase a thread is to arrive in next, or has arrived in if it waits.
Turn(p, t) == Block!Arrivals(p, round[t])

\* The threads that have yet to arrive in the phase of the barrier.
Due(p) == { t \in Block!ThreadsOf(p) : Turn(p, t) = gmem.phase }

\* The barrier is initialised.
Initialised(p) == \A a \in Block!AwbarInits(p) : round[a[1]] > a[2]

\* Once it is, it counts the arrivals due, of threads and of links; before, there are
\* none.
Counted(p) ==
  /\ Initialised(p) => gmem.pending = Block!Cardinality(Due(p)) + Block!Cardinality(reg.links)
  /\ ~ Initialised(p) => gmem.phase = 0 /\ reg.links = {}

\* No thread is more than a phase ahead, and none goes on before its phase has ended.
PhasesPassed(p) ==
  /\ \A t \in Block!ThreadsOf(p) : Turn(p, t) \in {gmem.phase, gmem.phase + 1}
  /\ \A t \in Block!ThreadsOf(p), k \in 1..Len(p) :
       p[k].op = "test wait" /\ round[t] > k => gmem.phase >= Block!Arrivals(p, k)

\* A thread that waits does so with the phase it has arrived in.
StatesKept(p) ==
  \A t \in Block!ThreadsOf(p) :
    round[t] \in 1..Len(p) /\ p[round[t]].op = "test wait" => reg.state[t] = Turn(p, t) - 1

\* A link that is due is of this phase, and one that has arrived has left no copy.
LinksArrive(p) ==
  /\ \A c \in reg.links : Block!Arrivals(p, c[2]) = gmem.phase
  /\ \A t \in Block!ThreadsOf(p), m \in 1..Len(p) :
       p[m].op = "link" /\ Block!Takes(p, t, m) /\ round[t] > m /\ << t, m >> \notin reg.links =>
         \A c \in reg.copies : c[1] = t => c[2] > m

AwbarCounts(p) == Counted(p) /\ PhasesPassed(p) /\ StatesKept(p) /\ LinksArrive(p)

AwbarUsed(p) == \E k \in 1..Len(p) : p[k].op \in AwbarOps

AwbarInv(p) == AwbarUsed(p) => AwbarCounts(p)

\* Who uses the barrier takes the step with all others, after its initialisation.
LEMMA WellUsed ==
  ASSUME NEW p, Block!WellFormed(p), Block!AwbarWellUsed(p), NEW k \in 1..Len(p), p[k].op \in AwbarOps
  PROVE  /\ \A t \in Block!ThreadsOf(p) : Block!Takes(p, t, k)
         /\ \E a \in Block!ThreadsOf(p) \X (1..Len(p)) :
              Block!AwbarInits(p) = {a} /\ p[a[2]].n = Block!Cardinality(Block!ThreadsOf(p))
         /\ p[k].op = "arrive" => \E m \in 1..Len(p) : m = k + 1 /\ p[m].op = "test wait"
         /\ p[k].op = "test wait" => \E m \in 1..Len(p) : m + 1 = k /\ p[m].op = "arrive"
  <1>0. Len(p) \in Nat
    BY DEF Block!WellFormed
  <1>1. /\ \A t \in Block!ThreadsOf(p) : Block!Takes(p, t, k)
        /\ \E a \in Block!ThreadsOf(p) \X (1..Len(p)) :
              Block!AwbarInits(p) = {a} /\ p[a[2]].n = Block!Cardinality(Block!ThreadsOf(p))
    BY DEF Block!AwbarWellUsed, AwbarOps
  <1>2. p[k].op = "arrive" => k < Len(p) /\ p[k + 1].op = "test wait"
    BY DEF Block!AwbarWellUsed, AwbarOps
  <1>3. p[k].op = "test wait" => k > 1 /\ p[k - 1].op = "arrive"
    BY DEF Block!AwbarWellUsed, AwbarOps
  <1>4. k < Len(p) => k + 1 \in 1..Len(p)
    BY <1>0
  <1>5. k > 1 => k - 1 \in 1..Len(p) /\ (k - 1) + 1 = k
    BY <1>0
  <1> QED BY <1>1, <1>2, <1>3, <1>4, <1>5, Zenon

\* No thread comes to a use of the barrier before it is initialised.
LEMMA InitialisedBefore ==
  ASSUME NEW CONSTANT p, Typed(p), SyncsPassed(p), Block!AwbarWellUsed(p),
         NEW k \in 1..Len(p), p[k].op \in AwbarOps, NEW t \in Block!ThreadsOf(p), round[t] >= k,
         NEW a \in Block!AwbarInits(p)
  PROVE  round[a[1]] > a[2]
  <1>1. PICK s \in a[2] + 1..k - 1 :
          p[s].op = "sync" /\ p[s].on[t] = Block!ThreadsOf(p) /\ Block!Takes(p, t, s)
    <2>1. p[k].op \in {"link", "arrive", "test wait"}
      BY DEF AwbarOps
    <2>2. PICK b \in Block!ThreadsOf(p) \X (1..Len(p)) : \E s \in b[2] + 1..k - 1 :
            /\ Block!AwbarInits(p) = {b} /\ p[s].op = "sync"
            /\ \A u \in Block!ThreadsOf(p) : p[s].on[u] = Block!ThreadsOf(p) /\ Block!Takes(p, u, s)
      BY <2>1, Zenon DEF Block!AwbarWellUsed
    <2>3. a = b
      BY <2>2
    <2> QED BY <2>2, <2>3
  <1>2. a[1] \in Block!ThreadsOf(p) /\ a[2] \in 1..Len(p) /\ Len(p) \in Nat
        /\ round[t] \in 1..Len(p) + 1 /\ round[a[1]] \in 1..Len(p) + 1
    BY DEF Block!AwbarInits, Typed, Block!WellFormed
  <1>3. s \in 1..Len(p) /\ round[t] > s
    BY <1>2
  <1>4. round[a[1]] >= s
    BY <1>1, <1>2, <1>3 DEF SyncsPassed
  <1> QED BY <1>2, <1>3, <1>4

\* What a step of a thread does to its turn.
TurnMove(p, t, i) ==
  /\ p[i].op = "arrive" => Turn(p, t)' = Turn(p, t) + 1
  /\ p[i].op # "arrive" => Turn(p, t)' = Turn(p, t)

\* A thread has its next turn when it arrives, and no other step moves it.
LEMMA TurnMoves ==
  ASSUME NEW CONSTANT p, Typed(p), Block!AwbarWellUsed(p), NEW t, NEW i, Moves(p, t, i)
  PROVE  /\ TurnMove(p, t, i)
         /\ \A u \in Block!ThreadsOf(p) : Turn(p, u) \in Nat
         /\ p[i].op = "arrive" => round'[t] = i + 1
         /\ round'[t] \in 1..Len(p) /\ p[round'[t]].op = "test wait" => p[i].op = "arrive"
  <1>1. /\ t \in Block!ThreadsOf(p) /\ i \in 1..Len(p) /\ i = round[t] /\ Len(p) \in Nat /\ Block!Takes(p, t, i)
    BY DEF Typed, Block!WellFormed, Moves
  <1>0. Block!WellFormed(p)
    BY DEF Typed
  <1> DEFINE s == round'[t]
  <1>2. /\ s \in 1..Len(p) + 1 /\ s > i
        /\ \A k \in 1..Len(p) : Block!Takes(p, t, k) => (s > k <=> i > k \/ k = i)
    <2>1. s \in 1..Len(p) + 1
      BY <1>1, MovesOn
    <2>2. \A k \in 1..Len(p) : Block!Takes(p, t, k) => (s > k <=> i > k \/ k = i)
      BY <1>1, MovesOn
    <2> HIDE DEF s
    <2> QED BY <1>1, <2>1, <2>2
  <1>3. \A k \in 1..Len(p) : p[k].op \in AwbarOps /\ k > i => s <= k
    <2> SUFFICES ASSUME NEW k \in 1..Len(p), p[k].op \in AwbarOps, k > i PROVE s <= k
      OBVIOUS
    <2>1. Block!Takes(p, t, k)
      BY <1>0, <1>1, WellUsed
    <2> HIDE DEF s
    <2> QED BY <1>1, <1>2, <2>1
  <1>4. Block!Arrivals(p, i + 1) = Block!Arrivals(p, s)
    <2>1. \A l \in i + 1..s - 1 : p[l].op # "arrive"
      <3> HIDE DEF s
      <3> SUFFICES ASSUME NEW l \in i + 1..s - 1, p[l].op = "arrive" PROVE FALSE
        OBVIOUS
      <3>1. l \in 1..Len(p) /\ l > i /\ ~ (s <= l)
        BY <1>1, <1>2
      <3>2. p[l].op \in AwbarOps
        BY DEF AwbarOps
      <3> QED BY <1>3, <3>1, <3>2
    <2> HIDE DEF s
    <2> QED BY <1>1, <1>2, <2>1, ArrivalsSkip
  <1>5. Block!Arrivals(p, i + 1) = IF p[i].op = "arrive" THEN Block!Arrivals(p, i) + 1 ELSE Block!Arrivals(p, i)
    <2>1. CASE p[i].op = "arrive"
      BY <1>1, <2>1, ArrivalsMore
    <2>2. CASE p[i].op # "arrive"
      <3>1. \A l \in i..(i + 1) - 1 : p[l].op # "arrive"
        BY <1>1, <2>2
      <3>2. Block!Arrivals(p, i) = Block!Arrivals(p, i + 1)
        BY <1>1, <3>1, ArrivalsSkip
      <3> QED BY <2>2, <3>2
    <2> QED BY <2>1, <2>2
  <1>6. Turn(p, t)' = Block!Arrivals(p, s) /\ Turn(p, t) = Block!Arrivals(p, i)
    BY <1>1 DEF Turn
  <1>8. \A u \in Block!ThreadsOf(p) : Turn(p, u) \in Nat
    <2> SUFFICES ASSUME NEW u \in Block!ThreadsOf(p) PROVE Turn(p, u) \in Nat
      OBVIOUS
    <2>1. round[u] \in Nat
      BY DEF Typed
    <2> QED BY <2>1, ArrivalsTyped DEF Turn
  <1>9. ASSUME p[i].op = "arrive" PROVE s = i + 1
    <2>1. PICK m \in 1..Len(p) : m = i + 1 /\ p[m].op = "test wait"
      BY <1>0, <1>1, <1>9, WellUsed DEF AwbarOps
    <2>2. p[m].op \in AwbarOps
      BY <2>1 DEF AwbarOps
    <2>0. m = i + 1
      BY <2>1, Zenon
    <2>3. m > i
      BY <1>1, <2>0
    <2>4. s <= m
      BY <1>3, <2>2, <2>3
    <2> HIDE DEF s
    <2>5. s \in Int /\ i \in Int /\ m = i + 1 /\ s > i /\ s <= m
      BY <1>1, <1>2, <2>0, <2>4
    <2> QED BY ONLY <2>5
  <1>10. ASSUME s \in 1..Len(p), p[s].op = "test wait" PROVE p[i].op = "arrive"
    <2> HIDE DEF s
    <2>1. PICK m \in 1..Len(p) : m + 1 = s /\ p[m].op = "arrive"
      BY <1>0, <1>10, WellUsed DEF AwbarOps
    <2>2. p[m].op \in AwbarOps
      BY <2>1 DEF AwbarOps
    <2>3. m > i => s <= m
      BY <1>3, <2>2
    <2>4. s \in Int /\ i \in Int /\ m \in Int /\ m + 1 = s /\ s > i /\ (m > i => s <= m)
      BY <1>1, <1>2, <2>1, <2>3
    <2>5. m = i
      BY ONLY <2>4
    <2> QED BY <2>1, <2>5
  <1> HIDE DEF s
  <1>11. /\ p[i].op = "arrive" => Turn(p, t)' = Turn(p, t) + 1
         /\ p[i].op # "arrive" => Turn(p, t)' = Turn(p, t)
    BY <1>4, <1>5, <1>6
  <1> QED BY <1>8, <1>9, <1>10, <1>11 DEF s, TurnMove

\* The turns of the others stay, and all do if the step is no arrival.
LEMMA OtherTurns ==
  ASSUME NEW CONSTANT p, Typed(p), NEW t, NEW i, Moves(p, t, i)
  PROVE  \A u \in Block!ThreadsOf(p) : u # t => Turn(p, u)' = Turn(p, u)
  BY MovesOn DEF Turn

\* A step that does not arrive leaves all turns.
LEMMA TurnsKept ==
  ASSUME NEW CONSTANT p, Typed(p), Block!AwbarWellUsed(p), NEW t, NEW i, Moves(p, t, i),
         p[i].op # "arrive"
  PROVE  \A u \in Block!ThreadsOf(p) : Turn(p, u)' = Turn(p, u)
  <1>1. Turn(p, t)' = Turn(p, t)
    <2>1. TurnMove(p, t, i)
      BY TurnMoves
    <2> QED BY <2>1 DEF TurnMove
  <1>2. \A u \in Block!ThreadsOf(p) : u # t => Turn(p, u)' = Turn(p, u)
    BY OtherTurns
  <1> QED BY <1>1, <1>2

\* A thread that does not wait has yet to arrive in the phase.
LEMMA InPhase ==
  ASSUME NEW CONSTANT p, Typed(p), Block!AwbarWellUsed(p), AwbarCounts(p),
         NEW t \in Block!ThreadsOf(p), NEW i \in 1..Len(p), i = round[t]
  PROVE  Turn(p, t) = gmem.phase \/ p[i].op = "test wait"
  <1>1. Turn(p, t) \in {gmem.phase, gmem.phase + 1} /\ gmem.phase \in Nat
    BY DEF AwbarCounts, PhasesPassed, Typed
  <1>2. Len(p) \in Nat /\ Turn(p, t) = Block!Arrivals(p, i)
    BY DEF Typed, Block!WellFormed, Turn
  <1>3. ASSUME Turn(p, t) # gmem.phase PROVE p[i].op = "test wait"
    <2>1. Turn(p, t) = gmem.phase + 1
      BY <1>1, <1>3
    <2>2. PICK j \in 1..i - 1 : p[j].op = "arrive" /\ Block!Arrivals(p, j + 1) = Turn(p, t)
      <3>1. Block!Arrivals(p, i) # 0 /\ i \in Nat
        BY <1>1, <1>2, <2>1
      <3>2. \E j \in 1..i - 1 : p[j].op = "arrive" /\ Block!Arrivals(p, j + 1) = Block!Arrivals(p, i)
        BY <3>1, LastArrival, Zenon
      <3> QED BY <1>2, <3>2, Zenon
    <2>3. j \in 1..Len(p) /\ j < i
      BY <1>2
    <2>4. p[j].op \in AwbarOps /\ Block!WellFormed(p)
      BY <2>2 DEF AwbarOps, Typed
    <2>5. PICK m \in 1..Len(p) : m = j + 1 /\ p[m].op = "test wait"
      BY <2>2, <2>3, <2>4, WellUsed, Zenon
    <2>6. m = j + 1
      BY <2>5, Zenon
    <2>7. ~ (round[t] > m)
      <3>1. round[t] > m => gmem.phase >= Block!Arrivals(p, m)
        BY <2>5 DEF AwbarCounts, PhasesPassed
      <3>2. Block!Arrivals(p, m) = Turn(p, t)
        BY <2>2, <2>6, Zenon
      <3> QED BY <1>1, <2>1, <3>1, <3>2
    <2>8. m = i
      BY <1>2, <2>3, <2>6, <2>7
    <2> QED BY <2>5, <2>8, Zenon
  <1> QED BY <1>3

\* The step that initialises the barrier.
LEMMA OneInit ==
  ASSUME NEW p, Block!WellFormed(p), Block!AwbarWellUsed(p), AwbarUsed(p)
  PROVE  \E a \in Block!AwbarInits(p) :
           /\ Block!AwbarInits(p) = {a} /\ a \in Block!ThreadsOf(p) \X (1..Len(p))
           /\ p[a[2]].op = "awbar init" /\ Block!Takes(p, a[1], a[2])
           /\ p[a[2]].n = Block!Cardinality(Block!ThreadsOf(p))
  <1>1. PICK k \in 1..Len(p) : p[k].op \in AwbarOps
    BY DEF AwbarUsed
  <1>2. PICK a \in Block!ThreadsOf(p) \X (1..Len(p)) :
          Block!AwbarInits(p) = {a} /\ p[a[2]].n = Block!Cardinality(Block!ThreadsOf(p))
    BY <1>1, WellUsed, Zenon
  <1> QED BY <1>2 DEF Block!AwbarInits

\* Until then no thread's turn has come.
LEMMA FirstTurn ==
  ASSUME NEW CONSTANT p, Typed(p), SyncsPassed(p), Block!AwbarWellUsed(p), AwbarUsed(p),
         ~ Initialised(p), NEW t \in Block!ThreadsOf(p)
  PROVE  Turn(p, t) = 0
  <1>1. PICK a \in Block!AwbarInits(p) : ~ (round[a[1]] > a[2])
    BY DEF Initialised
  <1>2. SUFFICES ASSUME Turn(p, t) # 0 PROVE FALSE
    OBVIOUS
  <1>3. round[t] \in 1..Len(p) + 1 /\ Len(p) \in Nat
    BY DEF Typed, Block!WellFormed
  <1>4. PICK j \in 1..round[t] - 1 : p[j].op = "arrive"
    <2>1. Block!Arrivals(p, round[t]) # 0 /\ round[t] \in Nat
      BY <1>2, <1>3 DEF Turn
    <2> QED BY <2>1, LastArrival, Zenon
  <1>5. j \in 1..Len(p) /\ round[t] >= j
    BY <1>3
  <1>6. p[j].op \in AwbarOps
    BY <1>4 DEF AwbarOps
  <1> QED BY <1>1, <1>5, <1>6, InitialisedBefore

\* A thread at a use of the barrier finds it initialised.
LEMMA UseInitialised ==
  ASSUME NEW CONSTANT p, Typed(p), SyncsPassed(p), Block!AwbarWellUsed(p),
         NEW k \in 1..Len(p), p[k].op \in AwbarOps, NEW t \in Block!ThreadsOf(p), round[t] >= k
  PROVE  Initialised(p)
  BY InitialisedBefore DEF Initialised

\* Only the step that initialises the barrier does.
LEMMA InitMoves ==
  ASSUME NEW CONSTANT p, Typed(p), NEW t, NEW i, Moves(p, t, i)
  PROVE  p[i].op # "awbar init" => (Initialised(p)' <=> Initialised(p))
  <1>1. \A a \in Block!AwbarInits(p) :
          /\ a[1] \in Block!ThreadsOf(p) /\ a[2] \in 1..Len(p) /\ p[a[2]].op = "awbar init"
          /\ Block!Takes(p, a[1], a[2])
    BY DEF Block!AwbarInits
  <1>2. \A a \in Block!AwbarInits(p) : p[i].op # "awbar init" => a[2] # i
    BY <1>1
  <1>3. ASSUME NEW a \in Block!AwbarInits(p)
        PROVE  round'[a[1]] > a[2] <=> round[a[1]] > a[2] \/ (a[1] = t /\ a[2] = i)
    <2>1. a[1] \in Block!ThreadsOf(p) /\ a[2] \in 1..Len(p) /\ Block!Takes(p, a[1], a[2])
      BY <1>1
    <2> QED BY <2>1, MovesOn
  <1> QED BY <1>2, <1>3 DEF Initialised

\* No thread goes on before its phase has ended, whoever moves.
LEMMA PhasesKept ==
  ASSUME NEW CONSTANT p, Typed(p), Block!AwbarWellUsed(p), PhasesPassed(p), StatesKept(p),
         NEW t, NEW i, Moves(p, t, i), Waits(p, t, i),
         gmem'.phase >= gmem.phase, gmem'.phase \in Nat
  PROVE  \A u \in Block!ThreadsOf(p), k \in 1..Len(p) :
           p[k].op = "test wait" /\ round'[u] > k => gmem'.phase >= Block!Arrivals(p, k)
  <1>1. ASSUME NEW u \in Block!ThreadsOf(p), NEW k \in 1..Len(p),
               gmem.phase >= Block!Arrivals(p, k)
        PROVE  gmem'.phase >= Block!Arrivals(p, k)
    <2>1. gmem.phase \in Nat /\ Block!Arrivals(p, k) \in Nat
      BY ArrivalsTyped DEF Typed
    <2> QED BY <1>1, <2>1
  <1>2. ASSUME NEW k \in 1..Len(p), Turn(p, t) = Block!Arrivals(p, k), Turn(p, t) - 1 # gmem.phase
        PROVE  gmem.phase >= Block!Arrivals(p, k)
    <2>1. gmem.phase \in Nat /\ Block!Arrivals(p, k) \in Nat /\ t \in Block!ThreadsOf(p)
      BY ArrivalsTyped DEF Typed, Moves
    <2>2. Turn(p, t) \in {gmem.phase, gmem.phase + 1}
      BY <2>1 DEF PhasesPassed
    <2> QED BY <1>2, <2>1, <2>2
  <1>3. ASSUME NEW u \in Block!ThreadsOf(p), NEW k \in 1..Len(p), p[k].op = "test wait", round'[u] > k
        PROVE  gmem'.phase >= Block!Arrivals(p, k)
    <2>1. Block!Takes(p, u, k)
      BY <1>3, WellUsed DEF Typed, AwbarOps
    <2>2. round[u] > k \/ (u = t /\ k = i)
      BY <1>3, <2>1, MovesOn, Zenon
    <2>3. CASE round[u] > k
      <3>1. gmem.phase >= Block!Arrivals(p, k)
        BY <1>3, <2>3 DEF PhasesPassed
      <3> QED BY <1>1, <3>1
    <2>4. CASE u = t /\ k = i
      <3>1. Turn(p, t) = Block!Arrivals(p, k) /\ t \in Block!ThreadsOf(p) /\ k = round[t]
        BY <2>4 DEF Turn, Moves
      <3>2. reg.state[t] = Turn(p, t) - 1
        BY <1>3, <3>1 DEF StatesKept
      <3>3. Turn(p, t) - 1 # gmem.phase
        BY <1>3, <2>4, <3>2 DEF Waits
      <3> QED BY <1>1, <1>2, <3>1, <3>3, <1>3
    <2> QED BY <2>2, <2>3, <2>4
  <1> QED BY <1>3

\* The phase a thread has seen changes when it arrives.
LEMMA StateFields ==
  ASSUME NEW CONSTANT p, Typed(p), NEW t, NEW i, Moves(p, t, i), Effect(p, t, i)
  PROVE  /\ p[i].op = "arrive" => reg'.state[t] = gmem.phase
         /\ \A u \in Block!ThreadsOf(p) :
              reg'.state[u] = reg.state[u] \/ (u = t /\ p[i].op = "arrive")
  <1>1. t \in Block!ThreadsOf(p) /\ reg \in RegTypes(p)
    BY DEF Moves, Typed, RegTypes
  <1>2. p[i].op = "arrive" => reg' = [reg EXCEPT !.state[t] = gmem.phase]
    BY DEF Effect
  <1>3. p[i].op = "copy" => reg' = [reg EXCEPT !.copies = @ \cup {<< t, i >>}]
    BY DEF Effect
  <1>4. p[i].op = "link" => reg' = [reg EXCEPT !.links = @ \cup {<< t, i >>}]
    BY DEF Effect
  <1>5. p[i].op \notin {"arrive", "copy", "link"} => reg' = reg
    BY DEF Effect
  <1>6. p[i].op = "arrive" =>
          /\ reg'.state[t] = gmem.phase
          /\ \A u \in Block!ThreadsOf(p) : u # t => reg'.state[u] = reg.state[u]
    BY <1>1, <1>2 DEF RegTypes
  <1>7. p[i].op # "arrive" => reg'.state = reg.state
    BY <1>1, <1>3, <1>4, <1>5 DEF RegTypes
  <1> QED BY <1>6, <1>7

\* A thread waits with the phase that it arrived in, after any step.
LEMMA StatesMove ==
  ASSUME NEW CONSTANT p, Typed(p), Block!AwbarWellUsed(p), AwbarCounts(p),
         NEW t, NEW i, Moves(p, t, i), Effect(p, t, i)
  PROVE  StatesKept(p)'
  <1>0. t \in Block!ThreadsOf(p) /\ reg \in RegTypes(p) /\ Turn(p, t) \in Nat
    BY TurnMoves DEF Moves, Typed, RegTypes
  <1>1. p[i].op = "arrive" => reg'.state[t] = gmem.phase
    BY StateFields
  <1>2. \A u \in Block!ThreadsOf(p) :
          reg'.state[u] = reg.state[u] \/ (u = t /\ p[i].op = "arrive")
    BY StateFields, Zenon
  <1>4. p[i].op = "arrive" => reg'.state[t] = Turn(p, t)' - 1
    <2>0. TurnMove(p, t, i)
      BY TurnMoves
    <2>1. p[i].op = "arrive" => Turn(p, t)' = Turn(p, t) + 1
      BY <2>0 DEF TurnMove
    <2>3. Turn(p, t) = gmem.phase \/ p[i].op = "test wait"
      BY InPhase DEF Moves
    <2> QED BY <1>0, <1>1, <2>1, <2>3
  <1>5. \A u \in Block!ThreadsOf(p) : u # t => Turn(p, u)' = Turn(p, u)
    BY OtherTurns
  <1>6. ASSUME NEW u \in Block!ThreadsOf(p), round'[u] \in 1..Len(p), p[round'[u]].op = "test wait"
        PROVE  reg'.state[u] = Turn(p, u)' - 1
    <2>1. CASE u = t
      <3>1. p[i].op = "arrive"
        BY <1>6, <2>1, TurnMoves
      <3> QED BY <1>4, <2>1, <3>1
    <2>2. CASE u # t
      <3>1. round'[u] = round[u]
        BY <2>2, MovesOn
      <3>2. Turn(p, u)' = Turn(p, u)
        BY <1>5, <2>2
      <3>3. reg.state[u] = Turn(p, u) - 1
        BY <1>6, <3>1 DEF AwbarCounts, StatesKept
      <3> QED BY <1>2, <2>2, <3>2, <3>3
    <2> QED BY <2>1, <2>2
  <1> QED BY <1>6 DEF StatesKept

\* The links that have arrived leave no copy behind, whatever a thread does.
LEMMA LinksMove ==
  ASSUME NEW CONSTANT p, Typed(p), LinksArrive(p),
         NEW t, NEW i, Moves(p, t, i), Effect(p, t, i),
         NEW u \in Block!ThreadsOf(p), NEW m \in 1..Len(p), p[m].op = "link", Block!Takes(p, u, m),
         round'[u] > m, << u, m >> \notin reg'.links, NEW c \in reg'.copies, c[1] = u
  PROVE  c[2] > m
  <1>1. << u, m >> \notin reg.links /\ ~ (u = t /\ m = i)
    BY Fields
  <1>2. round[u] > m
    BY <1>1, MovesOn
  <1>3. c \in reg.copies \/ c = << t, i >>
    BY Fields
  <1>4. CASE c \in reg.copies
    BY <1>1, <1>2, <1>4 DEF LinksArrive
  <1>5. CASE c = << t, i >>
    BY <1>2, <1>5 DEF Moves
  <1> QED BY <1>3, <1>4, <1>5

\* There are finitely many arrivals due.
LEMMA LinksFinite == ASSUME NEW p, Typed(p) PROVE Block!IsFiniteSet(reg.links)
  <1>1. Block!IsFiniteSet(Block!ThreadsOf(p)) /\ Block!IsFiniteSet(1..Len(p))
    BY IntervalSize DEF Typed, Block!WellFormed
  <1>2. Block!IsFiniteSet(Block!ThreadsOf(p) \X (1..Len(p)))
    BY <1>1, ProductSize
  <1>3. reg.links \subseteq Block!ThreadsOf(p) \X (1..Len(p))
    BY DEF Typed
  <1> QED BY <1>2, <1>3, SubsetSize

\* The threads that are due can be counted.
LEMMA DueFinite ==
  ASSUME NEW p, Typed(p) PROVE Block!IsFiniteSet(Due(p)) /\ Block!Cardinality(Due(p)) \in Nat
  <1>1. Block!IsFiniteSet(Block!ThreadsOf(p)) /\ Due(p) \subseteq Block!ThreadsOf(p)
    BY DEF Typed, Block!WellFormed, Due
  <1>2. Block!IsFiniteSet(Due(p))
    BY <1>1, SubsetSize
  <1> QED BY <1>2, SetSize

Initialises(p, i) == p[i].op = "awbar init"
Links(p, i) == p[i].op = "link"
Arrives(p, i) == p[i].op = "arrive"
Handles(p, i) == p[i].op \in {"awbar init", "link", "arrive"}

\* No thread is more than a phase ahead after a step that leaves the phase as it is.
LEMMA OneAhead ==
  ASSUME NEW CONSTANT p, PhasesPassed(p), gmem'.phase = gmem.phase,
         \A u \in Block!ThreadsOf(p) : Turn(p, u)' = Turn(p, u)
  PROVE  /\ \A u \in Block!ThreadsOf(p) : Turn(p, u)' \in {gmem'.phase, gmem'.phase + 1}
         /\ Due(p)' = Due(p)
  BY DEF PhasesPassed, Due

\* A thread's step that does not handle the barrier leaves its count.
LEMMA QuietStep ==
  ASSUME NEW CONSTANT p, Typed(p), Block!AwbarWellUsed(p), AwbarCounts(p),
         NEW t, NEW i, Moves(p, t, i), Effect(p, t, i), Waits(p, t, i), ~ Handles(p, i)
  PROVE  AwbarCounts(p)'
  <1>1. gmem' = gmem /\ reg'.links = reg.links /\ gmem.phase \in Nat
    <2>1. p[i].op \notin {"awbar init", "link", "arrive"}
      BY DEF Handles
    <2>0. RegMoves(p, t, i) /\ BarrierMoves(p, t, i)
      BY AllFields
    <2>2. gmem' = gmem
      BY <2>0, <2>1, Zenon DEF BarrierMoves
    <2>3. reg'.links = reg.links
      BY <2>0, <2>1, Zenon DEF RegMoves
    <2> QED BY <2>2, <2>3 DEF Typed
  <1>2. \A u \in Block!ThreadsOf(p) : Turn(p, u)' = Turn(p, u)
    <2>1. p[i].op # "arrive"
      BY DEF Handles
    <2> QED BY <2>1, TurnsKept
  <1>3. /\ \A u \in Block!ThreadsOf(p) : Turn(p, u)' \in {gmem'.phase, gmem'.phase + 1}
        /\ Due(p)' = Due(p)
    BY <1>1, <1>2, OneAhead DEF AwbarCounts
  <1>4. Initialised(p)' <=> Initialised(p)
    BY InitMoves DEF Handles
  <1>5. Counted(p)'
    BY <1>1, <1>3, <1>4 DEF AwbarCounts, Counted
  <1>6. PhasesPassed(p)'
    <2>1. gmem'.phase >= gmem.phase /\ gmem'.phase \in Nat
      BY <1>1
    <2>2. \A u \in Block!ThreadsOf(p), k \in 1..Len(p) :
            p[k].op = "test wait" /\ round'[u] > k => gmem'.phase >= Block!Arrivals(p, k)
      BY <2>1, PhasesKept DEF AwbarCounts
    <2> QED BY <1>3, <2>2 DEF PhasesPassed
  <1>7. StatesKept(p)'
    BY StatesMove
  <1>8. LinksArrive(p)'
    <2>1. \A c \in reg'.links : Block!Arrivals(p, c[2]) = gmem'.phase
      BY <1>1 DEF AwbarCounts, LinksArrive
    <2>2. ASSUME NEW u \in Block!ThreadsOf(p), NEW m \in 1..Len(p), p[m].op = "link", Block!Takes(p, u, m),
                 round'[u] > m, << u, m >> \notin reg'.links, NEW c \in reg'.copies, c[1] = u
          PROVE  c[2] > m
      BY <2>2, LinksMove DEF AwbarCounts
    <2> QED BY <2>1, <2>2 DEF LinksArrive
  <1> QED BY <1>5, <1>6, <1>7, <1>8 DEF AwbarCounts

\* The thread that initialises the barrier finds no other at a use of it.
LEMMA InitStep ==
  ASSUME NEW CONSTANT p, Typed(p), SyncsPassed(p), Block!AwbarWellUsed(p), AwbarUsed(p), AwbarCounts(p),
         NEW t, NEW i, Moves(p, t, i), Effect(p, t, i), Waits(p, t, i), Initialises(p, i)
  PROVE  AwbarCounts(p)'
  <1>1. t \in Block!ThreadsOf(p) /\ i \in 1..Len(p) /\ Block!Takes(p, t, i) /\ i = round[t]
    BY DEF Moves
  <1>2. Block!AwbarInits(p) = {<< t, i >>} /\ p[i].n = Block!Cardinality(Block!ThreadsOf(p))
    <2>1. << t, i >> \in Block!AwbarInits(p)
      BY <1>1 DEF Block!AwbarInits, Initialises
    <2>2. Block!WellFormed(p)
      BY DEF Typed
    <2>3. PICK a \in Block!AwbarInits(p) : Block!AwbarInits(p) = {a} /\ p[a[2]].n = Block!Cardinality(Block!ThreadsOf(p))
      BY <2>2, OneInit, Zenon
    <2>4. a = << t, i >>
      BY <2>1, <2>3
    <2> QED BY <2>3, <2>4
  <1>3. ~ Initialised(p)
    <2>1. << t, i >> \in Block!AwbarInits(p) /\ << t, i >>[1] = t /\ << t, i >>[2] = i
      BY <1>2
    <2>2. ~ (round[t] > i)
      <3>1. i \in Int /\ i = round[t]
        BY <1>1 DEF Typed, Block!WellFormed
      <3> QED BY <3>1
    <2> QED BY <2>1, <2>2 DEF Initialised
  <1>4. gmem.phase = 0 /\ reg.links = {}
    BY <1>3 DEF AwbarCounts, Counted
  <1>5. gmem'.phase = 0 /\ gmem'.pending = p[i].n /\ reg'.links = {}
    <2>0. RegMoves(p, t, i) /\ BarrierMoves(p, t, i)
      BY AllFields
    <2>1. gmem'.phase = 0 /\ gmem'.pending = p[i].n
      BY <2>0, Zenon DEF Initialises, BarrierMoves
    <2>2. reg'.links = reg.links
      BY <2>0, Zenon DEF Initialises, RegMoves
    <2> QED BY <1>4, <2>1, <2>2
  <1>6. \A u \in Block!ThreadsOf(p) : Turn(p, u)' = 0
    <2>1. \A u \in Block!ThreadsOf(p) : Turn(p, u) = 0
      BY <1>3, FirstTurn
    <2>2. p[i].op # "arrive"
      BY DEF Initialises
    <2>3. \A u \in Block!ThreadsOf(p) : Turn(p, u)' = Turn(p, u)
      BY <2>2, TurnsKept
    <2> QED BY <2>1, <2>3
  <1>7. Initialised(p)'
    <2>1. round'[t] > i
      BY <1>1, MovesOn
    <2>2. ASSUME NEW a \in Block!AwbarInits(p) PROVE round'[a[1]] > a[2]
      <3>1. a[1] = t /\ a[2] = i
        BY <1>2, <2>2
      <3> QED BY <2>1, <3>1
    <2> QED BY <2>2 DEF Initialised
  <1>8. Counted(p)'
    <2>1. Due(p)' = Block!ThreadsOf(p)
      BY <1>5, <1>6 DEF Due
    <2>2. Block!Cardinality({}) = 0 /\ Block!Cardinality(Block!ThreadsOf(p)) \in Nat
      BY EmptySetSize, BlockSize
    <2>3. Block!Cardinality(reg'.links) = 0 /\ gmem'.pending = Block!Cardinality(Due(p)')
      BY <1>2, <1>5, <2>1, <2>2
    <2>4. Block!Cardinality(Due(p)') \in Nat
      BY <2>1, <2>2
    <2>5. gmem'.pending = Block!Cardinality(Due(p)') + Block!Cardinality(reg'.links)
      BY <2>3, <2>4
    <2> QED BY <1>7, <2>5 DEF Counted
  <1>9. PhasesPassed(p)'
    <2>1. gmem'.phase >= gmem.phase /\ gmem'.phase \in Nat
      <3>1. gmem.phase = 0
        BY <1>4, Zenon
      <3>2. gmem'.phase = 0
        BY <1>5, Zenon
      <3> QED BY <3>1, <3>2
    <2>2. \A u \in Block!ThreadsOf(p), k \in 1..Len(p) :
            p[k].op = "test wait" /\ round'[u] > k => gmem'.phase >= Block!Arrivals(p, k)
      BY <2>1, PhasesKept DEF AwbarCounts
    <2> QED BY <1>5, <1>6, <2>2 DEF PhasesPassed
  <1>10. StatesKept(p)'
    BY StatesMove
  <1>11. LinksArrive(p)'
    <2>1. \A c \in reg'.links : Block!Arrivals(p, c[2]) = gmem'.phase
      BY <1>5
    <2>2. ASSUME NEW u \in Block!ThreadsOf(p), NEW m \in 1..Len(p), p[m].op = "link", Block!Takes(p, u, m),
                 round'[u] > m, << u, m >> \notin reg'.links, NEW c \in reg'.copies, c[1] = u
          PROVE  c[2] > m
      BY <2>2, LinksMove DEF AwbarCounts
    <2> QED BY <2>1, <2>2 DEF LinksArrive
  <1> QED BY <1>8, <1>9, <1>10, <1>11 DEF AwbarCounts

\* A link makes one more arrival due.
LEMMA LinkStep ==
  ASSUME NEW CONSTANT p, Typed(p), SyncsPassed(p), Block!AwbarWellUsed(p), AwbarUsed(p), AwbarCounts(p),
         NEW t, NEW i, Moves(p, t, i), Effect(p, t, i), Waits(p, t, i), Links(p, i)
  PROVE  AwbarCounts(p)'
  <1>1. /\ t \in Block!ThreadsOf(p) /\ i \in 1..Len(p) /\ Block!Takes(p, t, i) /\ i = round[t]
        /\ gmem.phase \in Nat /\ gmem.pending \in Int /\ Len(p) \in Nat
    BY DEF Moves, Typed, Block!WellFormed
  <1>2. gmem' = Block!Expecting(gmem) /\ reg'.links = reg.links \cup {<< t, i >>}
    <2>0. BarrierMoves(p, t, i)
      BY AllFields
    <2>1. gmem' = Block!Expecting(gmem)
      BY <2>0, Zenon DEF Links, BarrierMoves
    <2>2. reg'.links = reg.links \cup {<< t, i >>}
      <3>1. \A c : c \in reg'.links <=> c \in reg.links \/ c = << t, i >>
        BY Fields DEF Links
      <3> QED BY <3>1
    <2> QED BY <2>1, <2>2
  <1>3. gmem'.phase = gmem.phase /\ gmem'.pending = gmem.pending + 1
    BY <1>2 DEF Block!Expecting
  <1>4. Initialised(p) /\ Initialised(p)'
    <2>1. Initialised(p)
      <3>1. p[i].op \in AwbarOps
        BY DEF AwbarOps, Links
      <3>2. round[t] >= i
        BY <1>1
      <3> QED BY <1>1, <3>1, <3>2, UseInitialised
    <2> QED BY <2>1, InitMoves DEF Links
  <1>5. \A u \in Block!ThreadsOf(p) : Turn(p, u)' = Turn(p, u)
    <2>1. p[i].op # "arrive"
      BY DEF Links
    <2> QED BY <2>1, TurnsKept
  <1>6. /\ \A u \in Block!ThreadsOf(p) : Turn(p, u)' \in {gmem'.phase, gmem'.phase + 1}
        /\ Due(p)' = Due(p)
    BY <1>3, <1>5, OneAhead DEF AwbarCounts
  <1>7. Counted(p)'
    <2>1. << t, i >> \notin reg.links
      BY <1>1 DEF Typed
    <2>2. Block!IsFiniteSet(reg.links)
      BY LinksFinite
    <2>3. Block!Cardinality(reg'.links) = Block!Cardinality(reg.links) + 1
      BY <1>2, <2>1, <2>2, SetWithOneMore
    <2>4. Block!Cardinality(reg.links) \in Nat /\ Block!Cardinality(Due(p)) \in Nat
      BY <2>2, SetSize, DueFinite
    <2> QED BY <1>3, <1>4, <1>6, <2>3, <2>4 DEF AwbarCounts, Counted
  <1>8. PhasesPassed(p)'
    <2>1. gmem'.phase >= gmem.phase /\ gmem'.phase \in Nat
      BY <1>1, <1>3
    <2>2. \A u \in Block!ThreadsOf(p), k \in 1..Len(p) :
            p[k].op = "test wait" /\ round'[u] > k => gmem'.phase >= Block!Arrivals(p, k)
      BY <2>1, PhasesKept DEF AwbarCounts
    <2> QED BY <1>6, <2>2 DEF PhasesPassed
  <1>9. StatesKept(p)'
    BY StatesMove
  <1>10. LinksArrive(p)'
    <2>1. Turn(p, t) = gmem.phase /\ Turn(p, t) = Block!Arrivals(p, i)
      BY <1>1, InPhase DEF Turn, Links
    <2>2. \A c \in reg'.links : Block!Arrivals(p, c[2]) = gmem'.phase
      BY <1>2, <1>3, <2>1 DEF AwbarCounts, LinksArrive
    <2>3. ASSUME NEW u \in Block!ThreadsOf(p), NEW m \in 1..Len(p), p[m].op = "link", Block!Takes(p, u, m),
                 round'[u] > m, << u, m >> \notin reg'.links, NEW c \in reg'.copies, c[1] = u
          PROVE  c[2] > m
      BY <2>3, LinksMove DEF AwbarCounts
    <2> QED BY <2>2, <2>3 DEF LinksArrive
  <1> QED BY <1>7, <1>8, <1>9, <1>10 DEF AwbarCounts

\* The phase ends with the last arrival due; until then there is one fewer.
LEMMA ArrivedEnds ==
  ASSUME NEW bar, NEW n PROVE
    /\ bar.pending = 1 => Block!Arrived(bar, n).phase = bar.phase + 1 /\ Block!Arrived(bar, n).pending = n
    /\ bar.pending # 1 =>
         Block!Arrived(bar, n).phase = bar.phase /\ Block!Arrived(bar, n).pending = bar.pending - 1
  BY DEF Block!Arrived

\* When a phase ends every thread is due in the next.
LEMMA NextPhase ==
  ASSUME NEW CONSTANT p, Typed(p), \A u \in Block!ThreadsOf(p) : Turn(p, u)' = gmem.phase + 1,
         Initialised(p)', gmem'.phase = gmem.phase + 1,
         gmem'.pending = Block!Cardinality(Block!ThreadsOf(p)), reg'.links = {}
  PROVE  Counted(p)'
  <1>1. Due(p)' = Block!ThreadsOf(p)
    BY DEF Due
  <1>2. Block!Cardinality({}) = 0 /\ Block!Cardinality(Block!ThreadsOf(p)) \in Nat
    BY EmptySetSize, BlockSize
  <1>3. gmem'.pending = Block!Cardinality(Due(p)') + Block!Cardinality(reg'.links)
    BY <1>1, <1>2
  <1> QED BY <1>3 DEF Counted

\* A thread that arrives is due in the phase, and then in the next.
LEMMA ArriveStep ==
  ASSUME NEW CONSTANT p, Typed(p), SyncsPassed(p), Block!AwbarWellUsed(p), AwbarUsed(p), AwbarCounts(p),
         NEW t, NEW i, Moves(p, t, i), Effect(p, t, i), Waits(p, t, i), Arrives(p, i)
  PROVE  AwbarCounts(p)'
  <1>1. /\ t \in Block!ThreadsOf(p) /\ i \in 1..Len(p) /\ Block!Takes(p, t, i) /\ i = round[t]
        /\ gmem.phase \in Nat /\ gmem.pending \in Int /\ Len(p) \in Nat
    BY DEF Moves, Typed, Block!WellFormed
  <1>2. gmem' = Block!Arrived(gmem, Block!Cardinality(Block!ThreadsOf(p))) /\ reg'.links = reg.links
    <2>0. BarrierMoves(p, t, i)
      BY AllFields
    <2>1. gmem' = Block!Arrived(gmem, Block!Cardinality(Block!Threads))
      BY <2>0, Zenon DEF Arrives, BarrierMoves
    <2>2. \A c : c \in reg'.links <=> c \in reg.links
      BY Fields DEF Arrives
    <2>3. Block!Threads = Block!ThreadsOf(p)
      BY BlockSize
    <2> QED BY <2>1, <2>2, <2>3
  <1>3. /\ gmem.pending = 1 =>
             gmem'.phase = gmem.phase + 1 /\ gmem'.pending = Block!Cardinality(Block!ThreadsOf(p))
        /\ gmem.pending # 1 => gmem'.phase = gmem.phase /\ gmem'.pending = gmem.pending - 1
    BY <1>2, ArrivedEnds
  <1>4. Initialised(p) /\ Initialised(p)'
    <2>1. Initialised(p)
      <3>1. p[i].op \in AwbarOps
        BY DEF AwbarOps, Arrives
      <3>2. round[t] >= i
        BY <1>1
      <3> QED BY <1>1, <3>1, <3>2, UseInitialised
    <2> QED BY <2>1, InitMoves DEF Arrives
  <1>5. Turn(p, t) = gmem.phase
    BY <1>1, InPhase DEF Arrives
  <1>6. Turn(p, t)' = gmem.phase + 1 /\ \A u \in Block!ThreadsOf(p) : u # t => Turn(p, u)' = Turn(p, u)
    <2>0. TurnMove(p, t, i)
      BY TurnMoves
    <2>1. Turn(p, t)' = Turn(p, t) + 1
      BY <2>0 DEF Arrives, TurnMove
    <2>2. \A u \in Block!ThreadsOf(p) : u # t => Turn(p, u)' = Turn(p, u)
      BY OtherTurns
    <2> QED BY <1>5, <2>1, <2>2
  <1>7. \A u \in Block!ThreadsOf(p) : Turn(p, u) \in {gmem.phase, gmem.phase + 1}
    BY DEF AwbarCounts, PhasesPassed
  <1>8. /\ Block!IsFiniteSet(Due(p)) /\ Block!IsFiniteSet(reg.links) /\ t \in Due(p)
        /\ Block!Cardinality(Due(p)) \in Nat /\ Block!Cardinality(reg.links) \in Nat
        /\ gmem.pending = Block!Cardinality(Due(p)) + Block!Cardinality(reg.links)
    <2>1. t \in Due(p)
      BY <1>1, <1>5 DEF Due
    <2>2. Block!Cardinality(reg.links) \in Nat
      BY LinksFinite, SetSize
    <2> QED BY <1>4, <2>1, <2>2, DueFinite, LinksFinite DEF AwbarCounts, Counted
  <1>9. StatesKept(p)'
    BY StatesMove
  <1>10. \A u \in Block!ThreadsOf(p), m \in 1..Len(p) :
           p[m].op = "link" /\ Block!Takes(p, u, m) /\ round'[u] > m /\ << u, m >> \notin reg'.links =>
             \A c \in reg'.copies : c[1] = u => c[2] > m
    BY LinksMove DEF AwbarCounts
  <1>11. ASSUME gmem'.phase >= gmem.phase
         PROVE  \A u \in Block!ThreadsOf(p), k \in 1..Len(p) :
                  p[k].op = "test wait" /\ round'[u] > k => gmem'.phase >= Block!Arrivals(p, k)
    <2>1. gmem'.phase \in Nat
      BY <1>1, <1>3
    <2> QED BY <1>11, <2>1, PhasesKept DEF AwbarCounts
  <1>12. CASE gmem.pending = 1
    <2>1. Due(p) = {t} /\ reg.links = {}
      BY <1>8, <1>12, OnlyOne
    <2>2. \A u \in Block!ThreadsOf(p) : Turn(p, u)' = gmem.phase + 1
      <3> SUFFICES ASSUME NEW u \in Block!ThreadsOf(p), u # t PROVE Turn(p, u)' = gmem.phase + 1
        BY <1>6
      <3>1. u \notin Due(p)
        BY <2>1
      <3>2. Turn(p, u) # gmem.phase
        BY <3>1 DEF Due
      <3> QED BY <1>6, <1>7, <3>2
    <2>3. gmem'.phase = gmem.phase + 1 /\ gmem'.pending = Block!Cardinality(Block!ThreadsOf(p))
      BY <1>3, <1>12
    <2>4. reg'.links = {}
      BY <1>2, <2>1
    <2>5. Counted(p)'
      BY <1>4, <2>2, <2>3, <2>4, NextPhase
    <2>6. PhasesPassed(p)'
      <3>1. gmem'.phase >= gmem.phase
        BY <1>1, <2>3
      <3> QED BY <1>11, <2>2, <2>3, <3>1 DEF PhasesPassed
    <2>7. LinksArrive(p)'
      BY <1>10, <2>4 DEF LinksArrive
    <2> QED BY <1>9, <2>5, <2>6, <2>7 DEF AwbarCounts
  <1>13. CASE gmem.pending # 1
    <2>1. gmem'.phase = gmem.phase /\ gmem'.pending = gmem.pending - 1
      BY <1>3, <1>13
    <2>2. Due(p)' = Due(p) \ {t}
      <3>1. \A u \in Block!ThreadsOf(p) : Turn(p, u)' = gmem'.phase <=> Turn(p, u) = gmem.phase /\ u # t
        BY <1>1, <1>6, <2>1
      <3> QED BY <3>1 DEF Due
    <2>3. Block!Cardinality(Due(p)') = Block!Cardinality(Due(p)) - 1
      BY <1>8, <2>2, SetWithOneLess
    <2>4. gmem'.pending = Block!Cardinality(Due(p)') + Block!Cardinality(reg'.links)
      BY <1>2, <1>8, <2>1, <2>3
    <2>5. Counted(p)'
      BY <1>4, <2>4 DEF Counted
    <2>6. PhasesPassed(p)'
      <3>1. gmem'.phase >= gmem.phase
        BY <1>1, <2>1
      <3>2. \A u \in Block!ThreadsOf(p) : Turn(p, u)' \in {gmem'.phase, gmem'.phase + 1}
        BY <1>6, <1>7, <2>1
      <3> QED BY <1>11, <3>1, <3>2 DEF PhasesPassed
    <2>7. LinksArrive(p)'
      <3>1. \A c \in reg'.links : Block!Arrivals(p, c[2]) = gmem'.phase
        BY <1>2, <2>1 DEF AwbarCounts, LinksArrive
      <3> QED BY <1>10, <3>1 DEF LinksArrive
    <2> QED BY <1>9, <2>5, <2>6, <2>7 DEF AwbarCounts
  <1> QED BY <1>12, <1>13

\* A link arrives when the copies before it are done.
LEMMA LinkArrivesStep ==
  ASSUME NEW CONSTANT p, Typed(p), SyncsPassed(p), Block!AwbarWellUsed(p), AwbarUsed(p), AwbarCounts(p),
         NEW c \in reg.links, Block!LinkArrives(c[1], c[2])
  PROVE  AwbarCounts(p)'
  <1>1. /\ c = << c[1], c[2] >> /\ reg'.links = reg.links \ {c}
        /\ reg'.copies = reg.copies /\ reg'.state = reg.state
        /\ gmem' = Block!Arrived(gmem, Block!Cardinality(Block!Threads))
        /\ UNCHANGED << host, smem, round >>
        /\ \A d \in reg.copies : d[1] = c[1] => d[2] > c[2]
    BY LinkFields
  <1>2. Block!Threads = Block!ThreadsOf(p) /\ gmem.phase \in Nat /\ gmem.pending \in Int
    BY BlockSize DEF Typed
  <1>3. /\ gmem.pending = 1 =>
             gmem'.phase = gmem.phase + 1 /\ gmem'.pending = Block!Cardinality(Block!ThreadsOf(p))
        /\ gmem.pending # 1 => gmem'.phase = gmem.phase /\ gmem'.pending = gmem.pending - 1
    BY <1>1, <1>2, ArrivedEnds
  <1>4. Initialised(p) /\ Initialised(p)'
    <2>1. c[1] \in Block!ThreadsOf(p) /\ c[2] \in 1..Len(p) /\ Links(p, c[2]) /\ round[c[1]] > c[2]
      BY DEF Typed, Links
    <2>2. p[c[2]].op \in AwbarOps
      BY <2>1 DEF AwbarOps, Links
    <2>3. round[c[1]] >= c[2]
      BY <2>1 DEF Typed
    <2>4. Initialised(p)
      BY <2>1, <2>2, <2>3, UseInitialised
    <2> QED BY <1>1, <2>4 DEF Initialised
  <1>5. \A u \in Block!ThreadsOf(p) : Turn(p, u)' = Turn(p, u)
    BY <1>1 DEF Turn
  <1>6. \A u \in Block!ThreadsOf(p) : Turn(p, u) \in {gmem.phase, gmem.phase + 1}
    BY DEF AwbarCounts, PhasesPassed
  <1>7. /\ Block!IsFiniteSet(Due(p)) /\ Block!IsFiniteSet(reg.links)
        /\ Block!Cardinality(Due(p)) \in Nat /\ Block!Cardinality(reg.links) \in Nat
        /\ gmem.pending = Block!Cardinality(Due(p)) + Block!Cardinality(reg.links)
    <2>1. Block!Cardinality(reg.links) \in Nat
      BY LinksFinite, SetSize
    <2> QED BY <1>4, <2>1, DueFinite, LinksFinite DEF AwbarCounts, Counted
  <1>8. StatesKept(p)'
    BY <1>1, <1>5 DEF AwbarCounts, StatesKept
  <1>9. \A u \in Block!ThreadsOf(p), m \in 1..Len(p) :
           p[m].op = "link" /\ Block!Takes(p, u, m) /\ round'[u] > m /\ << u, m >> \notin reg'.links =>
             \A d \in reg'.copies : d[1] = u => d[2] > m
    BY <1>1 DEF AwbarCounts, LinksArrive
  <1>10. ASSUME gmem'.phase \in Nat, gmem'.phase >= gmem.phase
         PROVE  \A u \in Block!ThreadsOf(p), k \in 1..Len(p) :
                  p[k].op = "test wait" /\ round'[u] > k => gmem'.phase >= Block!Arrivals(p, k)
    <2>1. \A k \in 1..Len(p) : Block!Arrivals(p, k) \in Nat
      BY ArrivalsTyped
    <2>2. \A k \in 1..Len(p) : gmem.phase >= Block!Arrivals(p, k) => gmem'.phase >= Block!Arrivals(p, k)
      BY <1>2, <1>10, <2>1
    <2> QED BY <1>1, <2>2 DEF AwbarCounts, PhasesPassed
  <1>11. CASE gmem.pending = 1
    <2>1. reg.links = {c} /\ Due(p) = {}
      BY <1>7, <1>11, OnlyOne
    <2>2. \A u \in Block!ThreadsOf(p) : Turn(p, u)' = gmem.phase + 1
      BY <1>5, <1>6, <2>1 DEF Due
    <2>3. gmem'.phase = gmem.phase + 1 /\ gmem'.pending = Block!Cardinality(Block!ThreadsOf(p))
      BY <1>3, <1>11
    <2>4. reg'.links = {}
      BY <1>1, <2>1
    <2>5. Counted(p)'
      BY <1>4, <2>2, <2>3, <2>4, NextPhase
    <2>6. PhasesPassed(p)'
      <3>1. gmem'.phase >= gmem.phase /\ gmem'.phase \in Nat
        BY <1>2, <2>3
      <3> QED BY <1>10, <2>2, <2>3, <3>1 DEF PhasesPassed
    <2>7. LinksArrive(p)'
      BY <1>9, <2>4 DEF LinksArrive
    <2> QED BY <1>8, <2>5, <2>6, <2>7 DEF AwbarCounts
  <1>12. CASE gmem.pending # 1
    <2>1. gmem'.phase = gmem.phase /\ gmem'.pending = gmem.pending - 1
      BY <1>3, <1>12
    <2>2. Due(p)' = Due(p)
      BY <1>5, <2>1 DEF Due
    <2>3. Block!Cardinality(reg'.links) = Block!Cardinality(reg.links) - 1
      BY <1>1, <1>7, SetWithOneLess
    <2>4. gmem'.pending = Block!Cardinality(Due(p)') + Block!Cardinality(reg'.links)
      BY <1>7, <2>1, <2>2, <2>3
    <2>5. Counted(p)'
      BY <1>4, <2>4 DEF Counted
    <2>6. PhasesPassed(p)'
      <3>1. gmem'.phase >= gmem.phase /\ gmem'.phase \in Nat
        BY <1>2, <2>1
      <3>2. \A u \in Block!ThreadsOf(p) : Turn(p, u)' \in {gmem'.phase, gmem'.phase + 1}
        BY <1>5, <1>6, <2>1
      <3> QED BY <1>10, <3>1, <3>2 DEF PhasesPassed
    <2>7. LinksArrive(p)'
      <3>1. \A d \in reg'.links : Block!Arrivals(p, d[2]) = gmem'.phase
        BY <1>1, <2>1 DEF AwbarCounts, LinksArrive
      <3> QED BY <1>9, <3>1 DEF LinksArrive
    <2> QED BY <1>8, <2>5, <2>6, <2>7 DEF AwbarCounts
  <1> QED BY <1>11, <1>12

\* The barrier counts what is due, always.
LEMMA AwbarStep ==
  ASSUME NEW CONSTANT p, Typed(p), SyncsPassed(p), Block!AwbarWellUsed(p), AwbarInv(p), Block!Next
  PROVE  AwbarInv(p)'
  <1> SUFFICES ASSUME AwbarUsed(p) PROVE AwbarCounts(p)'
    BY DEF AwbarInv
  <1>1. AwbarCounts(p)
    BY DEF AwbarInv
  <1>2. ASSUME NEW t, NEW i, Moves(p, t, i), Effect(p, t, i), Waits(p, t, i)
        PROVE  AwbarCounts(p)'
    <2>1. CASE Initialises(p, i)
      BY <1>1, <1>2, <2>1, InitStep
    <2>2. CASE Links(p, i)
      BY <1>1, <1>2, <2>2, LinkStep
    <2>3. CASE Arrives(p, i)
      BY <1>1, <1>2, <2>3, ArriveStep
    <2>4. CASE ~ Handles(p, i)
      BY <1>1, <1>2, <2>4, QuietStep
    <2> QED BY <2>1, <2>2, <2>3, <2>4 DEF Handles, Initialises, Links, Arrives
  <1>3. ASSUME NEW c \in reg.copies, Block!CopyLands(c[1], c[2]) PROVE AwbarCounts(p)'
    <2>1. /\ reg'.copies \subseteq reg.copies /\ reg'.links = reg.links /\ reg'.state = reg.state
          /\ UNCHANGED << host, gmem, round >>
      BY <1>3, LandsFields
    <2>2. Due(p)' = Due(p) /\ (Initialised(p)' <=> Initialised(p))
          /\ \A u \in Block!ThreadsOf(p) : Turn(p, u)' = Turn(p, u)
      BY <2>1 DEF Due, Initialised, Turn
    <2>3. Counted(p)' /\ PhasesPassed(p)' /\ StatesKept(p)'
      BY <1>1, <2>1, <2>2 DEF AwbarCounts, Counted, PhasesPassed, StatesKept
    <2>4. LinksArrive(p)'
      BY <1>1, <2>1 DEF AwbarCounts, LinksArrive
    <2> QED BY <2>3, <2>4 DEF AwbarCounts
  <1>4. ASSUME NEW c \in reg.links, Block!LinkArrives(c[1], c[2]) PROVE AwbarCounts(p)'
    BY <1>1, <1>4, LinkArrivesStep
  <1> QED BY <1>2, <1>3, <1>4, Steps

-------------------------------------------------------------------------------
(* Accesses, and the order the barriers enforce                            *)

\* Access a has been made, and if it is a copy it has landed.
Done(a) == round[a[1]] > a[2] /\ a \notin reg.copies

Ordering(p) ==
  Typed(p) /\ Block!WellOrdered(p) /\ SyncsPassed(p) /\ GroupsWaited(p) /\ AwbarInv(p)

\* A thread that has waited for its copy has it.
LEMMA WaitedDone ==
  ASSUME NEW p, Typed(p), GroupsWaited(p), NEW a \in Block!ThreadsOf(p) \X (1..Len(p)),
         NEW k \in 1..Len(p), Block!Waited(p, a, k), round[a[1]] >= k
  PROVE  a \notin reg.copies
  <1> SUFFICES ASSUME a \in reg.copies PROVE FALSE
    OBVIOUS
  <1>1. p[a[2]].op = "copy"
    BY DEF Typed
  <1>2. a[1] \in Block!ThreadsOf(p) /\ a[2] \in 1..Len(p) /\ Len(p) \in Nat
        /\ round[a[1]] \in 1..Len(p) + 1
    BY DEF Typed, Block!WellFormed
  <1>3. PICK m \in a[2] + 1..k - 1 :
          /\ p[m].op = "wait group" /\ Block!Takes(p, a[1], m)
          /\ Block!Cardinality(Block!Committed(p, a[1], a[2], m)) > p[m].n
    BY <1>1 DEF Block!Waited
  <1>4. m \in 1..Len(p) /\ round[a[1]] > m /\ a[2] < m
    BY <1>2
  <1>5. Block!Cardinality(Block!Committed(p, a[1], a[2], m)) <= p[m].n
    BY <1>2, <1>3, <1>4 DEF GroupsWaited
  <1>6. p[m].n \in Nat
    BY <1>4 DEF Typed, Block!WellFormed
  <1>7. Block!Cardinality(Block!Committed(p, a[1], a[2], m)) \in Nat
    <2>1. Block!IsFiniteSet(a[2]..m)
      BY <1>2, <1>4, IntervalSize
    <2>2. Block!Committed(p, a[1], a[2], m) \subseteq a[2]..m
      BY DEF Block!Committed
    <2> QED BY <2>1, <2>2, SubsetSize, SetSize
  <1>8. Block!Cardinality(Block!Committed(p, a[1], a[2], m)) > p[m].n
    BY <1>3, Zenon
  <1> QED BY <1>5, <1>6, <1>7, <1>8

Tests(p, k) == p[k].op = "test wait"

\* A thread is past the arrival that another has waited for, and its links are done.
LEMMA PhasePassed ==
  ASSUME NEW CONSTANT p, Typed(p), Block!AwbarWellUsed(p), AwbarInv(p),
         NEW u \in Block!ThreadsOf(p), NEW k \in 1..Len(p), Tests(p, k), round[u] > k,
         NEW t \in Block!ThreadsOf(p)
  PROVE  round[t] >= k /\ gmem.phase >= Block!Arrivals(p, k)
  <1>1. Len(p) \in Nat /\ round[t] \in 1..Len(p) + 1 /\ k \in Nat /\ gmem.phase \in Nat
    BY DEF Typed, Block!WellFormed
  <1>2. AwbarCounts(p)
    BY DEF AwbarInv, AwbarUsed, AwbarOps, Tests
  <1>3. gmem.phase >= Block!Arrivals(p, k)
    BY <1>2 DEF AwbarCounts, PhasesPassed, Tests
  <1>4. PICK m \in 1..Len(p) : m + 1 = k /\ p[m].op = "arrive"
    <2>1. p[k].op \in AwbarOps /\ Block!WellFormed(p) /\ p[k].op = "test wait"
      BY DEF Typed, AwbarOps, Tests
    <2> QED BY <2>1, WellUsed, Zenon
  <1>5. Block!Arrivals(p, m) < Block!Arrivals(p, k)
    <2>1. m + 1 = k
      BY <1>4, Zenon
    <2>2. m \in Nat \ {0} /\ k \in Nat /\ m < k
      BY <1>1, <2>1
    <2> QED BY <1>4, <2>2, ArrivalsMore, Zenon
  <1>6. Turn(p, t) \in {gmem.phase, gmem.phase + 1}
    BY <1>2 DEF AwbarCounts, PhasesPassed
  <1>7. round[t] <= m => Turn(p, t) <= Block!Arrivals(p, m)
    <2>1. round[t] \in Nat /\ m \in Nat
      BY <1>1
    <2> QED BY <2>1, ArrivalsMonotone DEF Turn
  <1>8. Block!Arrivals(p, m) \in Nat /\ Block!Arrivals(p, k) \in Nat
    <2>1. m \in Nat
      BY <1>1
    <2> QED BY <1>1, <2>1, ArrivalsTyped
  <1>9. ~ (round[t] <= m)
    BY <1>1, <1>3, <1>5, <1>6, <1>7, <1>8
  <1>10. m + 1 = k
    BY <1>4, Zenon
  <1> QED BY <1>1, <1>3, <1>9, <1>10

\* An access that is separated from a later one is done when that is to be made.
LEMMA Separation ==
  ASSUME NEW CONSTANT p, Ordering(p), NEW a \in Block!ThreadsOf(p) \X (1..Len(p)),
         NEW b \in Block!ThreadsOf(p) \X (1..Len(p)), a[2] < b[2], Block!Separated(p, a, b),
         round[b[1]] >= b[2]
  PROVE  Done(a)
  <1>1. Typed(p) /\ Block!WellFormed(p) /\ Block!AwbarWellUsed(p) /\ SyncsPassed(p) /\ GroupsWaited(p) /\ AwbarInv(p)
    BY DEF Ordering, Block!WellOrdered
  <1>2. /\ a[1] \in Block!ThreadsOf(p) /\ a[2] \in 1..Len(p) /\ b[1] \in Block!ThreadsOf(p) /\ b[2] \in 1..Len(p)
        /\ Len(p) \in Nat /\ \A t \in Block!ThreadsOf(p) : round[t] \in 1..Len(p) + 1
    BY <1>1 DEF Typed, Block!WellFormed
  <1>3. CASE a[1] = b[1] /\ Block!Waited(p, a, b[2])
    <2>1. a \notin reg.copies
      BY <1>1, <1>2, <1>3, WaitedDone
    <2> QED BY <1>2, <1>3, <2>1 DEF Done
  <1>4. ASSUME NEW k \in a[2] + 1..b[2] - 1, Block!Takes(p, b[1], k),
               p[k].op = "sync", a[1] \in p[k].on[b[1]], Block!Waited(p, a, k)
        PROVE  Done(a)
    <2>1. k \in 1..Len(p) /\ round[b[1]] > k /\ k > a[2]
      BY <1>2
    <2>2. round[a[1]] >= k
      BY <1>1, <1>2, <1>4, <2>1 DEF SyncsPassed
    <2>3. a \notin reg.copies
      BY <1>1, <1>2, <1>4, <2>1, <2>2, WaitedDone
    <2> QED BY <1>2, <2>1, <2>2, <2>3 DEF Done
  <1>5. ASSUME NEW k \in a[2] + 1..b[2] - 1, Block!Takes(p, b[1], k),
               p[k].op = "test wait", Block!Waited(p, a, k) \/ Block!Linked(p, a, k)
        PROVE  Done(a)
    <2>1. k \in 1..Len(p) /\ round[b[1]] > k /\ k > a[2]
      BY <1>2
    <2>2. round[a[1]] >= k /\ gmem.phase >= Block!Arrivals(p, k)
      BY <1>1, <1>2, <1>5, <2>1, PhasePassed DEF Tests
    <2>3. CASE Block!Waited(p, a, k)
      <3>1. a \notin reg.copies
        BY <1>1, <2>1, <2>2, <2>3, WaitedDone
      <3> QED BY <1>2, <2>1, <2>2, <3>1 DEF Done
    <2>4. CASE Block!Linked(p, a, k)
      <3>1. PICK m \in a[2] + 1..k - 1 :
              p[m].op = "link" /\ Block!Takes(p, a[1], m) /\ Block!Arrivals(p, m) < Block!Arrivals(p, k)
        BY <2>4 DEF Block!Linked
      <3>2. m \in 1..Len(p) /\ round[a[1]] > m /\ a[2] < m
        BY <1>2, <2>1, <2>2
      <3>3. AwbarCounts(p)
        BY <1>1, <1>5, <2>1 DEF AwbarInv, AwbarUsed, AwbarOps
      <3>4. Block!Arrivals(p, m) \in Nat /\ Block!Arrivals(p, k) \in Nat /\ gmem.phase \in Nat
        <4>1. m \in Nat /\ k \in Nat
          BY <2>1, <3>2
        <4> QED BY <1>1, <4>1, ArrivalsTyped DEF Typed
      <3>5. << a[1], m >> \notin reg.links
        <4>1. << a[1], m >> \in reg.links => Block!Arrivals(p, m) = gmem.phase
          BY <3>3 DEF AwbarCounts, LinksArrive
        <4>2. ~ (Block!Arrivals(p, m) = gmem.phase)
          BY <2>2, <3>1, <3>4
        <4> QED BY <4>1, <4>2
      <3>6. \A c \in reg.copies : c[1] = a[1] => c[2] > m
        BY <1>2, <3>1, <3>2, <3>3, <3>5 DEF AwbarCounts, LinksArrive
      <3>7. a \notin reg.copies
        BY <1>2, <3>2, <3>6
      <3> QED BY <1>2, <2>1, <2>2, <3>7 DEF Done
    <2> QED BY <1>5, <2>3, <2>4
  <1> QED BY <1>3, <1>4, <1>5 DEF Block!Separated

-------------------------------------------------------------------------------
(* What the locations hold                                                 *)

Writing == Block!Accessing \ {"load"}

\* The latest of the stores and copies to l that are done, and the additions since.
Written(p, l) ==
  { w \in Block!Accesses(p, Writing, l) :
      Done(w) /\ \A v \in Block!Accesses(p, Block!Overwriting, l) : Done(v) => v[2] <= w[2] }

Content(p) == smem = [l \in Block!LocationsOf(p) |-> Written(p, l)]

\* An access is a thread and a step that it takes.
LEMMA AccessFacts ==
  ASSUME NEW p, Block!WellFormed(p), NEW ops, NEW l, NEW a \in Block!Accesses(p, ops, l)
  PROVE  /\ a = << a[1], a[2] >> /\ a \in Block!ThreadsOf(p) \X (1..Len(p))
         /\ a[1] \in Block!ThreadsOf(p) /\ a[2] \in 1..Len(p) /\ Block!Takes(p, a[1], a[2])
         /\ l \in p[a[2]].on[a[1]] /\ a[2] \in Int
  <1>1. Len(p) \in Nat
    BY DEF Block!WellFormed
  <1> QED BY <1>1 DEF Block!Accesses

\* The accesses of any kind are among those of all kinds.
LEMMA AccessKinds ==
  ASSUME NEW p, NEW l
  PROVE  /\ Block!Accesses(p, Writing, l) \subseteq Block!Accesses(p, Block!Accessing, l)
         /\ Block!Accesses(p, Block!Overwriting, l) \subseteq Block!Accesses(p, Writing, l)
         /\ \A a \in Block!Accesses(p, Block!Overwriting, l) : p[a[2]].op \in Block!Overwriting
         /\ \A a \in Block!Accesses(p, Writing, l) : p[a[2]].op # "load"
  BY DEF Block!Accesses, Writing, Block!Accessing, Block!Overwriting

\* A step accesses locations of the program.
LEMMA Located ==
  ASSUME NEW p, Block!WellFormed(p), NEW l, NEW a \in Block!Accesses(p, Block!Accessing, l)
  PROVE  l \in Block!LocationsOf(p)
  <1>1. a[1] \in Block!ThreadsOf(p) /\ a[2] \in 1..Len(p) /\ l \in p[a[2]].on[a[1]]
        /\ p[a[2]].op \in Block!Accessing
    BY DEF Block!Accesses
  <1>2. p[a[2]].memory
    BY <1>1 DEF Block!WellFormed
  <1> QED BY <1>1, <1>2 DEF Block!LocationsOf

\* Of two accesses in conflict the first is done when the second comes.
LEMMA DoneBefore ==
  ASSUME NEW CONSTANT p, Ordering(p), NEW l,
         NEW a \in Block!Accesses(p, Block!Accessing, l), NEW b \in Block!Accesses(p, Block!Accessing, l),
         a[2] < b[2], Block!Conflict(p, a, b), round[b[1]] >= b[2]
  PROVE  Done(a)
  <1>1. Block!WellFormed(p) /\ Block!AccessesOrdered(p)
    BY DEF Ordering, Block!WellOrdered
  <1>2. Block!Separated(p, a, b)
    BY <1>1, Located DEF Block!AccessesOrdered
  <1>3. a \in Block!ThreadsOf(p) \X (1..Len(p)) /\ b \in Block!ThreadsOf(p) \X (1..Len(p))
    BY <1>1, AccessFacts
  <1> QED BY <1>2, <1>3, Separation

\* No write is done before a store or a copy that comes first.
LEMMA NoneLater ==
  ASSUME NEW CONSTANT p, Ordering(p), NEW l,
         NEW a \in Block!Accesses(p, Block!Overwriting, l), ~ Done(a),
         NEW w \in Block!Accesses(p, Writing, l), Done(w)
  PROVE  w[2] < a[2]
  <1>1. Block!WellFormed(p) /\ Block!AccessesOrdered(p) /\ Typed(p)
    BY DEF Ordering, Block!WellOrdered
  <1>2. /\ a \in Block!Accesses(p, Block!Accessing, l) /\ w \in Block!Accesses(p, Block!Accessing, l)
        /\ p[a[2]].op \in Block!Overwriting
    BY AccessKinds
  <1>3. a[2] \in Int /\ w[2] \in Int /\ w[1] \in Block!ThreadsOf(p)
    BY <1>1, <1>2, AccessFacts
  <1>4. round[w[1]] > w[2] /\ round[w[1]] \in Int
    BY <1>1, <1>3 DEF Done, Typed
  <1>5. ~ (a[2] < w[2])
    <2>1. Block!Conflict(p, a, w)
      BY <1>2 DEF Block!Conflict
    <2>2. round[w[1]] >= w[2]
      BY <1>3, <1>4
    <2> QED BY <1>2, <2>1, <2>2, DoneBefore
  <1>6. a[2] # w[2]
    <2>1. a[2] = w[2] => a = w
      <3>1. l \in Block!LocationsOf(p)
        BY <1>1, <1>2, Located
      <3> QED BY <1>1, <1>2, <3>1 DEF Block!AccessesOrdered
    <2> QED BY <2>1
  <1> QED BY <1>3, <1>5, <1>6

\* A store or a copy that is done at last leaves what it wrote only.
LEMMA Overwrites ==
  ASSUME NEW CONSTANT p, Ordering(p), NEW l,
         NEW a \in Block!Accesses(p, Block!Overwriting, l), ~ Done(a),
         \A w \in Block!Accesses(p, Writing, l) : Done(w)' <=> Done(w) \/ w = a
  PROVE  Written(p, l)' = {a}
  <1>1. Block!WellFormed(p)
    BY DEF Ordering, Block!WellOrdered
  <1>2. a \in Block!Accesses(p, Writing, l) /\ Done(a)' /\ a[2] \in Int
    BY <1>1, AccessKinds, AccessFacts
  <1>3. \A v \in Block!Accesses(p, Block!Overwriting, l) : Done(v)' => v[2] <= a[2]
    <2> SUFFICES ASSUME NEW v \in Block!Accesses(p, Block!Overwriting, l), Done(v)' PROVE v[2] <= a[2]
      OBVIOUS
    <2>1. v \in Block!Accesses(p, Writing, l) /\ v[2] \in Int
      BY <1>1, AccessKinds, AccessFacts
    <2>2. Done(v) \/ v = a
      BY <2>1
    <2>3. CASE Done(v)
      <3>1. v[2] < a[2]
        BY <2>1, <2>3, NoneLater
      <3> QED BY <1>2, <2>1, <3>1
    <2> QED BY <1>2, <2>2, <2>3
  <1>4. a \in Written(p, l)'
    BY <1>2, <1>3 DEF Written
  <1>5. ASSUME NEW w \in Written(p, l)' PROVE w = a
    <2>1. w \in Block!Accesses(p, Writing, l) /\ Done(w)' /\ a[2] <= w[2]
      BY <1>2 DEF Written
    <2>2. w[2] \in Int
      BY <1>1, <2>1, AccessFacts
    <2>3. SUFFICES ASSUME Done(w) PROVE FALSE
      BY <2>1
    <2>4. w[2] < a[2]
      BY <2>1, <2>3, NoneLater
    <2> QED BY <1>2, <2>1, <2>2, <2>4
  <1>6. \A w : w \in Written(p, l)' <=> w = a
    BY <1>4, <1>5
  <1> QED BY <1>6

\* An addition adds to what is there.
LEMMA AddsTo ==
  ASSUME NEW CONSTANT p, Ordering(p), NEW l,
         NEW a \in Block!Accesses(p, Writing, l), a \notin Block!Accesses(p, Block!Overwriting, l), ~ Done(a),
         \A w \in Block!Accesses(p, Writing, l) : Done(w)' <=> Done(w) \/ w = a
  PROVE  Written(p, l)' = Written(p, l) \cup {a}
  <1>1. Block!WellFormed(p)
    BY DEF Ordering, Block!WellOrdered
  <1>2. Done(a)' /\ a[2] \in Int /\ a \in Block!Accesses(p, Block!Accessing, l)
    BY <1>1, AccessKinds, AccessFacts
  <1>3. \A v \in Block!Accesses(p, Block!Overwriting, l) : Done(v)' <=> Done(v)
    BY AccessKinds
  <1>4. \A v \in Block!Accesses(p, Block!Overwriting, l) : Done(v) => v[2] <= a[2]
    <2> SUFFICES ASSUME NEW v \in Block!Accesses(p, Block!Overwriting, l), Done(v), ~ (v[2] <= a[2]) PROVE FALSE
      OBVIOUS
    <2>1. v \in Block!Accesses(p, Block!Accessing, l) /\ v[2] \in Int /\ v[1] \in Block!ThreadsOf(p)
      BY <1>1, AccessKinds, AccessFacts
    <2>2. a[2] < v[2]
      BY <1>2, <2>1
    <2>3. round[v[1]] >= v[2]
      <3>1. round[v[1]] \in Int /\ round[v[1]] > v[2]
        BY <2>1 DEF Done, Ordering, Typed
      <3> QED BY <2>1, <3>1
    <2>4. Block!Conflict(p, a, v)
      <3>1. p[v[2]].op \in Block!Overwriting
        BY AccessKinds
      <3>2. p[a[2]].op \notin Block!Overwriting
        BY DEF Block!Accesses
      <3> QED BY <3>1, <3>2 DEF Block!Conflict
    <2> QED BY <1>2, <2>1, <2>2, <2>3, <2>4, DoneBefore
  <1>5. ASSUME NEW w \in Block!Accesses(p, Writing, l)
        PROVE  w \in Written(p, l)' <=> w \in Written(p, l) \/ w = a
    <2>1. CASE w = a
      BY <1>2, <1>3, <1>4, <2>1 DEF Written
    <2>2. CASE w # a
      BY <1>3, <2>2 DEF Written
    <2> QED BY <2>1, <2>2
  <1>6. \A w : w \in Written(p, l)' <=> w \in Written(p, l) \cup {a}
    BY <1>5 DEF Written
  <1> QED BY <1>6

\* What a location holds depends on what is done of its accesses.
LEMMA SameWritten ==
  ASSUME NEW CONSTANT p, NEW l, \A w \in Block!Accesses(p, Writing, l) : Done(w)' <=> Done(w)
  PROVE  Written(p, l)' = Written(p, l)
  <1>1. \A v \in Block!Accesses(p, Block!Overwriting, l) : Done(v)' <=> Done(v)
    BY AccessKinds
  <1> QED BY <1>1 DEF Written

\* A step of a thread does what it accesses, unless it is a copy.
Copies(p, i) == p[i].op = "copy"

\* A step that is not a copy is done once it is taken; nothing else becomes done by it.
LEMMA DoneMoves ==
  ASSUME NEW CONSTANT p, Typed(p), NEW t, NEW i, Moves(p, t, i), Effect(p, t, i),
         NEW l, NEW w \in Block!Accesses(p, Writing, l)
  PROVE  /\ Done(w)' <=> Done(w) \/ (w = << t, i >> /\ ~ Copies(p, i))
         /\ w = << t, i >> => ~ Done(w)
  <1>1. /\ w = << w[1], w[2] >> /\ w[1] \in Block!ThreadsOf(p) /\ w[2] \in 1..Len(p)
        /\ Block!Takes(p, w[1], w[2])
    BY AccessFacts DEF Typed
  <1>2. round'[w[1]] > w[2] <=> round[w[1]] > w[2] \/ w = << t, i >>
    <2>1. round'[w[1]] > w[2] <=> round[w[1]] > w[2] \/ (w[1] = t /\ w[2] = i)
      BY <1>1, MovesOn
    <2> QED BY <1>1, <2>1
  <1>3. w \in reg'.copies <=> w \in reg.copies \/ (w = << t, i >> /\ Copies(p, i))
    BY Fields DEF Copies
  <1>4. w = << t, i >> => w \notin reg.copies /\ ~ (round[w[1]] > w[2])
    <2>1. i \in Int /\ i = round[t] /\ ~ (round[t] > i)
      BY DEF Moves, Typed, Block!WellFormed
    <2> QED BY <2>1 DEF Typed
  <1> QED BY <1>2, <1>3, <1>4 DEF Done

\* An access of the step's thread is the step.
LEMMA StepAccess ==
  ASSUME NEW CONSTANT p, Typed(p), NEW t, NEW i, Moves(p, t, i), NEW ops, p[i].op \in ops, NEW l
  PROVE  << t, i >> \in Block!Accesses(p, ops, l) <=> l \in p[i].on[t]
  BY DEF Moves, Block!Accesses

\* The locations hold the writes that are done and not overwritten.
LEMMA ContentStep ==
  ASSUME NEW CONSTANT p, Ordering(p), Content(p), Block!Next
  PROVE  Content(p)'
  <1>1. Typed(p) /\ Block!WellFormed(p) /\ p = Block!Program
    BY DEF Ordering, Typed
  <1>2. ASSUME NEW t, NEW i, Moves(p, t, i), Effect(p, t, i) PROVE Content(p)'
    <2>1. CASE p[i].op = "store"
      <3>1. smem' = Block!Overwritten(t, i)
        BY <1>2, <2>1 DEF Effect
      <3>2. smem' = [l \in Block!LocationsOf(p) |-> IF l \in p[i].on[t] THEN {<< t, i >>} ELSE Written(p, l)]
        BY <1>1, <3>1 DEF Block!Overwritten, Content
      <3>3. ASSUME NEW l \in Block!LocationsOf(p)
            PROVE  Written(p, l)' = IF l \in p[i].on[t] THEN {<< t, i >>} ELSE Written(p, l)
        <4>1. CASE l \in p[i].on[t]
          <5>1. << t, i >> \in Block!Accesses(p, Block!Overwriting, l)
            BY <1>1, <1>2, <2>1, <4>1, StepAccess DEF Block!Overwriting
          <5>2. << t, i >> \in Block!Accesses(p, Writing, l)
            BY <5>1, AccessKinds
          <5>3. ~ Copies(p, i)
            BY <2>1 DEF Copies
          <5>4. ~ Done(<< t, i >>) /\ \A w \in Block!Accesses(p, Writing, l) : Done(w)' <=> Done(w) \/ w = << t, i >>
            BY <1>1, <1>2, <5>2, <5>3, DoneMoves
          <5>5. Written(p, l)' = {<< t, i >>}
            BY <5>1, <5>4, Overwrites
          <5> QED BY <4>1, <5>5
        <4>2. CASE l \notin p[i].on[t]
          <5>1. \A w \in Block!Accesses(p, Writing, l) : w # << t, i >>
            BY <4>2 DEF Block!Accesses
          <5>2. \A w \in Block!Accesses(p, Writing, l) : Done(w)' <=> Done(w)
            BY <1>1, <1>2, <5>1, DoneMoves
          <5> QED BY <4>2, <5>2, SameWritten
        <4> QED BY <4>1, <4>2
      <3> QED BY <3>2, <3>3 DEF Content
    <2>2. CASE p[i].op = "add"
      <3>1. smem' = [l \in DOMAIN smem |->
                       IF l \in p[i].on[t] THEN smem[l] \cup {<< t, i >>} ELSE smem[l]]
        BY <1>2, <2>2 DEF Effect
      <3>2. smem' = [l \in Block!LocationsOf(p) |->
                       IF l \in p[i].on[t] THEN Written(p, l) \cup {<< t, i >>} ELSE Written(p, l)]
        BY <3>1 DEF Content
      <3>3. ASSUME NEW l \in Block!LocationsOf(p)
            PROVE  Written(p, l)' = IF l \in p[i].on[t] THEN Written(p, l) \cup {<< t, i >>} ELSE Written(p, l)
        <4>1. CASE l \in p[i].on[t]
          <5>1. << t, i >> \in Block!Accesses(p, Writing, l)
            BY <1>1, <1>2, <2>2, <4>1, StepAccess DEF Writing, Block!Accessing
          <5>2. << t, i >> \notin Block!Accesses(p, Block!Overwriting, l)
            BY <2>2 DEF Block!Accesses, Block!Overwriting
          <5>3. ~ Copies(p, i)
            BY <2>2 DEF Copies
          <5>4. ~ Done(<< t, i >>) /\ \A w \in Block!Accesses(p, Writing, l) : Done(w)' <=> Done(w) \/ w = << t, i >>
            BY <1>1, <1>2, <5>1, <5>3, DoneMoves
          <5>5. Written(p, l)' = Written(p, l) \cup {<< t, i >>}
            BY <5>1, <5>2, <5>4, AddsTo
          <5> QED BY <4>1, <5>5
        <4>2. CASE l \notin p[i].on[t]
          <5>1. \A w \in Block!Accesses(p, Writing, l) : w # << t, i >>
            BY <4>2 DEF Block!Accesses
          <5>2. \A w \in Block!Accesses(p, Writing, l) : Done(w)' <=> Done(w)
            BY <1>1, <1>2, <5>1, DoneMoves
          <5> QED BY <4>2, <5>2, SameWritten
        <4> QED BY <4>1, <4>2
      <3> QED BY <3>2, <3>3 DEF Content
    <2>3. CASE p[i].op \notin {"store", "add"}
      <3>1. UNCHANGED smem
        BY <1>2, <2>3 DEF Effect
      <3>2. ASSUME NEW l \in Block!LocationsOf(p), NEW w \in Block!Accesses(p, Writing, l)
            PROVE  Done(w)' <=> Done(w)
        <4>1. Done(w)' <=> Done(w) \/ (w = << t, i >> /\ ~ Copies(p, i))
          BY <1>1, <1>2, DoneMoves
        <4>2. w = << t, i >> => p[i].op \in Writing
          BY DEF Block!Accesses
        <4> QED BY <2>3, <4>1, <4>2 DEF Writing, Block!Accessing, Copies
      <3>3. \A l \in Block!LocationsOf(p) : Written(p, l)' = Written(p, l)
        BY <3>2, SameWritten
      <3> QED BY <3>1, <3>3 DEF Content
    <2> QED BY <2>1, <2>2, <2>3
  <1>3. ASSUME NEW c \in reg.copies, Block!CopyLands(c[1], c[2]) PROVE Content(p)'
    <2>1. /\ c = << c[1], c[2] >> /\ reg'.copies = reg.copies \ {c} /\ UNCHANGED round
          /\ smem' = Block!Overwritten(c[1], c[2])
      BY <1>1, <1>3, LandsFields
    <2>2. /\ c[1] \in Block!ThreadsOf(p) /\ c[2] \in 1..Len(p) /\ p[c[2]].op = "copy"
          /\ Block!Takes(p, c[1], c[2]) /\ round[c[1]] > c[2]
      BY <1>1 DEF Typed
    <2>3. smem' = [l \in Block!LocationsOf(p) |-> IF l \in p[c[2]].on[c[1]] THEN {c} ELSE Written(p, l)]
      BY <1>1, <2>1 DEF Block!Overwritten, Content
    <2>4. \A w : Done(w)' <=> Done(w) \/ w = c
      BY <2>1, <2>2 DEF Done
    <2>5. ASSUME NEW l \in Block!LocationsOf(p)
          PROVE  Written(p, l)' = IF l \in p[c[2]].on[c[1]] THEN {c} ELSE Written(p, l)
      <3>1. CASE l \in p[c[2]].on[c[1]]
        <4>1. c \in Block!Accesses(p, Block!Overwriting, l) /\ ~ Done(c)
          BY <2>1, <2>2, <3>1 DEF Block!Accesses, Block!Overwriting, Done
        <4>2. Written(p, l)' = {c}
          BY <2>4, <4>1, Overwrites
        <4> QED BY <3>1, <4>2
      <3>2. CASE l \notin p[c[2]].on[c[1]]
        <4>1. \A w \in Block!Accesses(p, Writing, l) : w # c
          BY <3>2 DEF Block!Accesses
        <4> QED BY <2>4, <3>2, <4>1, SameWritten
      <3> QED BY <3>1, <3>2
    <2> QED BY <2>3, <2>5 DEF Content
  <1>4. ASSUME NEW c \in reg.links, Block!LinkArrives(c[1], c[2]) PROVE Content(p)'
    <2>1. reg'.copies = reg.copies /\ UNCHANGED << smem, round >>
      BY <1>1, <1>4, LinkFields
    <2> QED BY <2>1, SameWritten DEF Content, Done
  <1> QED BY <1>1, <1>2, <1>3, <1>4, Steps

-------------------------------------------------------------------------------
(* The loads                                                               *)

LoadsAt(p, i) == p[i].op = "load"

\* What a location holds when a thread loads it is what it would if the steps were
\* taken one after the other.
LEMMA LoadsSerial ==
  ASSUME NEW CONSTANT p, Ordering(p), Content(p), NEW t \in Block!ThreadsOf(p),
         NEW i \in 1..Len(p), i = round[t], LoadsAt(p, i), NEW l \in p[i].on[t]
  PROVE  /\ l \in Block!LocationsOf(p) /\ smem[l] = Block!Serial(p, l, i) /\ smem[l] # {}
         /\ \A c \in reg.copies : l \notin p[c[2]].on[c[1]]
  <1>1. Typed(p) /\ Block!WellFormed(p) /\ Block!AccessesOrdered(p)
    BY DEF Ordering, Block!WellOrdered
  <1>2. Block!Takes(p, t, i) /\ i \in Int /\ round[t] \in Int
    <2>1. round[t] = Len(p) + 1 \/ Block!Takes(p, t, round[t])
      BY <1>1 DEF Typed
    <2>2. i \in Int /\ i # Len(p) + 1
      BY <1>1 DEF Block!WellFormed
    <2> QED BY <2>1, <2>2
  <1> DEFINE a == << t, i >>
  <1>3. /\ a \in Block!Accesses(p, Block!Accessing, l) /\ a[1] = t /\ a[2] = i /\ l \in Block!LocationsOf(p)
        /\ ~ Done(a)
    <2>1. a \in Block!Accesses(p, Block!Accessing, l)
      BY <1>2 DEF Block!Accesses, Block!Accessing, LoadsAt
    <2>2. ~ (round[t] > i)
      <3>1. i = round[t]
        OBVIOUS
      <3> QED BY <1>2, <3>1
    <2> QED BY <1>1, <2>1, <2>2, Located DEF Done
  <1>4. \A w \in Block!Accesses(p, Writing, l) : Block!Conflict(p, w, a) /\ Block!Conflict(p, a, w) /\ w[2] # i
    BY <1>3, AccessKinds DEF Block!Conflict, LoadsAt
  <1> HIDE DEF a
  <1>5. ASSUME NEW w \in Block!Accesses(p, Writing, l) PROVE Done(w) <=> w[2] < i
    <2>1. w \in Block!Accesses(p, Block!Accessing, l) /\ w[2] \in Int /\ w[1] \in Block!ThreadsOf(p)
      BY <1>1, AccessKinds, AccessFacts
    <2>2. w[2] < i => Done(w)
      <3>1. round[a[1]] >= a[2]
        BY <1>2, <1>3
      <3> QED BY <1>3, <1>4, <2>1, <3>1, DoneBefore
    <2>3. Done(w) => ~ (a[2] < w[2])
      <3> SUFFICES ASSUME Done(w), a[2] < w[2] PROVE FALSE
        OBVIOUS
      <3>1. round[w[1]] >= w[2]
        <4>1. round[w[1]] > w[2] /\ round[w[1]] \in Int
          BY <1>1, <2>1 DEF Done, Typed
        <4> QED BY <2>1, <4>1
      <3> QED BY <1>3, <1>4, <2>1, <3>1, DoneBefore
    <2>4. w[2] # i /\ a[2] = i
      BY <1>3, <1>4
    <2> QED BY <1>2, <2>1, <2>2, <2>3, <2>4
  <1>6. smem[l] = Block!Serial(p, l, i)
    <2>1. smem[l] = Written(p, l)
      BY <1>3 DEF Content
    <2>2. \A v \in Block!Accesses(p, Block!Overwriting, l) : Done(v) <=> v[2] < i
      BY <1>5, AccessKinds
    <2>3. \A w : w \in Written(p, l) <=> w \in Block!Serial(p, l, i)
      BY <1>5, <2>2 DEF Written, Block!Serial, Writing
    <2>4. Written(p, l) = Block!Serial(p, l, i)
      BY <2>3 DEF Written, Block!Serial
    <2> QED BY <2>1, <2>4
  <1>7. Block!Serial(p, l, i) # {}
    <2>1. p[a[2]].op = "load" => Block!Serial(p, l, a[2]) # {}
      BY <1>1, <1>3 DEF Block!AccessesOrdered
    <2> QED BY <1>3, <2>1 DEF LoadsAt
  <1>8. ASSUME NEW c \in reg.copies, l \in p[c[2]].on[c[1]] PROVE FALSE
    <2>1. /\ c[1] \in Block!ThreadsOf(p) /\ c[2] \in 1..Len(p) /\ p[c[2]].op = "copy"
          /\ Block!Takes(p, c[1], c[2]) /\ round[c[1]] > c[2] /\ c \in Block!ThreadsOf(p) \X (1..Len(p))
      BY <1>1 DEF Typed
    <2>2. c \in Block!Accesses(p, Writing, l) /\ ~ Done(c)
      BY <1>8, <2>1 DEF Block!Accesses, Writing, Block!Accessing, Done
    <2>3. ~ (c[2] < i) /\ c[2] # i
      BY <1>4, <1>5, <2>2
    <2>4. c[2] \in Int /\ round[c[1]] \in Int /\ c \in Block!Accesses(p, Block!Accessing, l)
      BY <1>1, <2>1, <2>2, AccessKinds, AccessFacts DEF Typed
    <2>5. a[2] < c[2] /\ round[c[1]] >= c[2]
      <3>1. a[2] = i /\ round[c[1]] > c[2]
        BY <1>3, <2>1
      <3> QED BY <1>2, <2>3, <2>4, <3>1
    <2> QED BY <1>3, <1>4, <2>2, <2>4, <2>5, DoneBefore
  <1> QED BY <1>3, <1>6, <1>7, <1>8

-------------------------------------------------------------------------------
(* The inductive invariant                                                 *)

BlockInv(p) == Ordering(p) /\ Content(p)

\* It holds at first,
LEMMA BlockInit ==
  ASSUME Block!Init, NEW CONSTANT p, p = Block!Program, Block!WellOrdered(p)
  PROVE  BlockInv(p)
  <1>1. Block!WellFormed(p) /\ Block!AwbarWellUsed(p) /\ Len(p) \in Nat
    BY DEF Block!WellOrdered, Block!WellFormed
  <1>2. /\ round = [t \in Block!ThreadsOf(p) |-> Block!StepFrom(p, t, 1)] /\ smem = [l \in Block!LocationsOf(p) |-> {}]
        /\ gmem = [phase |-> 0, pending |-> 0]
        /\ reg = [copies |-> {}, links |-> {}, state |-> [t \in Block!Threads |-> 0]]
    BY DEF Block!Init
  <1>3. Block!Threads = Block!ThreadsOf(p)
    BY <1>2 DEF Block!Threads
  <1>4. ASSUME NEW t \in Block!ThreadsOf(p)
        PROVE  /\ round[t] \in 1..Len(p) + 1 /\ (round[t] = Len(p) + 1 \/ Block!Takes(p, t, round[t]))
               /\ \A j \in 1..Len(p) : Block!Takes(p, t, j) => ~ (round[t] > j)
    <2>1. 1 \in 1..Len(p) + 1
      BY <1>1
    <2>2. LET s == Block!StepFrom(p, t, 1) IN
            /\ s \in 1..Len(p) + 1
            /\ s = Len(p) + 1 \/ Block!Takes(p, t, s)
            /\ \A j \in 1..Len(p) : Block!Takes(p, t, j) => s <= j
      BY <1>1, <2>1, StepFromFacts
    <2>3. round[t] = Block!StepFrom(p, t, 1)
      BY <1>2
    <2> QED BY <1>1, <2>2, <2>3
  <1>5. reg.copies = {} /\ reg.links = {} /\ gmem.phase = 0 /\ gmem.pending = 0
    BY <1>2
  <1>6. Typed(p)
    <2>1. round \in [Block!ThreadsOf(p) -> 1..Len(p) + 1]
      BY <1>2, <1>4
    <2>2. reg \in RegTypes(p) /\ gmem \in [phase : Nat, pending : Int]
      BY <1>2, <1>3 DEF RegTypes
    <2> QED BY <1>1, <1>4, <1>5, <2>1, <2>2 DEF Typed, RegTypes
  <1>7. SyncsPassed(p)
    BY <1>4 DEF SyncsPassed
  <1>8. GroupsWaited(p)
    BY <1>5 DEF GroupsWaited
  <1>9. AwbarInv(p)
    <2> SUFFICES ASSUME AwbarUsed(p) PROVE AwbarCounts(p)
      BY DEF AwbarInv
    <2>0. \A t \in Block!ThreadsOf(p), m \in 1..Len(p) : m \in Int /\ round[t] \in Int
      BY <1>1, <1>4
    <2>1. PICK a \in Block!AwbarInits(p) :
            a \in Block!ThreadsOf(p) \X (1..Len(p)) /\ Block!Takes(p, a[1], a[2])
      BY <1>1, OneInit
    <2>2. ~ Initialised(p)
      BY <1>4, <2>1 DEF Initialised
    <2>3. \A t \in Block!ThreadsOf(p) : Turn(p, t) = 0
      BY <1>1, <1>6, <1>7, <2>2, FirstTurn
    <2>4. \A t \in Block!ThreadsOf(p), k \in 1..Len(p) : p[k].op = "test wait" => ~ (round[t] > k)
      <3> SUFFICES ASSUME NEW t \in Block!ThreadsOf(p), NEW k \in 1..Len(p), p[k].op = "test wait"
                   PROVE  ~ (round[t] > k)
        OBVIOUS
      <3>1. Block!Takes(p, t, k)
        BY <1>1, WellUsed DEF AwbarOps
      <3> QED BY <1>4, <3>1
    <2>5. \A t \in Block!ThreadsOf(p) : ~ (round[t] \in 1..Len(p) /\ p[round[t]].op = "test wait")
      <3> SUFFICES ASSUME NEW t \in Block!ThreadsOf(p), round[t] \in 1..Len(p), p[round[t]].op = "test wait"
                   PROVE  FALSE
        OBVIOUS
      <3>1. PICK m \in 1..Len(p) : m + 1 = round[t] /\ p[m].op = "arrive"
        BY <1>1, WellUsed DEF AwbarOps
      <3>2. Block!Takes(p, t, m)
        BY <1>1, <3>1, WellUsed DEF AwbarOps
      <3>3. ~ (round[t] > m)
        BY <1>4, <3>2
      <3>4. m + 1 = round[t]
        BY <3>1, Zenon
      <3>5. m \in Int /\ round[t] \in Int
        BY <2>0, Zenon
      <3>6. round[t] > m
        BY ONLY <3>4, <3>5
      <3> QED BY <3>3, <3>6
    <2>6. Counted(p)
      BY <1>5, <2>2 DEF Counted
    <2>7. PhasesPassed(p)
      BY <1>5, <2>3, <2>4 DEF PhasesPassed
    <2>8. StatesKept(p)
      BY <2>5 DEF StatesKept
    <2>9. LinksArrive(p)
      BY <1>5 DEF LinksArrive
    <2> QED BY <2>6, <2>7, <2>8, <2>9 DEF AwbarCounts
  <1>10. Content(p)
    <2>1. \A l \in Block!LocationsOf(p) : \A w \in Block!Accesses(p, Writing, l) : ~ Done(w)
      BY <1>1, <1>4, AccessFacts DEF Done
    <2>2. \A l \in Block!LocationsOf(p) : Written(p, l) = {}
      BY <2>1 DEF Written
    <2> QED BY <1>2, <2>2 DEF Content
  <1> QED BY <1>6, <1>7, <1>8, <1>9, <1>10 DEF BlockInv, Ordering

\* every step keeps it,
LEMMA BlockStep ==
  ASSUME NEW CONSTANT p, BlockInv(p), [Block!Next]_Block!machine
  PROVE  BlockInv(p)'
  <1>1. Ordering(p) /\ Content(p) /\ Typed(p) /\ Block!WellOrdered(p) /\ Block!AwbarWellUsed(p)
    BY DEF BlockInv, Ordering, Block!WellOrdered
  <1>2. CASE Block!Next
    <2>1. Typed(p)' /\ SyncsPassed(p)' /\ GroupsWaited(p)' /\ AwbarInv(p)'
      BY <1>1, <1>2, TypedStep, SyncsStep, GroupsStep, AwbarStep DEF Ordering
    <2>2. Content(p)'
      BY <1>1, <1>2, ContentStep
    <2> QED BY <1>1, <2>1, <2>2 DEF BlockInv, Ordering
  <1>3. CASE UNCHANGED Block!machine
    <2>1. UNCHANGED << host, gmem, smem, reg, round >>
      BY <1>3 DEF Block!machine
    <2>2. Typed(p)' /\ SyncsPassed(p)' /\ GroupsWaited(p)' /\ Content(p)'
      BY <1>1, <2>1 DEF Typed, Block!Program, SyncsPassed, GroupsWaited, Content, Written, Done, Ordering
    <2>3. AwbarInv(p)'
      BY <1>1, <2>1 DEF Ordering, AwbarInv, AwbarCounts, Counted, PhasesPassed, StatesKept,
                       LinksArrive, Initialised, Due, Turn
    <2> QED BY <1>1, <2>2, <2>3 DEF BlockInv, Ordering
  <1> QED BY <1>2, <1>3

\* The loads of a program that the invariant holds of are serial.
LEMMA BlockLoads ==
  ASSUME NEW CONSTANT p, BlockInv(p), host \in DOMAIN Programs
  PROVE  Block!SerialLoads
  <1>1. Ordering(p) /\ Content(p) /\ Typed(p) /\ p = Programs[host] /\ p = Block!Program
    BY DEF BlockInv, Ordering, Typed, Block!Program
  <1>2. Block!Threads = Block!ThreadsOf(p) /\ \A t \in Block!ThreadsOf(p) : round[t] \in 1..Len(p) + 1
        /\ Len(p) \in Nat
    BY <1>1 DEF Block!Threads, Typed, Block!WellFormed
  <1> SUFFICES ASSUME NEW t \in Block!Threads, ~ Block!Ends(t), Block!Program[round[t]].op = "load",
                      NEW l \in Block!Targets(t)
               PROVE  /\ smem[l] = Block!InOrder[host][l][round[t]] /\ smem[l] # {}
                      /\ \A c \in reg.copies : l \notin Block!Program[c[2]].on[c[1]]
    BY DEF Block!SerialLoads
  <1>3. t \in Block!ThreadsOf(p) /\ round[t] \in 1..Len(p)
    BY <1>1, <1>2 DEF Block!Ends
  <1>4. l \in p[round[t]].on[t] /\ p[round[t]].op = "load"
    BY <1>1 DEF Block!Targets
  <1>5. /\ l \in Block!LocationsOf(p) /\ smem[l] = Block!Serial(p, l, round[t]) /\ smem[l] # {}
        /\ \A c \in reg.copies : l \notin p[c[2]].on[c[1]]
    BY <1>1, <1>3, <1>4, LoadsSerial DEF LoadsAt
  <1>6. Block!InOrder[host][l][round[t]] = Block!Serial(p, l, round[t])
    BY <1>1, <1>3, <1>5 DEF Block!InOrder
  <1> QED BY <1>1, <1>5, <1>6
-------------------------------------------------------------------------------
(* cooperative_sync: its threads' races                                    *)

\* Where thread t is in its two reductions: where it is after a split, or at the end,
\* without a sync, it is already.
AtPhase(t) == IF reg[t].pc = "split" THEN "tile" ELSE reg[t].phase
AtPc(t)    == IF reg[t].pc = "split" THEN "store"
              ELSE IF reg[t].pc = "done" THEN "return" ELSE reg[t].pc
AtSpan(t)  == IF reg[t].pc = "split" THEN TileSize \div 2 ELSE reg[t].span

ThreadState ==
  [phase : {"block", "tile"}, span : Nat, seed : Int,
   pc : {"store", "add", "return", "split", "done"}, gathered : Seq(Int)]

GroupTypes ==
  /\ reg \in [Groups!Thread -> ThreadState]
  /\ round \in [Groups!Thread -> Nat] /\ smem \in [Groups!Thread -> Int]
  /\ \A t \in Groups!Thread :
       /\ reg[t].pc = "split" => ~ Groups!InTile(t)
       /\ reg[t].pc = "done" => Groups!InTile(t)
       /\ 2 * reg[t].span <= IF Groups!InTile(t) THEN TileSize ELSE GroupBlock

\* Quotient and remainder.
LEMMA DivMod ==
  ASSUME NEW x \in Nat, NEW g \in Nat \ {0}
  PROVE  \E q \in Nat, r \in 0..g - 1 : q = x \div g /\ r = x % g /\ x = q * g + r
  <1>1. x % g = x - g * (x \div g)
    OBVIOUS
  <1>2. x \div g \in Nat /\ x % g \in 0..g - 1
    OBVIOUS
  <1> DEFINE q == x \div g
             r == x % g
  <1>3. r = x - g * q /\ q \in Nat /\ r \in 0..g - 1
    BY <1>1, <1>2
  <1>4. q = x \div g /\ r = x % g
    OBVIOUS
  <1> HIDE DEF q, r
  <1>5. x = q * g + r
    BY <1>3
  <1> QED BY <1>3, <1>4, <1>5, Zenon

\* A multiple below another leaves room for the factor.
LEMMA MultipleBelow ==
  ASSUME NEW g \in Nat \ {0}, NEW q \in Nat, NEW m \in Nat, NEW r \in Nat, q * g + r < m * g
  PROVE  q * g + g <= m * g
  <1>1. q < m
    <2> SUFFICES ASSUME m <= q PROVE FALSE
      OBVIOUS
    <2>1. m * g <= q * g
      OBVIOUS
    <2> QED BY <2>1
  <1>2. (q + 1) * g <= m * g
    BY <1>1
  <1>3. (q + 1) * g = q * g + g
    OBVIOUS
  <1> QED BY <1>2, <1>3

\* A tile is in the block; q is the number of a thread's tile, and r its rank in it.
LEMMA TileFacts ==
  ASSUME Groups!SizesAssumption, NEW t \in Groups!Thread
  PROVE  /\ t \in Nat /\ TileSize \in Nat \ {0} /\ GroupBlock \in Nat
         /\ TileSize \div 2 \in Nat /\ 2 * (TileSize \div 2) <= TileSize
         /\ GroupBlock \div 2 \in Nat /\ 2 * (GroupBlock \div 2) <= GroupBlock
         /\ \E q \in Nat, r \in 0..TileSize - 1 :
              /\ q = t \div TileSize /\ r = t % TileSize /\ t = q * TileSize + r
              /\ q * TileSize + TileSize <= GroupBlock
  <1>1. /\ t \in Nat /\ TileSize \in Nat \ {0} /\ GroupBlock \in Nat /\ TileSize > 1
        /\ t < GroupBlock /\ GroupBlock % TileSize = 0
    BY DEF Groups!SizesAssumption, Groups!Thread
  <1>2. PICK q \in Nat, r \in 0..TileSize - 1 :
          q = t \div TileSize /\ r = t % TileSize /\ t = q * TileSize + r
    BY <1>1, DivMod
  <1>3. PICK m \in Nat, z \in 0..TileSize - 1 :
          m = GroupBlock \div TileSize /\ z = GroupBlock % TileSize /\ GroupBlock = m * TileSize + z
    BY <1>1, DivMod
  <1>4. GroupBlock = m * TileSize
    <2>1. m * TileSize \in Nat
      BY <1>1
    <2> QED BY <1>1, <1>3, <2>1
  <1>5. q * TileSize + TileSize <= m * TileSize
    <2>1. q * TileSize + r < m * TileSize /\ r \in Nat
      BY <1>1, <1>2, <1>4
    <2> QED BY <1>1, <2>1, MultipleBelow
  <1>6. TileSize \div 2 \in Nat /\ 2 * (TileSize \div 2) <= TileSize
        /\ GroupBlock \div 2 \in Nat /\ 2 * (GroupBlock \div 2) <= GroupBlock
    BY <1>1
  <1>7. q = t \div TileSize /\ r = t % TileSize /\ t = q * TileSize + r
        /\ q * TileSize + TileSize <= GroupBlock
    BY <1>2, <1>4, <1>5
  <1> QED BY <1>1, <1>6, <1>7

\* A thread's element is the one of its number.
LEMMA SlotIs == ASSUME Groups!SizesAssumption, NEW t \in Groups!Thread PROVE Groups!Slot(t) = t
  <1>1. PICK q \in Nat, r \in 0..TileSize - 1 :
          q = t \div TileSize /\ r = t % TileSize /\ t = q * TileSize + r
    BY TileFacts
  <1>2. t \in Nat /\ r \in Int
    BY TileFacts
  <1>3. Groups!InTile(t) => Groups!Slot(t) = (t - r) + r
    BY <1>1 DEF Groups!Slot, Groups!Rank
  <1>4. ~ Groups!InTile(t) => Groups!Slot(t) = t
    BY DEF Groups!Slot, Groups!Rank
  <1> QED BY <1>2, <1>3, <1>4

\* A thread that reads reads an element of its group.
LEMMA ReadsInGroup ==
  ASSUME Groups!SizesAssumption, GroupTypes, NEW t \in Groups!Thread, Groups!Reads(t)
  PROVE  /\ t + reg[t].span \in Groups!Thread
         /\ Groups!InTile(t) => \E q \in Nat : /\ q = t \div TileSize /\ q * TileSize <= t + reg[t].span
                                        /\ t + reg[t].span < q * TileSize + TileSize
  <1> DEFINE s == reg[t].span
  <1>1. PICK q \in Nat, r \in 0..TileSize - 1 :
          /\ q = t \div TileSize /\ r = t % TileSize /\ t = q * TileSize + r
          /\ q * TileSize + TileSize <= GroupBlock
    BY TileFacts
  <1>2. t \in Nat /\ TileSize \in Nat \ {0} /\ GroupBlock \in Nat /\ s \in Nat
    BY TileFacts DEF GroupTypes, ThreadState
  <1>3. q * TileSize \in Nat
    BY <1>2
  <1>4. Groups!InTile(t) => r < s /\ 2 * s <= TileSize
    BY <1>1 DEF GroupTypes, ThreadState, Groups!Reads, Groups!Rank
  <1>5. ~ Groups!InTile(t) => t < s /\ 2 * s <= GroupBlock
    BY DEF GroupTypes, ThreadState, Groups!Reads, Groups!Rank
  <1> HIDE DEF s
  <1>6. Groups!InTile(t) => q * TileSize <= t + s /\ t + s < q * TileSize + TileSize
    BY <1>1, <1>2, <1>3, <1>4
  <1>7. t + s \in 0..GroupBlock - 1
    <2>1. Groups!InTile(t) => t + s < GroupBlock
      BY <1>1, <1>2, <1>3, <1>6
    <2>2. ~ Groups!InTile(t) => t + s < GroupBlock
      BY <1>2, <1>5
    <2> QED BY <1>2, <2>1, <2>2
  <1> QED BY <1>1, <1>6, <1>7 DEF s, Groups!Thread

\* A thread's store leaves the array's type, and the thread's state but what it does next.
LEMMA StoreFields ==
  ASSUME Groups!SizesAssumption, GroupTypes, NEW t \in Groups!Thread, Groups!Store(t)
  PROVE  /\ GroupTypes' /\ round' = [round EXCEPT ![t] = @ + 1]
         /\ \A u \in Groups!Thread : u # t => reg'[u] = reg[u]
         /\ reg[t].pc = "store" /\ Groups!GroupSynced(t)
         /\ reg'[t].pc = "add" /\ reg'[t].phase = reg[t].phase /\ reg'[t].span = reg[t].span
  <1>1. reg[t].pc = "store" /\ Groups!GroupSynced(t) /\ reg' = [reg EXCEPT ![t].pc = "add"]
        /\ round' = [round EXCEPT ![t] = @ + 1] /\ smem' = [smem EXCEPT ![t] = reg[t].seed]
    BY SlotIs DEF Groups!Store, Groups!At, Groups!Arrive
  <1>0. reg \in [Groups!Thread -> ThreadState] /\ reg[t] \in ThreadState
    BY DEF GroupTypes
  <1>2. /\ reg'[t].pc = "add" /\ reg'[t].phase = reg[t].phase /\ reg'[t].span = reg[t].span
        /\ \A u \in Groups!Thread : u # t => reg'[u] = reg[u]
        /\ reg' \in [Groups!Thread -> ThreadState]
    <2>1. reg'[t] = [reg[t] EXCEPT !.pc = "add"] /\ \A u \in Groups!Thread : u # t => reg'[u] = reg[u]
      BY <1>0, <1>1
    <2>2. [reg[t] EXCEPT !.pc = "add"] \in ThreadState
      BY <1>0 DEF ThreadState
    <2>3. reg' = [u \in Groups!Thread |-> IF u = t THEN [reg[t] EXCEPT !.pc = "add"] ELSE reg[u]]
      BY <1>0, <1>1
    <2>4. reg' \in [Groups!Thread -> ThreadState]
      BY <1>0, <2>2, <2>3
    <2> QED BY <1>0, <2>1, <2>4 DEF ThreadState
  <1>3. round' \in [Groups!Thread -> Nat] /\ smem' \in [Groups!Thread -> Int]
    BY <1>1 DEF GroupTypes, ThreadState
  <1>4. ASSUME NEW u \in Groups!Thread
        PROVE  /\ reg'[u].pc = "split" => reg'[u].phase # "tile"
               /\ reg'[u].pc = "done" => reg'[u].phase = "tile"
               /\ 2 * reg'[u].span <= IF reg'[u].phase = "tile" THEN TileSize ELSE GroupBlock
    BY <1>2 DEF GroupTypes, ThreadState, Groups!InTile
  <1>5. GroupTypes'
    BY <1>2, <1>3, <1>4 DEF GroupTypes, ThreadState, Groups!InTile
  <1> QED BY <1>1, <1>2, <1>5

\* A sum halves the span.
LEMMA AddFields ==
  ASSUME Groups!SizesAssumption, GroupTypes, NEW t \in Groups!Thread, Groups!Add(t)
  PROVE  /\ GroupTypes' /\ round' = [round EXCEPT ![t] = @ + 1]
         /\ \A u \in Groups!Thread : u # t => reg'[u] = reg[u]
         /\ reg[t].pc = "add" /\ Groups!GroupSynced(t)
         /\ reg'[t].phase = reg[t].phase /\ reg'[t].span = reg[t].span \div 2
         /\ reg'[t].pc = IF reg[t].span \div 2 > 0 THEN "store" ELSE "return"
  <1> DEFINE s == Groups!Sum(t)
             l == IF reg[t].span \div 2 > 0 THEN "store" ELSE "return"
  <1>1. reg[t].pc = "add" /\ Groups!GroupSynced(t) /\ smem' = smem
        /\ round' = [round EXCEPT ![t] = @ + 1]
        /\ reg' = [reg EXCEPT ![t].seed = s, ![t].span = @ \div 2, ![t].pc = l]
    BY DEF Groups!Add, Groups!Added, Groups!At, Groups!Arrive
  <1>2. s \in Int
    <2>1. Groups!Reads(t) => t + reg[t].span \in Groups!Thread /\ Groups!Slot(t) = t
      BY ReadsInGroup, SlotIs
    <2> QED BY <2>1 DEF Groups!Sum, GroupTypes, ThreadState
  <1>3. l \in {"store", "return"}
    OBVIOUS
  <1>4. reg[t].span \in Nat /\ reg[t].span \div 2 \in Nat
        /\ 2 * (reg[t].span \div 2) <= 2 * reg[t].span
    <2>1. reg[t].span \in Nat
      BY DEF GroupTypes, ThreadState
    <2> QED BY <2>1
  <1> HIDE DEF s, l
  <1>5. /\ reg'[t].pc = l /\ reg'[t].phase = reg[t].phase /\ reg'[t].span = reg[t].span \div 2
        /\ \A u \in Groups!Thread : u # t => reg'[u] = reg[u]
        /\ reg' \in [Groups!Thread -> ThreadState]
    <2>0. reg'[t] \in ThreadState
      <3>1. reg'[t] = [reg[t] EXCEPT !.seed = s, !.span = @ \div 2, !.pc = l]
        BY <1>1 DEF GroupTypes, ThreadState
      <3>2. reg[t] \in ThreadState
        BY DEF GroupTypes
      <3> QED BY <1>2, <1>3, <1>4, <3>1, <3>2 DEF ThreadState
    <2>1. reg' \in [Groups!Thread -> ThreadState]
      <3>1. reg' = [u \in Groups!Thread |-> IF u = t THEN reg'[t] ELSE reg[u]]
        BY <1>1 DEF GroupTypes, ThreadState
      <3>2. \A u \in Groups!Thread : reg[u] \in ThreadState
        BY DEF GroupTypes
      <3> QED BY <2>0, <3>1, <3>2
    <2>2. \A u \in Groups!Thread : u # t => reg'[u] = reg[u]
      BY <1>1 DEF GroupTypes, ThreadState
    <2>3. reg'[t].phase = reg[t].phase
      BY <1>1 DEF GroupTypes, ThreadState
    <2>4. reg'[t].span = reg[t].span \div 2
      BY <1>1 DEF GroupTypes, ThreadState
    <2>5. reg'[t].pc = l
      BY <1>1 DEF GroupTypes, ThreadState
    <2> QED BY <2>1, <2>2, <2>3, <2>4, <2>5
  <1>6. round' \in [Groups!Thread -> Nat] /\ smem' \in [Groups!Thread -> Int]
    BY <1>1 DEF GroupTypes, ThreadState
  <1>7. 2 * reg'[t].span <= IF reg'[t].phase = "tile" THEN TileSize ELSE GroupBlock
    <2>1. 2 * reg[t].span <= IF reg[t].phase = "tile" THEN TileSize ELSE GroupBlock
      BY DEF GroupTypes, ThreadState, Groups!InTile
    <2>2. TileSize \in Nat /\ GroupBlock \in Nat
      BY TileFacts
    <2> QED BY <1>4, <1>5, <2>1, <2>2
  <1>8. ASSUME NEW u \in Groups!Thread
        PROVE  /\ reg'[u].pc = "split" => reg'[u].phase # "tile"
               /\ reg'[u].pc = "done" => reg'[u].phase = "tile"
               /\ 2 * reg'[u].span <= IF reg'[u].phase = "tile" THEN TileSize ELSE GroupBlock
    <2>1. CASE u = t
      BY <1>3, <1>5, <1>7, <2>1
    <2>2. CASE u # t
      BY <1>5, <2>2 DEF GroupTypes, ThreadState, Groups!InTile
    <2> QED BY <2>1, <2>2
  <1>9. GroupTypes'
    BY <1>5, <1>6, <1>8 DEF GroupTypes, ThreadState, Groups!InTile
  <1> QED BY <1>1, <1>5, <1>9 DEF l

\* tree_sum returns, to the block's sync or to the end.
LEMMA ReturnFields ==
  ASSUME Groups!SizesAssumption, GroupTypes, NEW t \in Groups!Thread, Groups!Return(t)
  PROVE  /\ GroupTypes' /\ reg[t].pc = "return" /\ Groups!GroupSynced(t)
         /\ \A u \in Groups!Thread : u # t => reg'[u] = reg[u]
         /\ reg'[t].phase = reg[t].phase /\ reg'[t].span = reg[t].span
         /\ Groups!InTile(t) => reg'[t].pc = "done" /\ round' = round
         /\ ~ Groups!InTile(t) => reg'[t].pc = "split" /\ round' = [round EXCEPT ![t] = @ + 1]
  <1> DEFINE v == IF Groups!Rank(t) = 0 THEN reg[t].seed ELSE -1
             l == IF Groups!InTile(t) THEN "done" ELSE "split"
  <1>1. reg[t].pc = "return" /\ Groups!GroupSynced(t) /\ smem' = smem
        /\ reg' = [reg EXCEPT ![t].gathered = Append(@, v), ![t].pc = l]
        /\ (Groups!InTile(t) => round' = round) /\ (~ Groups!InTile(t) => round' = [round EXCEPT ![t] = @ + 1])
    BY DEF Groups!Return, Groups!At, Groups!Arrive
  <1>2. v \in Int /\ (Groups!InTile(t) => l = "done") /\ (~ Groups!InTile(t) => l = "split")
    BY DEF GroupTypes, ThreadState
  <1>3. Append(reg[t].gathered, v) \in Seq(Int)
    <2>1. reg[t].gathered \in Seq(Int)
      BY DEF GroupTypes, ThreadState
    <2> HIDE DEF v
    <2> QED BY <1>2, <2>1
  <1> DEFINE g == Append(reg[t].gathered, v)
  <1>4. reg' = [reg EXCEPT ![t].gathered = g, ![t].pc = l]
    BY <1>1
  <1> HIDE DEF v, l, g
  <1>5. g \in Seq(Int)
    BY <1>3 DEF g
  <1>0. reg \in [Groups!Thread -> ThreadState] /\ reg[t] \in ThreadState
    BY DEF GroupTypes
  <1>6. /\ reg'[t].pc = l /\ reg'[t].phase = reg[t].phase /\ reg'[t].span = reg[t].span
        /\ \A u \in Groups!Thread : u # t => reg'[u] = reg[u]
        /\ reg' \in [Groups!Thread -> ThreadState]
    <2>1. /\ reg'[t] = [reg[t] EXCEPT !.gathered = g, !.pc = l]
          /\ \A u \in Groups!Thread : u # t => reg'[u] = reg[u]
      BY <1>0, <1>4
    <2>2. l \in {"done", "split"}
      BY <1>2
    <2>3. [reg[t] EXCEPT !.gathered = g, !.pc = l] \in ThreadState
      BY <1>0, <1>5, <2>2 DEF ThreadState
    <2>4. reg' = [u \in Groups!Thread |-> IF u = t THEN [reg[t] EXCEPT !.gathered = g, !.pc = l]
                                            ELSE reg[u]]
      BY <1>0, <1>4
    <2>5. reg' \in [Groups!Thread -> ThreadState]
      BY <1>0, <2>3, <2>4
    <2> QED BY <1>0, <2>1, <2>5 DEF ThreadState
  <1>7. round' \in [Groups!Thread -> Nat] /\ smem' \in [Groups!Thread -> Int]
    <2>0. round \in [Groups!Thread -> Nat] /\ smem \in [Groups!Thread -> Int]
      BY DEF GroupTypes
    <2>1. CASE Groups!InTile(t)
      BY <1>1, <2>0, <2>1
    <2>2. CASE ~ Groups!InTile(t)
      BY <1>1, <2>0, <2>2
    <2> QED BY <2>1, <2>2
  <1>8. ASSUME NEW u \in Groups!Thread
        PROVE  /\ reg'[u].pc = "split" => reg'[u].phase # "tile"
               /\ reg'[u].pc = "done" => reg'[u].phase = "tile"
               /\ 2 * reg'[u].span <= IF reg'[u].phase = "tile" THEN TileSize ELSE GroupBlock
    <2>1. CASE u = t
      BY <1>2, <1>6, <2>1 DEF GroupTypes, ThreadState, Groups!InTile
    <2>2. CASE u # t
      BY <1>6, <2>2 DEF GroupTypes, ThreadState, Groups!InTile
    <2> QED BY <2>1, <2>2
  <1>9. GroupTypes'
    BY <1>6, <1>7, <1>8 DEF GroupTypes, ThreadState, Groups!InTile
  <1> QED BY <1>1, <1>2, <1>6, <1>9

\* A thread goes on to the second reduction.
LEMMA SplitFields ==
  ASSUME Groups!SizesAssumption, GroupTypes, NEW t \in Groups!Thread, Groups!Split(t)
  PROVE  /\ GroupTypes' /\ round' = round /\ reg[t].pc = "split" /\ Groups!GroupSynced(t)
         /\ \A u \in Groups!Thread : u # t => reg'[u] = reg[u]
         /\ reg'[t].phase = "tile" /\ reg'[t].pc = "store" /\ reg'[t].span = TileSize \div 2
  <1>1. reg[t].pc = "split" /\ Groups!GroupSynced(t) /\ smem' = smem /\ round' = round
        /\ reg' = [reg EXCEPT ![t].phase = "tile", ![t].seed = t % TileSize,
                              ![t].span = TileSize \div 2, ![t].pc = "store"]
    BY DEF Groups!Split, Groups!At
  <1> DEFINE r == t % TileSize
             h == TileSize \div 2
  <1>2. r \in Int /\ h \in Nat /\ 2 * h <= TileSize
    BY TileFacts
  <1>3. reg' = [reg EXCEPT ![t].phase = "tile", ![t].seed = r, ![t].span = h, ![t].pc = "store"]
    BY <1>1
  <1> HIDE DEF r, h
  <1>4. /\ reg'[t].phase = "tile" /\ reg'[t].pc = "store" /\ reg'[t].span = h
        /\ \A u \in Groups!Thread : u # t => reg'[u] = reg[u]
        /\ reg' \in [Groups!Thread -> ThreadState]
    <2>0. reg'[t] \in ThreadState
      <3>1. reg'[t] = [reg[t] EXCEPT !.phase = "tile", !.seed = r, !.span = h, !.pc = "store"]
        BY <1>3 DEF GroupTypes, ThreadState
      <3>2. reg[t] \in ThreadState
        BY DEF GroupTypes
      <3> QED BY <1>2, <3>1, <3>2 DEF ThreadState
    <2>1. reg' \in [Groups!Thread -> ThreadState]
      <3>1. reg' = [u \in Groups!Thread |-> IF u = t THEN reg'[t] ELSE reg[u]]
        BY <1>3 DEF GroupTypes, ThreadState
      <3>2. \A u \in Groups!Thread : reg[u] \in ThreadState
        BY DEF GroupTypes
      <3> QED BY <2>0, <3>1, <3>2
    <2>2. \A u \in Groups!Thread : u # t => reg'[u] = reg[u]
      BY <1>3 DEF GroupTypes, ThreadState
    <2>3. reg'[t].phase = "tile"
      BY <1>3 DEF GroupTypes, ThreadState
    <2>4. reg'[t].span = h
      BY <1>3 DEF GroupTypes, ThreadState
    <2>5. reg'[t].pc = "store"
      BY <1>3 DEF GroupTypes, ThreadState
    <2> QED BY <2>1, <2>2, <2>3, <2>4, <2>5
  <1>5. round' \in [Groups!Thread -> Nat] /\ smem' \in [Groups!Thread -> Int]
    BY <1>1 DEF GroupTypes, ThreadState
  <1>6. ASSUME NEW u \in Groups!Thread
        PROVE  /\ reg'[u].pc = "split" => reg'[u].phase # "tile"
               /\ reg'[u].pc = "done" => reg'[u].phase = "tile"
               /\ 2 * reg'[u].span <= IF reg'[u].phase = "tile" THEN TileSize ELSE GroupBlock
    <2>1. CASE u = t
      BY <1>2, <1>4, <2>1
    <2>2. CASE u # t
      BY <1>4, <2>2 DEF GroupTypes, ThreadState, Groups!InTile
    <2> QED BY <2>1, <2>2
  <1>7. GroupTypes'
    BY <1>4, <1>5, <1>6 DEF GroupTypes, ThreadState, Groups!InTile
  <1> QED BY <1>1, <1>4, <1>7 DEF h

-------------------------------------------------------------------------------
\* Thread t is where u is next.
Follows(t, u) ==
  /\ AtPc(u) = "store" => AtPc(t) = "add" /\ AtPhase(t) = AtPhase(u) /\ AtSpan(t) = AtSpan(u)
  /\ AtPc(u) = "add" =>
       /\ AtPhase(t) = AtPhase(u) /\ AtSpan(t) = AtSpan(u) \div 2
       /\ AtPc(t) = IF AtSpan(u) \div 2 > 0 THEN "store" ELSE "return"
  /\ AtPc(u) = "return" => /\ AtPhase(u) = "block" /\ AtPhase(t) = "tile"
                           /\ AtPc(t) = "store" /\ AtSpan(t) = TileSize \div 2

Abreast(t, u) == AtPhase(t) = AtPhase(u) /\ AtPc(t) = AtPc(u) /\ AtSpan(t) = AtSpan(u)

\* Threads that a sync may hold for each other.
InOneGroup(t, u) ==
  t \div TileSize = u \div TileSize \/ AtPhase(t) = "block" \/ AtPhase(u) = "block"

\* They are a round apart at most, and their rounds say who is where.
InStep(t, u) ==
  /\ round[t] <= round[u] + 1
  /\ round[t] = round[u] => Abreast(t, u)
  /\ round[t] = round[u] + 1 => Follows(t, u)

\* No thread is in its tile's reduction before all are past the block's.
TilesAfterBlock == \A t, u \in Groups!Thread : Groups!InTile(t) => AtPhase(u) = "tile"

GroupInv ==
  /\ GroupTypes /\ TilesAfterBlock
  /\ \A t, u \in Groups!Thread : InOneGroup(t, u) => InStep(t, u)

\* A thread passes a sync, to where it follows itself.
Advances(t) ==
  /\ round' = [round EXCEPT ![t] = @ + 1] /\ GroupTypes'
  /\ \A u \in Groups!Thread : u # t => reg'[u] = reg[u]
  /\ Groups!GroupSynced(t) /\ reg'[t].phase = reg[t].phase /\ reg[t].pc \notin {"split", "done"}
  /\ AtPc(t) = "store" =>
       AtPc(t)' = "add" /\ AtPhase(t)' = AtPhase(t) /\ AtSpan(t)' = AtSpan(t)
  /\ AtPc(t) = "add" =>
       /\ AtPhase(t)' = AtPhase(t) /\ AtSpan(t)' = AtSpan(t) \div 2
       /\ AtPc(t)' = IF AtSpan(t) \div 2 > 0 THEN "store" ELSE "return"
  /\ AtPc(t) = "return" => /\ AtPhase(t) = "block" /\ AtPhase(t)' = "tile"
                           /\ AtPc(t)' = "store" /\ AtSpan(t)' = TileSize \div 2

\* A thread whose state stays is where it was.
LEMMA AtStays ==
  ASSUME NEW u, reg'[u] = reg[u]
  PROVE  AtPhase(u)' = AtPhase(u) /\ AtPc(u)' = AtPc(u) /\ AtSpan(u)' = AtSpan(u)
         /\ Groups!InTile(u)' = Groups!InTile(u)
  BY DEF AtPhase, AtPc, AtSpan, Groups!InTile

\* A thread that passes a sync keeps the invariant: those it waited for are where it
\* was, or where it is now.
LEMMA GroupAdvances ==
  ASSUME Groups!SizesAssumption, GroupInv, NEW t \in Groups!Thread, Advances(t)
  PROVE  GroupInv'
  <1>1. \A u \in Groups!Thread : u # t => /\ AtPhase(u)' = AtPhase(u) /\ AtPc(u)' = AtPc(u)
                                   /\ AtSpan(u)' = AtSpan(u) /\ Groups!InTile(u)' = Groups!InTile(u)
                                   /\ round'[u] = round[u]
    <2> TAKE u \in Groups!Thread
    <2> HAVE u # t
    <2>1. reg'[u] = reg[u] /\ round'[u] = round[u]
      BY DEF Advances, GroupInv, GroupTypes
    <2> QED BY <2>1, AtStays
  <1>2. /\ \A u \in Groups!Thread : round[u] \in Nat
        /\ round'[t] = round[t] + 1
    BY DEF Advances, GroupInv, GroupTypes
  <1>3. (Groups!InTile(t)' <=> Groups!InTile(t)) /\ (AtPhase(t) = "tile" => AtPhase(t)' = "tile")
        /\ AtPc(t) \in {"store", "add", "return"} /\ AtPhase(t) \in {"block", "tile"}
        /\ AtPhase(t)' \in {"block", "tile"} /\ (AtPhase(t) = "tile" <=> Groups!InTile(t))
    <2>1. reg[t].pc \in {"store", "add", "return"} /\ reg[t].phase \in {"block", "tile"}
      BY DEF Advances, GroupInv, GroupTypes, ThreadState
    <2>2. AtPc(t) = reg[t].pc /\ AtPhase(t) = reg[t].phase
      BY <2>1 DEF AtPc, AtPhase
    <2>3. Groups!InTile(t)' <=> Groups!InTile(t)
      BY DEF Advances, Groups!InTile
    <2> QED BY <2>1, <2>2, <2>3 DEF Advances, Groups!InTile
  <1>4. ASSUME NEW u \in Groups!Thread, u # t, InOneGroup(t, u)' \/ InOneGroup(u, t)'
        PROVE  /\ InOneGroup(t, u) /\ InOneGroup(u, t) /\ round[u] >= round[t]
    <2>1. InOneGroup(t, u) /\ InOneGroup(u, t)
      BY <1>1, <1>3, <1>4 DEF InOneGroup
    <2>2. u \in Groups!Members(t)
      <3>1. CASE ~ Groups!InTile(t)
        BY <3>1 DEF Groups!Members
      <3>2. CASE Groups!InTile(t)
        <4>1. AtPhase(u) = "tile" /\ AtPhase(t)' = "tile"
          BY <1>3, <3>2 DEF GroupInv, TilesAfterBlock
        <4>2. AtPhase(u)' = "tile"
          BY <1>1, <1>4, <4>1
        <4>3. u \div TileSize = t \div TileSize
          BY <1>4, <4>1, <4>2 DEF InOneGroup
        <4> QED BY <3>2, <4>3 DEF Groups!Members
      <3> QED BY <3>1, <3>2
    <2> QED BY <2>1, <2>2 DEF Advances, Groups!GroupSynced
  <1>5. TilesAfterBlock'
    <2> SUFFICES ASSUME NEW v \in Groups!Thread, NEW u \in Groups!Thread, Groups!InTile(v)' PROVE AtPhase(u)' = "tile"
      BY DEF TilesAfterBlock
    <2>1. Groups!InTile(v)
      BY <1>1, <1>3
    <2>2. AtPhase(u) = "tile"
      BY <2>1 DEF GroupInv, TilesAfterBlock
    <2> QED BY <1>1, <1>3, <2>2
  <1>6. ASSUME NEW u \in Groups!Thread, u # t, InOneGroup(t, u)' \/ InOneGroup(u, t)'
        PROVE  InStep(t, u)' /\ InStep(u, t)'
    <2>1. InOneGroup(t, u) /\ InOneGroup(u, t) /\ round[u] >= round[t]
      BY <1>4, <1>6
    <2>2. InStep(t, u) /\ InStep(u, t)
      BY <2>1 DEF GroupInv
    <2>3. round'[u] = round[u] /\ round'[t] = round[t] + 1 /\ round[u] \in Nat /\ round[t] \in Nat
      BY <1>1, <1>2, <1>6
    <2>4. AtPhase(u)' = AtPhase(u) /\ AtPc(u)' = AtPc(u) /\ AtSpan(u)' = AtSpan(u)
      BY <1>1, <1>6
    <2>5. CASE round[u] = round[t]
      <3>1. AtPhase(t) = AtPhase(u) /\ AtPc(t) = AtPc(u) /\ AtSpan(t) = AtSpan(u)
        BY <2>2, <2>5 DEF InStep, Abreast
      <3>2. Follows(t, u)'
        BY <2>4, <3>1 DEF Follows, Advances
      <3>3. round'[t] = round'[u] + 1
        BY <2>3, <2>5
      <3> QED BY <2>3, <3>2, <3>3 DEF InStep
    <2>6. CASE round[u] = round[t] + 1
      <3>1. Follows(u, t)
        BY <2>2, <2>6 DEF InStep
      <3>2. AtPc(t) = "store" \/ AtPc(t) = "add" \/ AtPc(t) = "return"
        BY <1>3
      <3>3. AtPhase(t)' = AtPhase(u) /\ AtPc(t)' = AtPc(u) /\ AtSpan(t)' = AtSpan(u)
        BY <3>1, <3>2 DEF Follows, Advances
      <3>4. Abreast(t, u)' /\ Abreast(u, t)'
        BY <2>4, <3>3 DEF Abreast
      <3>5. round'[t] = round'[u]
        BY <2>3, <2>6
      <3> QED BY <2>3, <3>4, <3>5 DEF InStep
    <2>7. round[u] = round[t] \/ round[u] = round[t] + 1
      BY <2>1, <2>2, <2>3 DEF InStep
    <2> QED BY <2>5, <2>6, <2>7
  <1>7. ASSUME NEW u \in Groups!Thread, NEW v \in Groups!Thread, u # t, v # t, InOneGroup(u, v)'
        PROVE  InStep(u, v)'
    <2>1. InOneGroup(u, v)
      BY <1>1, <1>7 DEF InOneGroup
    <2>2. InStep(u, v)
      BY <2>1 DEF GroupInv
    <2>3. /\ AtPhase(u)' = AtPhase(u) /\ AtPc(u)' = AtPc(u) /\ AtSpan(u)' = AtSpan(u)
          /\ AtPhase(v)' = AtPhase(v) /\ AtPc(v)' = AtPc(v) /\ AtSpan(v)' = AtSpan(v)
          /\ round'[u] = round[u] /\ round'[v] = round[v]
      BY <1>1, <1>7
    <2> QED BY <2>2, <2>3 DEF InStep, Abreast, Follows
  <1>8. InStep(t, t)'
    <2>1. round'[t] <= round'[t] + 1 /\ round'[t] # round'[t] + 1
      BY <1>2
    <2> QED BY <2>1 DEF InStep, Abreast
  <1>9. \A u, v \in Groups!Thread : InOneGroup(u, v)' => InStep(u, v)'
    BY <1>6, <1>7, <1>8
  <1> QED BY <1>5, <1>9 DEF GroupInv, Advances

\* A thread that stores, sums or returns from the block's call passes a sync.
LEMMA GroupMoves ==
  ASSUME Groups!SizesAssumption, GroupTypes, NEW t \in Groups!Thread,
         Groups!Store(t) \/ Groups!Add(t) \/ (Groups!Return(t) /\ ~ Groups!InTile(t))
  PROVE  Advances(t)
  <1>1. CASE Groups!Store(t)
    <2>1. /\ GroupTypes' /\ round' = [round EXCEPT ![t] = @ + 1]
          /\ \A u \in Groups!Thread : u # t => reg'[u] = reg[u]
          /\ reg[t].pc = "store" /\ Groups!GroupSynced(t)
          /\ reg'[t].pc = "add" /\ reg'[t].phase = reg[t].phase /\ reg'[t].span = reg[t].span
      BY <1>1, StoreFields
    <2> QED BY <2>1 DEF Advances, AtPhase, AtPc, AtSpan
  <1>2. CASE Groups!Add(t)
    <2>1. /\ GroupTypes' /\ round' = [round EXCEPT ![t] = @ + 1]
          /\ \A u \in Groups!Thread : u # t => reg'[u] = reg[u]
          /\ reg[t].pc = "add" /\ Groups!GroupSynced(t)
          /\ reg'[t].phase = reg[t].phase /\ reg'[t].span = reg[t].span \div 2
          /\ reg'[t].pc = IF reg[t].span \div 2 > 0 THEN "store" ELSE "return"
      BY <1>2, AddFields
    <2>2. CASE reg[t].span \div 2 > 0
      BY <2>1, <2>2 DEF Advances, AtPhase, AtPc, AtSpan
    <2>3. CASE ~ (reg[t].span \div 2 > 0)
      BY <2>1, <2>3 DEF Advances, AtPhase, AtPc, AtSpan
    <2> QED BY <2>2, <2>3
  <1>3. CASE Groups!Return(t) /\ ~ Groups!InTile(t)
    <2>1. /\ GroupTypes' /\ reg[t].pc = "return" /\ Groups!GroupSynced(t)
          /\ \A u \in Groups!Thread : u # t => reg'[u] = reg[u]
          /\ reg'[t].phase = reg[t].phase
          /\ reg'[t].pc = "split" /\ round' = [round EXCEPT ![t] = @ + 1]
      BY <1>3, ReturnFields
    <2>2. reg[t].phase = "block"
      BY <1>3 DEF GroupTypes, ThreadState, Groups!InTile
    <2> QED BY <2>1, <2>2 DEF Advances, AtPhase, AtPc, AtSpan
  <1> QED BY <1>1, <1>2, <1>3

\* A step that leaves where a thread is, and all else, keeps the invariant.
LEMMA GroupStays ==
  ASSUME GroupInv, GroupTypes', round' = round, NEW t \in Groups!Thread,
         \A u \in Groups!Thread : u # t => reg'[u] = reg[u],
         AtPhase(t)' = AtPhase(t), AtPc(t)' = AtPc(t), AtSpan(t)' = AtSpan(t),
         Groups!InTile(t)' => \A u \in Groups!Thread : AtPhase(u) = "tile"
  PROVE  GroupInv'
  <1>1. \A u \in Groups!Thread :
          /\ AtPhase(u)' = AtPhase(u) /\ AtPc(u)' = AtPc(u) /\ AtSpan(u)' = AtSpan(u)
          /\ u # t => Groups!InTile(u)' = Groups!InTile(u)
    BY AtStays
  <1>2. TilesAfterBlock'
    BY <1>1 DEF GroupInv, TilesAfterBlock
  <1>3. ASSUME NEW u \in Groups!Thread, NEW v \in Groups!Thread, InOneGroup(u, v)'
        PROVE  InStep(u, v)'
    <2>1. InOneGroup(u, v)
      BY <1>1, <1>3 DEF InOneGroup
    <2>2. InStep(u, v)
      BY <2>1 DEF GroupInv
    <2>3. /\ AtPhase(u)' = AtPhase(u) /\ AtPc(u)' = AtPc(u) /\ AtSpan(u)' = AtSpan(u)
          /\ AtPhase(v)' = AtPhase(v) /\ AtPc(v)' = AtPc(v) /\ AtSpan(v)' = AtSpan(v)
      BY <1>1
    <2> QED BY <2>2, <2>3 DEF InStep, Abreast, Follows
  <1> QED BY <1>2, <1>3 DEF GroupInv

\* A tile's call returns, where there is no sync.
LEMMA GroupTileReturn ==
  ASSUME Groups!SizesAssumption, GroupInv, NEW t \in Groups!Thread, Groups!Return(t), Groups!InTile(t)
  PROVE  GroupInv'
  <1>1. /\ GroupTypes' /\ reg[t].pc = "return" /\ round' = round
        /\ \A u \in Groups!Thread : u # t => reg'[u] = reg[u]
        /\ reg'[t].phase = reg[t].phase /\ reg'[t].span = reg[t].span /\ reg'[t].pc = "done"
    BY ReturnFields DEF GroupInv
  <1>2. AtPhase(t)' = AtPhase(t) /\ AtPc(t)' = AtPc(t) /\ AtSpan(t)' = AtSpan(t)
    BY <1>1 DEF AtPhase, AtPc, AtSpan
  <1>3. \A u \in Groups!Thread : AtPhase(u) = "tile"
    BY DEF GroupInv, TilesAfterBlock
  <1> QED BY <1>1, <1>2, <1>3, GroupStays

\* A thread goes on to its tile's call when all have come to block.sync.
LEMMA GroupSplit ==
  ASSUME Groups!SizesAssumption, GroupInv, NEW t \in Groups!Thread, Groups!Split(t)
  PROVE  GroupInv'
  <1>1. /\ GroupTypes' /\ round' = round /\ reg[t].pc = "split" /\ Groups!GroupSynced(t)
        /\ \A u \in Groups!Thread : u # t => reg'[u] = reg[u]
        /\ reg'[t].phase = "tile" /\ reg'[t].pc = "store" /\ reg'[t].span = TileSize \div 2
    BY SplitFields DEF GroupInv
  <1>2. AtPhase(t)' = AtPhase(t) /\ AtPc(t)' = AtPc(t) /\ AtSpan(t)' = AtSpan(t)
    BY <1>1 DEF AtPhase, AtPc, AtSpan
  <1>3. AtPhase(t) = "tile" /\ AtPc(t) = "store" /\ ~ Groups!InTile(t)
    BY <1>1 DEF AtPhase, AtPc, GroupInv, GroupTypes
  <1>4. ASSUME NEW u \in Groups!Thread PROVE AtPhase(u) = "tile"
    <2>1. AtPhase(u) \in {"block", "tile"}
      BY DEF AtPhase, GroupInv, GroupTypes, ThreadState
    <2> SUFFICES ASSUME AtPhase(u) = "block" PROVE FALSE
      BY <2>1
    <2>2. InOneGroup(u, t)
      BY DEF InOneGroup
    <2>3. InStep(u, t)
      BY <2>2 DEF GroupInv
    <2>4. round[u] >= round[t]
      BY <1>1, <1>3 DEF Groups!GroupSynced, Groups!Members
    <2>5. round[u] \in Nat /\ round[t] \in Nat
      BY DEF GroupInv, GroupTypes
    <2>6. round[u] = round[t] \/ round[u] = round[t] + 1
      BY <2>3, <2>4, <2>5 DEF InStep
    <2> QED BY <1>3, <2>3, <2>6 DEF InStep, Abreast, Follows
  <1> QED BY <1>1, <1>2, <1>4, GroupStays

\* The threads start together,
LEMMA GroupInit == ASSUME Groups!SizesAssumption, Groups!Init PROVE GroupInv
  <1>1. \A t \in Groups!Thread : /\ t \in Nat /\ GroupBlock \div 2 \in Nat
                          /\ 2 * (GroupBlock \div 2) <= GroupBlock
    BY TileFacts
  <1> DEFINE h == GroupBlock \div 2
  <1>2. /\ reg = [t \in Groups!Thread |-> [phase |-> "block", pc |-> "store", span |-> h,
                                    seed |-> t, gathered |-> << >>]]
        /\ smem = [t \in Groups!Thread |-> Groups!Garbage] /\ round = [t \in Groups!Thread |-> 0]
    BY DEF Groups!Init
  <1>3. << >> \in Seq(Int) /\ Groups!Garbage \in Int
    BY DEF Groups!Garbage
  <1>4. \A t \in Groups!Thread : t \in Int /\ h \in Nat /\ 2 * h <= GroupBlock
    BY <1>1
  <1> HIDE DEF h
  <1>5. reg \in [Groups!Thread -> ThreadState]
    BY <1>2, <1>3, <1>4 DEF ThreadState
  <1>6. \A t \in Groups!Thread : /\ reg[t].phase = "block" /\ reg[t].pc = "store" /\ reg[t].span = h
                          /\ round[t] = 0
    BY <1>2
  <1>7. GroupTypes
    BY <1>2, <1>3, <1>4, <1>5, <1>6 DEF GroupTypes, Groups!InTile
  <1>8. \A t \in Groups!Thread : /\ AtPhase(t) = "block" /\ AtPc(t) = "store" /\ AtSpan(t) = h
                          /\ ~ Groups!InTile(t) /\ round[t] = 0
    BY <1>6 DEF AtPhase, AtPc, AtSpan, Groups!InTile
  <1> QED BY <1>7, <1>8 DEF GroupInv, TilesAfterBlock, InStep, Abreast

\* and every step keeps them in order.
LEMMA GroupStep == ASSUME Groups!SizesAssumption, GroupInv, [Groups!Next]_Groups!machine PROVE GroupInv'
  <1>1. CASE UNCHANGED Groups!machine
    BY <1>1 DEF Groups!machine, GroupInv, GroupTypes, TilesAfterBlock, InOneGroup, InStep, Follows,
                Abreast, AtPhase, AtPc, AtSpan, Groups!InTile
  <1>2. CASE Groups!Next
    <2> PICK t \in Groups!Thread : Groups!Store(t) \/ Groups!Add(t) \/ Groups!Return(t) \/ Groups!Split(t)
      BY <1>2 DEF Groups!Next
    <2>1. CASE Groups!Store(t) \/ Groups!Add(t) \/ (Groups!Return(t) /\ ~ Groups!InTile(t))
      <3>1. Advances(t)
        BY <2>1, GroupMoves DEF GroupInv
      <3> QED BY <3>1, GroupAdvances
    <2>2. CASE Groups!Return(t) /\ Groups!InTile(t)
      BY <2>2, GroupTileReturn
    <2>3. CASE Groups!Split(t)
      BY <2>3, GroupSplit
    <2> QED BY <2>1, <2>2, <2>3
  <1> QED BY <1>1, <1>2

\* Two threads of one group that may both run are where each other is; threads of
\* two tiles use their own parts of the array.
LEMMA GroupRaceFree == ASSUME Groups!SizesAssumption, GroupInv PROVE Groups!NoRace
  <1> SUFFICES ASSUME NEW t \in Groups!Thread, NEW u \in Groups!Thread, t # u, Groups!At(t, "store"), Groups!Reads(u),
                      Groups!GroupSynced(u)
               PROVE  Groups!Slot(t) # Groups!Slot(u) + reg[u].span
    BY DEF Groups!NoRace
  <1>1. /\ reg[t].pc = "store" /\ Groups!GroupSynced(t) /\ reg[u].pc = "add"
        /\ Groups!Slot(t) = t /\ Groups!Slot(u) = u
    BY SlotIs DEF Groups!At, Groups!Reads
  <1>2. AtPc(t) = "store" /\ AtPc(u) = "add"
    BY <1>1 DEF AtPc
  <1>3. (Groups!InTile(t) <=> AtPhase(t) = "tile") /\ (Groups!InTile(u) <=> AtPhase(u) = "tile")
    BY <1>1 DEF AtPhase, Groups!InTile
  <1>4. Groups!InTile(t) <=> Groups!InTile(u)
    BY <1>3 DEF GroupInv, TilesAfterBlock
  <1>5. ASSUME u \in Groups!Members(t), t \in Groups!Members(u) PROVE FALSE
    <2>1. round[u] >= round[t] /\ round[t] >= round[u]
      BY <1>1, <1>5 DEF Groups!GroupSynced
    <2>2. InOneGroup(t, u)
      <3>1. CASE Groups!InTile(t)
        BY <1>5, <3>1 DEF Groups!Members, InOneGroup
      <3>2. CASE ~ Groups!InTile(t)
        <4>1. reg[t].phase = "block" /\ AtPhase(t) = reg[t].phase
          BY <1>1, <3>2 DEF Groups!InTile, AtPhase, GroupInv, GroupTypes, ThreadState
        <4> QED BY <4>1 DEF InOneGroup
      <3> QED BY <3>1, <3>2
    <2>3. InStep(t, u) /\ round[t] \in Nat /\ round[u] \in Nat
      BY <2>2 DEF GroupInv, GroupTypes
    <2>4. round[t] = round[u]
      BY <2>1, <2>3
    <2> QED BY <1>2, <2>3, <2>4 DEF InStep, Abreast
  <1>6. Groups!InTile(t) /\ Groups!InTile(u) /\ t \div TileSize # u \div TileSize
    BY <1>4, <1>5 DEF Groups!Members
  <1>7. PICK q \in Nat : /\ q = u \div TileSize /\ q * TileSize <= u + reg[u].span
                         /\ u + reg[u].span < q * TileSize + TileSize
    BY <1>6, ReadsInGroup DEF GroupInv
  <1>8. PICK k \in Nat, r \in 0..TileSize - 1 : k = t \div TileSize /\ t = k * TileSize + r
    BY TileFacts
  <1>9. k # q /\ TileSize \in Nat \ {0} /\ r \in Nat /\ r < TileSize
    BY <1>6, <1>7, <1>8, TileFacts
  <1>10. k * TileSize \in Nat /\ q * TileSize \in Nat
    BY <1>9
  <1>11. k * TileSize + TileSize <= q * TileSize \/ q * TileSize + TileSize <= k * TileSize
    <2>1. CASE k < q
      <3>1. (k + 1) * TileSize <= q * TileSize
        BY <1>9, <2>1
      <3> QED BY <1>9, <3>1
    <2>2. CASE q < k
      <3>1. (q + 1) * TileSize <= k * TileSize
        BY <1>9, <2>2
      <3> QED BY <1>9, <3>1
    <2> QED BY <1>9, <2>1, <2>2
  <1>12. reg[u].span \in Nat /\ u \in Nat
    BY TileFacts DEF GroupInv, GroupTypes, ThreadState
  <1>13. t # u + reg[u].span
    BY <1>7, <1>8, <1>9, <1>10, <1>11, <1>12
  <1> QED BY <1>1, <1>13
-------------------------------------------------------------------------------
(* The kernels whose warps meet at barriers: their races                   *)

\* A power of 2 is the number of subsets of a finite set.
LEMMA PowerOfTwo == ASSUME NEW k \in Nat PROVE 2^k \in Nat \ {0}
  <1>1. IsFiniteSet(1..k) /\ Cardinality(1..k) = k
    <2>1. Cardinality(1..k) = IF 1 > k THEN 0 ELSE k - 1 + 1
      BY FS_Interval
    <2>2. IsFiniteSet(1..k)
      BY FS_Interval
    <2> QED BY <2>1, <2>2
  <1>2. IsFiniteSet(SUBSET (1..k)) /\ Cardinality(SUBSET (1..k)) = 2^k
    BY <1>1, FS_SUBSET
  <1>3. Cardinality(SUBSET (1..k)) \in Nat /\ Cardinality(SUBSET (1..k)) # 0
    <2>1. SUBSET (1..k) # {}
      OBVIOUS
    <2> QED BY <1>2, <2>1, FS_CardinalityType, FS_EmptySet
  <1> QED BY <1>2, <1>3

\* The logarithm of a power of 2.
LEMMA Log2Is ==
  ASSUME NEW x \in Nat, \E k \in 0..x : 2^k = x
  PROVE  Scan!Log2(x) \in 0..x /\ 2^Scan!Log2(x) = x
  <1>1. PICK k \in 0..x : 2^k = x
    OBVIOUS
  <1> QED BY <1>1 DEF Scan!Log2

\* The kernel's warps are pairs of numbers, and each has come to some barrier.
WarpsTyped == \A w \in DOMAIN round : w \in Nat \X Nat /\ round[w] \in Nat

\* Launched warps have come to none.
LEMMA LaunchTyped ==
  ASSUME NEW b \in Int, NEW k \in Int, NEW f, f = Scan!Launched(b, k)
  PROVE  \A w \in DOMAIN f : w \in Nat \X Nat /\ f[w] = 0
  BY DEF Scan!Launched, Scan!Grid

\* Lanes of two warps are different.
LEMMA LanesApart ==
  ASSUME WarpSize \in Nat \ {0}, NEW v \in Nat \X Nat, NEW w \in Nat \X Nat, v[2] # w[2]
  PROVE  /\ Scan!Lanes(v) \subseteq Nat /\ Scan!Lanes(w) \subseteq Nat
         /\ \A s \in Scan!Lanes(v), t \in Scan!Lanes(w) : s # t
  <1>1. v[2] \in Nat /\ w[2] \in Nat
    OBVIOUS
  <1>2. v[2] * WarpSize \in Nat /\ w[2] * WarpSize \in Nat
    BY <1>1
  <1>3. v[2] * WarpSize + WarpSize <= w[2] * WarpSize \/ w[2] * WarpSize + WarpSize <= v[2] * WarpSize
    <2>1. ASSUME NEW a \in Nat, NEW b \in Nat, a < b PROVE a * WarpSize + WarpSize <= b * WarpSize
      <3>1. (a + 1) * WarpSize <= b * WarpSize
        BY <2>1
      <3>2. (a + 1) * WarpSize = a * WarpSize + WarpSize
        OBVIOUS
      <3> QED BY <3>1, <3>2
    <2>2. v[2] < w[2] \/ w[2] < v[2]
      BY <1>1
    <2> QED BY <1>1, <2>1, <2>2
  <1>4. ASSUME NEW s \in Scan!Lanes(v), NEW t \in Scan!Lanes(w) PROVE s # t
    <2>1. PICK i \in 0..WarpSize - 1 : s = v[2] * WarpSize + i
      BY DEF Scan!Lanes
    <2>2. PICK j \in 0..WarpSize - 1 : t = w[2] * WarpSize + j
      BY DEF Scan!Lanes
    <2> QED BY <1>2, <1>3, <2>1, <2>2
  <1>5. Scan!Lanes(v) \subseteq Nat /\ Scan!Lanes(w) \subseteq Nat
    BY <1>2 DEF Scan!Lanes
  <1> QED BY <1>4, <1>5

\* Warps between the same barriers have come to the same.
LEMMA ConcurrentFacts ==
  ASSUME WarpsTyped, NEW v \in Scan!Warps, NEW w \in Scan!Warps, Scan!Concurrent(v, w)
  PROVE  /\ round[v] = round[w] /\ round[v] \in Nat
         /\ v \in Nat \X Nat /\ w \in Nat \X Nat /\ v[2] # w[2]
  <1>1. v \in Nat \X Nat /\ w \in Nat \X Nat /\ round[v] \in Nat /\ round[w] \in Nat
    BY DEF WarpsTyped, Scan!Warps
  <1>2. v # w /\ v[1] = w[1] /\ round[v] >= round[w] /\ round[w] >= round[v]
    BY DEF Scan!Concurrent, Scan!Synced
  <1> QED BY <1>1, <1>2

\* An arrival keeps the types.
LEMMA ArriveTyped == ASSUME WarpsTyped, NEW w \in Scan!Warps, Scan!Arrive(w) PROVE WarpsTyped'
  BY DEF WarpsTyped, Scan!Arrive, Scan!Warps

\* The machine is one, whichever of the two kernels runs on it.
LEMMA SameDevice ==
  /\ \A b, k : Merge!Launched(b, k) = Scan!Launched(b, k)
  /\ \A v, w : Merge!Concurrent(v, w) <=> Scan!Concurrent(v, w)
  /\ \A w : Merge!Lanes(w) = Scan!Lanes(w) /\ (Merge!Arrive(w) <=> Scan!Arrive(w))
  /\ \A x : Merge!Log2(x) = Scan!Log2(x)
  /\ Merge!Warps = Scan!Warps
  BY DEF Merge!Launched, Merge!Grid, Merge!Concurrent, Merge!Synced, Merge!Lanes, Merge!Arrive,
         Merge!Log2, Merge!Warps, Scan!Launched, Scan!Grid, Scan!Concurrent, Scan!Synced,
         Scan!Lanes, Scan!Arrive, Scan!Log2, Scan!Warps
-------------------------------------------------------------------------------
\* What the scan's races depend on: the length and the kernel, and its warps.
ScanInv ==
  /\ host \in [pass : Nat, n : Nat \ {0}]
  /\ WarpsTyped

\* The sizes of a launch are numbers.
LEMMA ScanBlocks ==
  ASSUME Scan!SizesAssumption, host \in [pass : Nat, n : Nat \ {0}]
  PROVE  Scan!NumBlocks \in Int /\ ScanBlock \div WarpSize \in Int
  <1>1. /\ host.n \in Nat /\ ScanBlock \in Nat \ {0} /\ WarpSize \in Nat \ {0}
    BY DEF Scan!SizesAssumption
  <1>2. 2 * ScanBlock \in Nat \ {0}
    BY <1>1
  <1>3. \A a \in Nat, b \in Nat \ {0} : Scan!CeilDiv(a, b) \in Int
    BY DEF Scan!CeilDiv
  <1> QED BY <1>1, <1>2, <1>3 DEF Scan!NumBlocks, Scan!Elems

\* They are typed at first,
LEMMA ScanInit == ASSUME Scan!SizesAssumption, Scan!Init PROVE ScanInv
  <1>1. host \in [pass : Nat, n : Nat \ {0}]
    <2>1. host \in [pass : {1}, n : ScanSizes]
      BY DEF Scan!Init
    <2>2. host.n \in ScanSizes /\ host.pass = 1 /\ host = [pass |-> host.pass, n |-> host.n]
      BY <2>1
    <2>3. host.n \in Nat \ {0}
      BY <2>2 DEF Scan!SizesAssumption
    <2> QED BY <2>2, <2>3
  <1>2. round = Scan!Launched(Scan!NumBlocks, ScanBlock \div WarpSize)
    BY DEF Scan!Init
  <1>3. \A w \in DOMAIN round : w \in Nat \X Nat /\ round[w] = 0
    BY <1>1, <1>2, ScanBlocks, LaunchTyped
  <1> QED BY <1>1, <1>3 DEF ScanInv, WarpsTyped, Scan!Warps

\* and at every launch and arrival.
LEMMA ScanStep == ASSUME Scan!SizesAssumption, ScanInv, [Scan!Next]_Scan!machine PROVE ScanInv'
  <1>1. CASE UNCHANGED Scan!machine
    BY <1>1 DEF Scan!machine, ScanInv, WarpsTyped, Scan!Warps
  <1>2. ASSUME NEW w \in Scan!Warps, Scan!Arrive(w), UNCHANGED host
        PROVE  ScanInv'
    BY <1>2, ArriveTyped DEF ScanInv
  <1>3. CASE \E w \in Scan!Warps : Scan!Load(w) \/ Scan!UpSweep(w) \/ Scan!DownSweep(w) \/ Scan!Store(w) \/ Scan!Propagate(w)
    <2> PICK w \in Scan!Warps : Scan!Load(w) \/ Scan!UpSweep(w) \/ Scan!DownSweep(w) \/ Scan!Store(w) \/ Scan!Propagate(w)
      BY <1>3
    <2>1. Scan!Arrive(w) /\ UNCHANGED host
      BY DEF Scan!Load, Scan!UpSweep, Scan!DownSweep, Scan!Store, Scan!Propagate, Scan!Turn
    <2> QED BY <1>2, <2>1
  <1>4. CASE Scan!NextPass
    <2>1. host' = [host EXCEPT !.pass = @ + 1] /\ host' \in [pass : Nat, n : Nat \ {0}]
          /\ host'.n = host.n
      BY <1>4 DEF Scan!NextPass, ScanInv
    <2>2. Scan!NumBlocks \in Int /\ ScanBlock \div WarpSize \in Int
      BY ScanBlocks DEF ScanInv
    <2>3. \E b \in Int : round' = Scan!NoKernel \/ round' = Scan!Launched(b, ScanBlock \div WarpSize)
      BY <1>4, <2>2 DEF Scan!NextPass
    <2>4. \A w \in DOMAIN round' : w \in Nat \X Nat /\ round'[w] \in Nat
      <3>1. PICK b \in Int : round' = Scan!NoKernel \/ round' = Scan!Launched(b, ScanBlock \div WarpSize)
        BY <2>3
      <3>2. CASE round' = Scan!NoKernel
        BY <3>2 DEF Scan!NoKernel
      <3>3. CASE round' = Scan!Launched(b, ScanBlock \div WarpSize)
        BY <2>2, <3>3, LaunchTyped
      <3> QED BY <3>1, <3>2, <3>3
    <2> QED BY <2>1, <2>4 DEF ScanInv, WarpsTyped, Scan!Warps
  <1> QED BY <1>1, <1>3, <1>4 DEF Scan!Next

\* Each level's pairs are apart: an element tells its pair.
LEMMA ScanRaceFree == ASSUME Scan!SizesAssumption, ScanInv PROVE Scan!NoRace
  <1>1. Scan!Levels \in Nat
    <2>1. 2 * ScanBlock \in Nat
      BY DEF Scan!SizesAssumption
    <2> QED BY <2>1, Log2Is DEF Scan!SizesAssumption, Scan!Levels, Scan!Elems
  <1>2. ASSUME NEW r \in Scan!UpRound \cup Scan!DownRound PROVE Scan!Offset(r) \in Nat \ {0}
    <2>1. CASE r \in Scan!UpRound
      <3>1. r - 1 \in Nat
        BY <1>1, <2>1 DEF Scan!UpRound
      <3> QED BY <2>1, <3>1, PowerOfTwo DEF Scan!Offset
    <2>2. CASE r \notin Scan!UpRound
      <3>1. 2 * Scan!Levels - r \in Nat
        BY <1>1, <1>2, <2>2 DEF Scan!UpRound, Scan!DownRound
      <3> QED BY <2>2, <3>1, PowerOfTwo DEF Scan!Offset
    <2> QED BY <2>1, <2>2
  <1>3. ASSUME NEW o \in Nat \ {0}, NEW a \in Nat, NEW b \in Nat, o * a - 1 = o * b - 1
        PROVE  a = b
    <2>1. o * a \in Nat /\ o * b \in Nat
      BY <1>3
    <2>2. o * a = o * b
      BY <1>3, <2>1
    <2>3. ASSUME NEW x \in Nat, NEW y \in Nat, x < y PROVE o * x # o * y
      <3>1. o * (x + 1) <= o * y
        BY <1>3, <2>3
      <3>2. o * (x + 1) = o * x + o
        BY <1>3
      <3>3. o * x \in Nat /\ o * y \in Nat
        BY <1>3
      <3> QED BY <1>3, <3>1, <3>2, <3>3
    <2> QED BY <1>3, <2>2, <2>3
  <1> SUFFICES ASSUME NEW v \in Scan!Warps, NEW w \in Scan!Warps, Scan!Concurrent(v, w),
                      {round[v], round[w]} \subseteq Scan!UpRound \cup Scan!DownRound,
                      NEW i \in Scan!Touched(v), i \in Scan!Touched(w)
               PROVE  FALSE
    BY DEF Scan!NoRace
  <1>4. /\ round[v] = round[w] /\ v \in Nat \X Nat /\ w \in Nat \X Nat /\ v[2] # w[2]
    BY ConcurrentFacts DEF ScanInv
  <1> DEFINE o == Scan!Offset(round[v])
  <1>5. o \in Nat \ {0}
    BY <1>2
  <1>6. PICK s \in Scan!Lanes(v) : i = o * (2 * s + 1) - 1 \/ i = o * (2 * s + 2) - 1
    BY DEF Scan!Touched, Scan!Pairs, Scan!PairOf
  <1>7. PICK t \in Scan!Lanes(w) : i = o * (2 * t + 1) - 1 \/ i = o * (2 * t + 2) - 1
    BY <1>4 DEF Scan!Touched, Scan!Pairs, Scan!PairOf
  <1>8. s \in Nat /\ t \in Nat /\ s # t
    BY <1>4, LanesApart DEF Scan!SizesAssumption
  <1> HIDE DEF o
  <1>9. PICK a \in {2 * s + 1, 2 * s + 2} : i = o * a - 1
    BY <1>6
  <1>10. PICK b \in {2 * t + 1, 2 * t + 2} : i = o * b - 1
    BY <1>7
  <1>11. a \in Nat /\ b \in Nat /\ a # b
    BY <1>8, <1>9, <1>10
  <1> QED BY <1>3, <1>5, <1>9, <1>10, <1>11
-------------------------------------------------------------------------------
\* What the races of sort and merge depend on: the size, and the kernel's warps.
MergeInv ==
  /\ host \in [pc : {"sort", "merge", "done"}, n : Nat, from : {"buf", "dst"}, width : Nat \ {0}]
  /\ WarpsTyped

\* A launch is of warps that have come to no barrier.
LEMMA MergeLaunch ==
  ASSUME NEW b \in Int, NEW k \in Int, round' = Merge!Launched(b, k)
  PROVE  WarpsTyped'
  BY LaunchTyped, SameDevice DEF WarpsTyped, Merge!Warps

\* They are typed at first,
LEMMA MergeInit == ASSUME Merge!SizesAssumption, Merge!Init PROVE MergeInv
  <1>1. PICK size \in MergeSizes :
          host = [pc |-> "sort", n |-> size, from |-> "buf", width |-> Capacity]
    BY DEF Merge!Init
  <1>2. Capacity \in Nat \ {0} /\ WarpSize \in Nat \ {0} /\ size \in Nat
    BY DEF Merge!SizesAssumption
  <1>3. host \in [pc : {"sort", "merge", "done"}, n : Nat, from : {"buf", "dst"}, width : Nat \ {0}]
    BY <1>1, <1>2
  <1>4. \A a \in Nat, b \in Nat \ {0} : Merge!CeilDiv(a, b) \in Int
    BY DEF Merge!CeilDiv
  <1>5. Merge!CeilDiv(Merge!n, Capacity) \in Int /\ Capacity \div WarpSize \in Int
    BY <1>2, <1>3, <1>4 DEF Merge!n
  <1>6. round = Merge!Launched(Merge!CeilDiv(Merge!n, Capacity), Capacity \div WarpSize)
    BY DEF Merge!Init
  <1>7. \A w \in DOMAIN round : w \in Nat \X Nat /\ round[w] = 0
    BY <1>5, <1>6, LaunchTyped, SameDevice
  <1> QED BY <1>3, <1>7 DEF MergeInv, WarpsTyped, Merge!Warps

\* The host launches the next merge, or ends.
LEMMA MergeLaunches ==
  ASSUME Merge!SizesAssumption, MergeInv, NEW in \in {"buf", "dst"}, NEW width \in Nat \ {0},
         Merge!MergeOrFinish(in, width)
  PROVE  MergeInv'
  <1>1. host' \in [pc : {"sort", "merge", "done"}, n : Nat, from : {"buf", "dst"}, width : Nat \ {0}]
    <2> DEFINE l == IF width < Merge!n THEN "merge" ELSE "done"
    <2>1. host' = [host EXCEPT !.pc = l, !.from = in, !.width = width]
      BY DEF Merge!MergeOrFinish
    <2>2. l \in {"sort", "merge", "done"}
      OBVIOUS
    <2> HIDE DEF l
    <2> QED BY <2>1, <2>2 DEF MergeInv
  <1>2. WarpsTyped'
    <2>1. CASE width < Merge!n
      <3>1. round' = Merge!Launched(Merge!CeilDiv(Merge!n, 2 * width), (2 * Capacity) \div WarpSize)
        BY <2>1 DEF Merge!MergeOrFinish, Merge!Launch
      <3>2. Capacity \in Nat \ {0} /\ WarpSize \in Nat \ {0} /\ Merge!n \in Nat
        BY DEF Merge!SizesAssumption, MergeInv, Merge!n
      <3>3. \A a \in Nat, b \in Nat \ {0} : Merge!CeilDiv(a, b) \in Int
        BY DEF Merge!CeilDiv
      <3>4. Merge!CeilDiv(Merge!n, 2 * width) \in Int /\ (2 * Capacity) \div WarpSize \in Int
        BY <3>2, <3>3
      <3> QED BY <3>1, <3>4, MergeLaunch
    <2>2. CASE ~ (width < Merge!n)
      <3>1. round' = Merge!NoKernel
        BY <2>2 DEF Merge!MergeOrFinish
      <3> QED BY <3>1 DEF WarpsTyped, Merge!Warps, Merge!NoKernel
    <2> QED BY <2>1, <2>2
  <1> QED BY <1>1, <1>2 DEF MergeInv

\* and at every launch and arrival.
LEMMA MergeStep == ASSUME Merge!SizesAssumption, MergeInv, [Merge!Next]_Merge!machine PROVE MergeInv'
  <1>1. CASE UNCHANGED Merge!machine
    BY <1>1 DEF Merge!machine, MergeInv, WarpsTyped, Merge!Warps
  <1>2. CASE Merge!AfterSort
    <2>1. Merge!MergeOrFinish(host.from, host.width)
      BY <1>2 DEF Merge!AfterSort
    <2> QED BY <2>1, MergeLaunches DEF MergeInv
  <1>3. CASE Merge!AfterMerge
    <2>1. Merge!MergeOrFinish(Merge!OtherBuffer, 2 * host.width)
      BY <1>3 DEF Merge!AfterMerge
    <2>2. Merge!OtherBuffer \in {"buf", "dst"} /\ 2 * host.width \in Nat \ {0}
      <3>1. host.width \in Nat \ {0}
        BY DEF MergeInv
      <3> QED BY <3>1 DEF Merge!OtherBuffer
    <2> QED BY <2>1, <2>2, MergeLaunches
  <1>4. CASE \E w \in Merge!Warps :
               \/ Merge!SortLoad(w) \/ Merge!SortPhase(w) \/ Merge!SortWrite(w)
               \/ Merge!MergeLoadLeft(w) \/ Merge!MergeLoadRight(w) \/ Merge!MergeStride(w) \/ Merge!MergeWrite(w)
    <2> PICK w \in Merge!Warps :
               \/ Merge!SortLoad(w) \/ Merge!SortPhase(w) \/ Merge!SortWrite(w)
               \/ Merge!MergeLoadLeft(w) \/ Merge!MergeLoadRight(w) \/ Merge!MergeStride(w) \/ Merge!MergeWrite(w)
      BY <1>4
    <2>1. Merge!Arrive(w) /\ UNCHANGED host
      BY DEF Merge!SortLoad, Merge!SortPhase, Merge!SortWrite, Merge!SortTurn,
             Merge!MergeLoadLeft, Merge!MergeLoadRight, Merge!MergeStride, Merge!MergeWrite, Merge!MergeTurn
    <2> QED BY <2>1, ArriveTyped, SameDevice DEF MergeInv
  <1> QED BY <1>1, <1>2, <1>3, <1>4 DEF Merge!Next

\* Thread t's pair of a sorting phase: its parity is the phase's.
LEMMA SortPairsApart ==
  ASSUME Merge!SizesAssumption, NEW v, NEW w, round[v] = round[w],
         Merge!Lanes(v) \subseteq Nat, Merge!Lanes(w) \subseteq Nat,
         \A s \in Merge!Lanes(v), t \in Merge!Lanes(w) : s # t,
         NEW s \in DOMAIN Merge!SortPairs(v), NEW t \in DOMAIN Merge!SortPairs(w)
  PROVE  {s, Merge!SortPairs(v)[s]} \cap {t, Merge!SortPairs(w)[t]} = {}
  <1>1. /\ s \in Merge!Lanes(v) /\ t \in Merge!Lanes(w) /\ s % 2 = (round[v] - 1) % 2
        /\ t % 2 = (round[w] - 1) % 2 /\ Merge!SortPairs(v)[s] = s + 1 /\ Merge!SortPairs(w)[t] = t + 1
    BY DEF Merge!SortPairs
  <1>2. s \in Nat /\ t \in Nat /\ s # t /\ s % 2 = t % 2
    BY <1>1
  <1>3. s # t + 1 /\ t # s + 1
    BY <1>2
  <1> QED BY <1>1, <1>2, <1>3

\* A number and the one a stride above lie in neighbouring stretches of it.
LEMMA NextStretch ==
  ASSUME NEW x \in Nat, NEW d \in Nat \ {0}
  PROVE  (x + d) \div d = x \div d + 1 /\ x \div d \in Nat
  <1> DEFINE q == x \div d
             r == x % d
  <1>1. x % d = x - d * (x \div d)
    OBVIOUS
  <1>2. q \in Nat /\ r \in 0..d - 1
    OBVIOUS
  <1>3. r = x - d * q
    BY <1>1
  <1>4. (x + d) % d = (x + d) - d * ((x + d) \div d) /\ (x + d) % d \in 0..d - 1
        /\ (x + d) \div d \in Nat
    <2>1. x + d \in Nat
      OBVIOUS
    <2>2. \A y \in Nat : y % d = y - d * (y \div d) /\ y % d \in 0..d - 1 /\ y \div d \in Nat
      OBVIOUS
    <2> QED BY <2>1, <2>2
  <1> DEFINE p == (x + d) \div d
             z == (x + d) % d
  <1>5. z = (x + d) - d * p /\ z \in 0..d - 1 /\ p \in Nat
    BY <1>4
  <1> HIDE DEF q, r, p, z
  <1>6. d * q \in Nat /\ d * p \in Nat /\ d * (q + 1) = d * q + d
    BY <1>2, <1>5
  <1>7. d * p - d * (q + 1) = r - z
    BY <1>2, <1>3, <1>5, <1>6
  <1>8. p = q + 1
    <2>1. CASE p < q + 1
      <3>1. d * (p + 1) <= d * (q + 1)
        BY <1>2, <1>5, <2>1
      <3>2. d * (p + 1) = d * p + d
        BY <1>5
      <3> QED BY <1>2, <1>5, <1>6, <1>7, <3>1, <3>2
    <2>2. CASE p > q + 1
      <3>1. d * (q + 2) <= d * p
        BY <1>2, <1>5, <2>2
      <3>2. d * (q + 2) = d * q + d + d
        BY <1>2
      <3> QED BY <1>2, <1>5, <1>6, <1>7, <3>1, <3>2
    <2> QED BY <1>2, <1>5, <2>1, <2>2
  <1> QED BY <1>2, <1>8 DEF p, q

\* A pair of a stride has one element in a stretch of even number, and the other above.
LEMMA MergePairsApart ==
  ASSUME Merge!SizesAssumption, NEW v, NEW w, round[v] = round[w], round[v] - 2 \in Nat,
         Merge!Lanes(v) \subseteq Nat, Merge!Lanes(w) \subseteq Nat,
         \A s \in Merge!Lanes(v), t \in Merge!Lanes(w) : s # t,
         NEW s \in DOMAIN Merge!MergePairs(v), NEW t \in DOMAIN Merge!MergePairs(w)
  PROVE  {s, Merge!MergePairs(v)[s]} \cap {t, Merge!MergePairs(w)[t]} = {}
  <1> DEFINE d == Capacity \div 2^(round[v] - 2)
  <1>1. d \in Nat
    <2>1. 2^(round[v] - 2) \in Nat \ {0}
      BY PowerOfTwo
    <2>2. Capacity \in Nat
      BY DEF Merge!SizesAssumption
    <2>3. \A b \in Nat \ {0} : Capacity \div b \in Nat
      BY <2>2
    <2> QED BY <2>1, <2>3
  <1>2. /\ s \in Merge!Lanes(v) /\ s < Merge!FlipBit(s, d) /\ Merge!MergePairs(v)[s] = Merge!FlipBit(s, d)
        /\ t \in Merge!Lanes(w) /\ t < Merge!FlipBit(t, d) /\ Merge!MergePairs(w)[t] = Merge!FlipBit(t, d)
    BY DEF Merge!MergePairs
  <1>3. s \in Nat /\ t \in Nat /\ s # t
    BY <1>2
  <1> HIDE DEF d
  <1>4. ASSUME NEW x \in Nat, x < Merge!FlipBit(x, d)
        PROVE  d # 0 /\ Merge!FlipBit(x, d) = x + d /\ (x \div d) % 2 = 0
    <2>1. CASE (x \div d) % 2 = 0
      <3>1. Merge!FlipBit(x, d) = x + d
        BY <2>1 DEF Merge!FlipBit
      <3> QED BY <1>1, <1>4, <2>1, <3>1
    <2>2. CASE (x \div d) % 2 # 0
      <3>1. Merge!FlipBit(x, d) = x - d
        BY <2>2 DEF Merge!FlipBit
      <3> QED BY <1>1, <1>4, <3>1
    <2> QED BY <2>1, <2>2
  <1>5. /\ d # 0 /\ Merge!FlipBit(s, d) = s + d /\ (s \div d) % 2 = 0
        /\ Merge!FlipBit(t, d) = t + d /\ (t \div d) % 2 = 0
    BY <1>2, <1>3, <1>4
  <1>6. ASSUME NEW x \in Nat, NEW y \in Nat, (x \div d) % 2 = 0, (y \div d) % 2 = 0
        PROVE  x + d # y
    <2>1. (x + d) \div d = x \div d + 1 /\ x \div d \in Nat
      BY <1>1, <1>5, NextStretch
    <2> DEFINE q == x \div d
    <2>2. q \in Nat /\ q % 2 = 0 /\ (x + d) \div d = q + 1
      BY <1>6, <2>1
    <2> HIDE DEF q
    <2>3. (q + 1) % 2 = 1
      BY <2>2
    <2> QED BY <1>6, <2>2, <2>3
  <1>7. s + d # t /\ t + d # s /\ s + d # t + d
    <2>1. s + d # t /\ t + d # s
      BY <1>3, <1>5, <1>6
    <2> QED BY <1>1, <1>3, <2>1
  <1>8. Merge!MergePairs(v)[s] = s + d /\ Merge!MergePairs(w)[t] = t + d
    BY <1>2, <1>5
  <1> QED BY <1>3, <1>7, <1>8

\* So no pair that a warp exchanges meets that of another warp.
LEMMA MergeRaceFree == ASSUME Merge!SizesAssumption, MergeInv PROVE Merge!NoRace
  <1> SUFFICES ASSUME NEW v \in Merge!Warps, NEW w \in Merge!Warps, Merge!Concurrent(v, w),
                      Merge!Exchanges(v), Merge!Exchanges(w), NEW i \in Merge!Touched(v), i \in Merge!Touched(w)
               PROVE  FALSE
    BY DEF Merge!NoRace
  <1>1. /\ round[v] = round[w] /\ round[v] \in Nat
        /\ v \in Nat \X Nat /\ w \in Nat \X Nat /\ v[2] # w[2]
    BY ConcurrentFacts, SameDevice DEF MergeInv
  <1>2. /\ Merge!Lanes(v) \subseteq Nat /\ Merge!Lanes(w) \subseteq Nat
        /\ \A s \in Merge!Lanes(v), t \in Merge!Lanes(w) : s # t
    BY <1>1, LanesApart, SameDevice DEF Merge!SizesAssumption
  <1>3. CASE Merge!Sorting
    <2>1. PICK s \in DOMAIN Merge!SortPairs(v) : i \in {s, Merge!SortPairs(v)[s]}
      BY <1>3 DEF Merge!Touched, Merge!Range
    <2>2. PICK t \in DOMAIN Merge!SortPairs(w) : i \in {t, Merge!SortPairs(w)[t]}
      BY <1>3 DEF Merge!Touched, Merge!Range
    <2>3. {s, Merge!SortPairs(v)[s]} \cap {t, Merge!SortPairs(w)[t]} = {}
      BY <1>1, <1>2, SortPairsApart
    <2> QED BY <2>1, <2>2, <2>3
  <1>4. CASE ~ Merge!Sorting
    <2>1. PICK s \in DOMAIN Merge!MergePairs(v) : i \in {s, Merge!MergePairs(v)[s]}
      BY <1>4 DEF Merge!Touched, Merge!Range
    <2>2. PICK t \in DOMAIN Merge!MergePairs(w) : i \in {t, Merge!MergePairs(w)[t]}
      BY <1>4 DEF Merge!Touched, Merge!Range
    <2>3. round[v] - 2 \in Nat
      <3>1. Merge!Log2(Capacity) \in Nat
        <4>1. Capacity \in Nat
          BY DEF Merge!SizesAssumption
        <4> QED BY <4>1, Log2Is, SameDevice DEF Merge!SizesAssumption
      <3>2. round[v] \in 2..Merge!MergeLast - 1
        BY <1>4 DEF Merge!Exchanges
      <3> QED BY <3>1, <3>2 DEF Merge!MergeLast
    <2>4. {s, Merge!MergePairs(v)[s]} \cap {t, Merge!MergePairs(w)[t]} = {}
      BY <1>1, <1>2, <2>3, MergePairsApart
    <2> QED BY <2>1, <2>2, <2>4
  <1> QED BY <1>3, <1>4
-------------------------------------------------------------------------------
(* The kernels together                                                    *)

\* The sizes every instance assumes.
LEMMA Sizes == Groups!SizesAssumption /\ Merge!SizesAssumption /\ Scan!SizesAssumption
  BY KernelAssumption

\* What each kernel's races, and the loads of a block's program, depend on.
RacesInv ==
  /\ sample = "cooperative_sync" => GroupInv
  /\ sample = "block_sort_merge" => MergeInv
  /\ sample = "scan"             => ScanInv

LoadsInv ==
  sample = "a block's program" => host \in DOMAIN Programs /\ BlockInv(Programs[host])

\* cooperative_sync, block_sort_merge and scan: between two barriers no two warps,
\* and no two threads, access one element of shared memory if one stores to it.
THEOREM NoRaces == Spec => []NoRace
  <1>1. Init => RacesInv
    <2> SUFFICES ASSUME Init PROVE RacesInv
      OBVIOUS
    <2>1. sample = "cooperative_sync" => GroupInv
      BY Sizes, GroupInit DEF Init
    <2>2. sample = "block_sort_merge" => MergeInv
      BY Sizes, MergeInit DEF Init
    <2>3. sample = "scan" => ScanInv
      BY Sizes, ScanInit DEF Init
    <2> QED BY <2>1, <2>2, <2>3 DEF RacesInv
  <1>2. RacesInv /\ [Next]_vars => RacesInv'
    <2> SUFFICES ASSUME RacesInv, [Next]_vars PROVE RacesInv'
      OBVIOUS
    <2>1. sample' = sample
      BY DEF Next, vars
    <2>2. sample = "cooperative_sync" => GroupInv'
      <3> SUFFICES ASSUME sample = "cooperative_sync" PROVE GroupInv'
        OBVIOUS
      <3>1. [Groups!Next]_Groups!machine
        BY DEF Next, vars, Groups!machine
      <3> QED BY <3>1, Sizes, GroupStep DEF RacesInv
    <2>3. sample = "block_sort_merge" => MergeInv'
      <3> SUFFICES ASSUME sample = "block_sort_merge" PROVE MergeInv'
        OBVIOUS
      <3>1. [Merge!Next]_Merge!machine
        BY DEF Next, vars, Merge!machine
      <3> QED BY <3>1, Sizes, MergeStep DEF RacesInv
    <2>4. sample = "scan" => ScanInv'
      <3> SUFFICES ASSUME sample = "scan" PROVE ScanInv'
        OBVIOUS
      <3>1. [Scan!Next]_Scan!machine
        BY DEF Next, vars, Scan!machine
      <3> QED BY <3>1, Sizes, ScanStep DEF RacesInv
    <2> QED BY <2>1, <2>2, <2>3, <2>4 DEF RacesInv
  <1>3. RacesInv => NoRace
    BY Sizes, GroupRaceFree, MergeRaceFree, ScanRaceFree DEF RacesInv, NoRace
  <1> QED BY <1>1, <1>2, <1>3, PTL DEF Spec

\* A program that enforces its order: a load finds all that the steps before its own
\* make, and nothing else, however its threads and its copies interleave.
THEOREM LoadsAreSerial ==
  OrderedPrograms = DOMAIN Programs => (Spec => []SerialLoads)
  <1> SUFFICES ASSUME OrderedPrograms = DOMAIN Programs PROVE Spec => []SerialLoads
    OBVIOUS
  <1>1. Init => LoadsInv
    <2> SUFFICES ASSUME Init, sample = "a block's program"
                 PROVE  host \in DOMAIN Programs /\ BlockInv(Programs[host])
      BY DEF LoadsInv
    <2>1. Block!Init
      BY DEF Init
    <2>2. host \in DOMAIN Programs
      BY <2>1 DEF Block!Init
    <2>3. Block!WellOrdered(Programs[host])
      BY <2>2 DEF OrderedPrograms
    <2>4. BlockInv(Programs[host])
      <3>1. ASSUME NEW CONSTANT k \in DOMAIN Programs, host = k PROVE BlockInv(Programs[k])
        <4>1. Programs[k] = Block!Program /\ Block!WellOrdered(Programs[k])
          BY <2>3, <3>1 DEF Block!Program
        <4> QED BY <2>1, <4>1, BlockInit
      <3> QED BY <2>2, <3>1
    <2> QED BY <2>2, <2>4
  <1>2. LoadsInv /\ [Next]_vars => LoadsInv'
    <2> SUFFICES ASSUME LoadsInv, [Next]_vars, (sample = "a block's program")'
                 PROVE  (host \in DOMAIN Programs /\ BlockInv(Programs[host]))'
      BY DEF LoadsInv
    <2>1. sample = "a block's program"
      BY DEF Next, vars
    <2>2. [Block!Next]_Block!machine
      BY <2>1 DEF Next, vars, Block!machine
    <2>3. host' = host
      BY <2>2 DEF Block!machine, Block!Next, Block!Load, Block!Store, Block!AtomicAdd, Block!Sync,
                  Block!Return, Block!Copy, Block!Commit, Block!WaitGroup, Block!InitAwbar,
                  Block!LinkCopies, Block!ArriveAwbar, Block!WaitAwbar, Block!Does,
                  Block!CopyLands, Block!LinkArrives
    <2>4. host \in DOMAIN Programs /\ BlockInv(Programs[host])
      BY <2>1 DEF LoadsInv
    <2>5. ASSUME NEW CONSTANT k \in DOMAIN Programs, host = k
          PROVE  BlockInv(Programs[k])'
      <3>1. BlockInv(Programs[k])
        BY <2>4, <2>5
      <3> QED BY <2>2, <3>1, BlockStep
    <2>6. BlockInv(Programs[host])'
      BY <2>3, <2>4, <2>5
    <2> QED BY <2>3, <2>4, <2>6
  <1>3. LoadsInv => SerialLoads
    <2> SUFFICES ASSUME LoadsInv, sample = "a block's program" PROVE Block!SerialLoads
      BY DEF SerialLoads
    <2>1. host \in DOMAIN Programs /\ BlockInv(Programs[host])
      BY DEF LoadsInv
    <2>2. ASSUME NEW CONSTANT k \in DOMAIN Programs, host = k PROVE Block!SerialLoads
      <3>1. BlockInv(Programs[k])
        BY <2>1, <2>2
      <3> QED BY <2>1, <3>1, BlockLoads
    <2> QED BY <2>1, <2>2
  <1> QED BY <1>1, <1>2, <1>3, PTL DEF Spec
-------------------------------------------------------------------------------
(* Places                                                                  *)

\* A number is in one way a multiple of g and a remainder.
LEMMA DigitsUnique ==
  ASSUME NEW g \in Nat \ {0}, NEW q \in Nat, NEW p \in Nat, NEW r \in 0..g - 1,
         NEW s \in 0..g - 1,
         q * g + r = p * g + s
  PROVE  q = p /\ r = s
  <1>1. q * g \in Nat /\ p * g \in Nat
    OBVIOUS
  <1>2. ASSUME NEW a \in Nat, NEW b \in Nat, a < b PROVE a * g + g <= b * g
    <2>1. (a + 1) * g <= b * g
      BY <1>2
    <2>2. (a + 1) * g = a * g + g
      OBVIOUS
    <2> QED BY <2>1, <2>2
  <1>3. ~ (q < p)
    <2> SUFFICES ASSUME q < p PROVE FALSE
      OBVIOUS
    <2>1. q * g + g <= p * g
      BY <1>2
    <2> QED BY <1>1, <2>1
  <1>4. ~ (p < q)
    <2> SUFFICES ASSUME p < q PROVE FALSE
      OBVIOUS
    <2>1. p * g + g <= q * g
      BY <1>2
    <2> QED BY <1>1, <2>1
  <1>5. q = p
    BY <1>3, <1>4
  <1> QED BY <1>1, <1>5

\* The quotient of a multiple.
LEMMA WholeQuotient ==
  ASSUME NEW b \in Nat \ {0}, NEW g \in Nat \ {0}, b % g = 0
  PROVE  b \div g \in Nat \ {0} /\ b = (b \div g) * g
  <1>1. PICK q \in Nat, r \in 0..g - 1 : q = b \div g /\ r = b % g /\ b = q * g + r
    BY DivMod
  <1>2. q * g \in Nat
    OBVIOUS
  <1>3. b = q * g
    BY <1>1, <1>2
  <1>4. q # 0
    <2> SUFFICES ASSUME q = 0 PROVE FALSE
      OBVIOUS
    <2>1. q * g = 0
      OBVIOUS
    <2> QED BY <1>3, <2>1
  <1> QED BY <1>1, <1>3, <1>4

\* The places of blocks of b elements, in groups of g, that cover n elements: a place
\* tells its block, its group and the rank in it, and each element has a place.
PlacesOf(n, b, g) ==
  /\ (n + b - 1) \div b \in Nat \ {0}
  /\ \A k \in 0..(b \div g) - 1, l \in 0..g - 1 : k * g + l \in 0..b - 1
  /\ \A t \in 0..b - 1 : \E k \in 0..(b \div g) - 1, l \in 0..g - 1 : t = k * g + l
  /\ \A i \in 0..n - 1 : \E c \in 0..((n + b - 1) \div b) - 1, t \in 0..b - 1 :
       i = c * b + t /\ c = i \div b
  /\ \A c, d \in Nat : \A t, u \in 0..b - 1 : c * b + t = d * b + u => c = d /\ t = u

\* So b and its groups of g number the places below n in one way.
LEMMA Places ==
  ASSUME NEW n \in Nat \ {0}, NEW b \in Nat \ {0}, NEW g \in Nat \ {0}, b % g = 0
  PROVE  PlacesOf(n, b, g)
  <1>1. PICK m \in Nat \ {0} : m = b \div g /\ b = m * g
    BY WholeQuotient
  <1>2. PICK q \in Nat, r \in 0..b - 1 : q = (n + b - 1) \div b /\ n + b - 1 = q * b + r
    <2>1. n + b - 1 \in Nat
      OBVIOUS
    <2> QED BY <2>1, DivMod
  <1>3. q # 0
    <2> SUFFICES ASSUME q = 0 PROVE FALSE
      OBVIOUS
    <2>1. q * b = 0
      OBVIOUS
    <2> QED BY <1>2, <2>1
  <1>4. ASSUME NEW k \in 0..m - 1, NEW l \in 0..g - 1 PROVE k * g + l \in 0..b - 1
    <2>1. (k + 1) * g <= m * g
      OBVIOUS
    <2>2. (k + 1) * g = k * g + g /\ k * g \in Nat
      OBVIOUS
    <2> QED BY <1>1, <2>1, <2>2
  <1>5. ASSUME NEW t \in 0..b - 1 PROVE \E k \in 0..m - 1, l \in 0..g - 1 : t = k * g + l
    <2>1. PICK k \in Nat, l \in 0..g - 1 : k = t \div g /\ t = k * g + l
      BY DivMod
    <2>2. k < m
      <3> SUFFICES ASSUME m <= k PROVE FALSE
        OBVIOUS
      <3>1. m * g <= k * g
        OBVIOUS
      <3>2. k * g \in Nat
        OBVIOUS
      <3> QED BY <1>1, <2>1, <3>1, <3>2
    <2>3. k \in 0..m - 1
      BY <2>2
    <2> QED BY <2>1, <2>3
  <1>6. ASSUME NEW i \in 0..n - 1
        PROVE  \E c \in 0..q - 1, t \in 0..b - 1 : i = c * b + t /\ c = i \div b
    <2>1. PICK c \in Nat, t \in 0..b - 1 : c = i \div b /\ i = c * b + t
      BY DivMod
    <2>2. c < q
      <3> SUFFICES ASSUME q <= c PROVE FALSE
        OBVIOUS
      <3>1. q * b <= c * b
        OBVIOUS
      <3>2. q * b \in Nat /\ c * b \in Nat
        OBVIOUS
      <3> QED BY <1>2, <2>1, <3>1, <3>2
    <2> QED BY <2>1, <2>2
  <1>7. \A c, d \in Nat : \A t, u \in 0..b - 1 : c * b + t = d * b + u => c = d /\ t = u
    BY DigitsUnique
  <1> QED BY <1>1, <1>2, <1>3, <1>4, <1>5, <1>6, <1>7 DEF PlacesOf

\* The numbers below one are as many as it.
LEMMA Below == ASSUME NEW n \in Nat PROVE IsFiniteSet(0..n - 1) /\ Cardinality(0..n - 1) = n
  <1>1. /\ IsFiniteSet(0..n - 1)
        /\ Cardinality(0..n - 1) = IF 0 > n - 1 THEN 0 ELSE n - 1 - 0 + 1
    BY FS_Interval
  <1> QED BY <1>1

\* How many elements of a set of numbers are below one.
Rank(B, l) == Cardinality({ m \in B : m < l })

\* It numbers the elements of a finite set from 0 on, in their order.
LEMMA RankFacts ==
  ASSUME NEW B, IsFiniteSet(B), B \subseteq Int
  PROVE  /\ Cardinality(B) \in Nat
         /\ \A l \in B : Rank(B, l) \in 0..Cardinality(B) - 1
         /\ \A l, m \in B : l < m => Rank(B, l) < Rank(B, m)
         /\ \A q \in 0..Cardinality(B) - 1 : \E l \in B : Rank(B, l) = q
  <1> DEFINE below(l) == { m \in B : m < l }
             f == [l \in B |-> Rank(B, l)]
             n == Cardinality(B)
  <1>1. n \in Nat
    BY FS_CardinalityType
  <1>2. \A l \in B : IsFiniteSet(below(l)) /\ Cardinality(below(l)) \in Nat
    <2> TAKE l \in B
    <2>1. below(l) \in SUBSET B
      OBVIOUS
    <2>2. IsFiniteSet(below(l))
      BY <2>1, FS_Subset
    <2> QED BY <2>2, FS_CardinalityType
  <1>3. ASSUME NEW l \in B PROVE Cardinality(below(l)) < n
    <2>1. below(l) \in SUBSET B /\ below(l) # B
      OBVIOUS
    <2>2. Cardinality(below(l)) <= n /\ (n = Cardinality(below(l)) => B = below(l))
      BY <2>1, FS_Subset
    <2> QED BY <1>1, <1>2, <2>1, <2>2
  <1>4. ASSUME NEW l \in B, NEW m \in B, l < m PROVE Cardinality(below(l)) < Cardinality(below(m))
    <2>1. below(l) \in SUBSET below(m) /\ l \in below(m) /\ l \notin below(l)
      <3>1. l \in Int /\ m \in Int /\ \A x \in B : x \in Int
        OBVIOUS
      <3>2. \A x \in B : x < l => x < m
        BY <1>4, <3>1
      <3>3. below(l) \in SUBSET below(m)
        BY <3>2
      <3>4. l \in below(m) /\ l \notin below(l)
        BY <1>4, <3>1
      <3> QED BY <3>3, <3>4
    <2>2. /\ Cardinality(below(l)) <= Cardinality(below(m))
          /\ Cardinality(below(m)) = Cardinality(below(l)) => below(m) = below(l)
      BY <1>2, <2>1, FS_Subset
    <2> QED BY <1>2, <2>1, <2>2
  <1>5. \A l \in B : Rank(B, l) \in 0..n - 1
    BY <1>1, <1>2, <1>3 DEF Rank
  <1>6. \A l, m \in B : l < m => Rank(B, l) < Rank(B, m)
    BY <1>4 DEF Rank
  <1>7. f \in Injection(B, 0..n - 1)
    <2>1. f \in [B -> 0..n - 1]
      BY <1>5
    <2>2. ASSUME NEW l \in B, NEW m \in B, f[l] = f[m] PROVE l = m
      <3>1. Rank(B, l) = Rank(B, m) /\ Rank(B, l) \in Int /\ Rank(B, m) \in Int
        BY <1>5, <2>2
      <3>2. ~ (l < m) /\ ~ (m < l)
        BY <1>6, <3>1
      <3> QED BY <3>2
    <2> QED BY <2>1, <2>2 DEF Injection, IsInjective
  <1>8. IsFiniteSet(0..n - 1) /\ Cardinality(0..n - 1) = n
    <2> HIDE DEF n
    <2> QED BY <1>1, Below
  <1>9. f \in Surjection(B, 0..n - 1)
    <2> HIDE DEF f
    <2> QED BY <1>7, <1>8, FS_Injection
  <1>10. \A q \in 0..n - 1 : \E l \in B : Rank(B, l) = q
    BY <1>9 DEF Surjection
  <1> QED BY <1>1, <1>5, <1>6, <1>10

\* The stretches of the x in S, size[x] places long and beginning at from[x], are
\* apart and together the first n places.
Fill(S, from, size, n) ==
  /\ n \in Nat
  /\ \A x \in S : from[x] \in Nat /\ size[x] \in Nat /\ from[x] + size[x] <= n
  /\ \A x, y \in S : x # y => from[x] + size[x] <= from[y] \/ from[y] + size[y] <= from[x]
  /\ \A p \in 0..n - 1 : \E x \in S : from[x] <= p /\ p < from[x] + size[x]

\* Nothing fills no places.
LEMMA FillNone == ASSUME NEW f, NEW g PROVE Fill({}, f, g, 0)
  BY DEF Fill

\* Who claims the next places leaves the others' as they are.
LEMMA FillMore ==
  ASSUME NEW S, NEW f, NEW g, NEW n, Fill(S, f, g, n),
         NEW x, x \notin S, NEW c \in Nat, NEW h, NEW k, h[x] = n, k[x] = c,
         \A y \in S : h[y] = f[y] /\ k[y] = g[y]
  PROVE  Fill(S \cup {x}, h, k, n + c)
  <1>1. n \in Nat
    BY DEF Fill
  <1>2. ASSUME NEW y \in S \cup {x} PROVE h[y] \in Nat /\ k[y] \in Nat /\ h[y] + k[y] <= n + c
    <2>1. CASE y = x
      BY <1>1, <2>1
    <2>2. CASE y \in S
      <3>1. f[y] \in Nat /\ g[y] \in Nat /\ f[y] + g[y] <= n
        BY <2>2 DEF Fill
      <3> QED BY <1>1, <2>2, <3>1
    <2> QED BY <2>1, <2>2
  <1>3. ASSUME NEW y \in S \cup {x}, NEW z \in S \cup {x}, y # z
        PROVE  h[y] + k[y] <= h[z] \/ h[z] + k[z] <= h[y]
    <2>1. CASE y \in S /\ z \in S
      BY <1>3, <2>1 DEF Fill
    <2>2. CASE y \in S /\ z = x
      BY <2>2 DEF Fill
    <2>3. CASE y = x /\ z \in S
      BY <2>3 DEF Fill
    <2> QED BY <1>3, <2>1, <2>2, <2>3
  <1>4. ASSUME NEW p \in 0..n + c - 1
        PROVE  \E y \in S \cup {x} : h[y] <= p /\ p < h[y] + k[y]
    <2>1. CASE p < n
      <3>1. p \in 0..n - 1
        BY <1>1, <2>1
      <3>2. PICK y \in S : f[y] <= p /\ p < f[y] + g[y]
        BY <3>1 DEF Fill
      <3>3. h[y] <= p /\ p < h[y] + k[y]
        BY <3>2
      <3> QED BY <3>3
    <2>2. CASE p >= n
      BY <1>1, <2>2
    <2> QED BY <1>1, <2>1, <2>2
  <1>5. n + c \in Nat
    BY <1>1
  <1> QED BY <1>2, <1>3, <1>4, <1>5 DEF Fill

\* Only the stretches of S matter.
LEMMA FillSame ==
  ASSUME NEW S, NEW f, NEW g, NEW n, Fill(S, f, g, n), NEW h, NEW k,
         \A y \in S : h[y] = f[y] /\ k[y] = g[y]
  PROVE  Fill(S, h, k, n)
  <1>1. \A p \in 0..n - 1 : \E x \in S : h[x] <= p /\ p < h[x] + k[x]
    <2> TAKE p \in 0..n - 1
    <2>1. PICK x \in S : f[x] <= p /\ p < f[x] + g[x]
      BY DEF Fill
    <2> QED BY <2>1
  <1> QED BY <1>1 DEF Fill

\* A place has one owner.
LEMMA FillOne ==
  ASSUME NEW S, NEW f, NEW g, NEW n, Fill(S, f, g, n), NEW x \in S, NEW y \in S,
         NEW p \in 0..g[x] - 1, NEW q \in 0..g[y] - 1
  PROVE  /\ f[x] + p \in 0..n - 1
         /\ f[x] + p = f[y] + q => x = y /\ p = q
  <1>1. /\ n \in Nat /\ f[x] \in Nat /\ g[x] \in Nat /\ f[x] + g[x] <= n
        /\ f[y] \in Nat /\ g[y] \in Nat /\ f[y] + g[y] <= n
    BY DEF Fill
  <1>2. x # y => f[x] + g[x] <= f[y] \/ f[y] + g[y] <= f[x]
    BY DEF Fill
  <1>3. f[x] + p = f[y] + q => x = y
    BY <1>1, <1>2
  <1> QED BY <1>1, <1>3
-------------------------------------------------------------------------------
(* stream_compact: what passes is in the output                            *)

\* The cardinalities of the instance are the library's.
LEMMA SameCounts == \A S : Compact!Cardinality(S) = Cardinality(S)
  BY DEF Compact!Cardinality, Cardinality

\* The warps of the ballot strategy's grid, and how many elements pass in each.
CompactGrid == Compact!Blocks \X (0..(CompactBlock \div WarpSize) - 1)
BallotSize  == [w \in CompactGrid |-> Cardinality(Compact!Ballot(w))]

\* The warps of a block that have claimed slots in it, and the blocks that have
\* claimed slots in the grid.
Claimers(b)   == { w \in CompactGrid : w[1] = b /\ round[w] >= 2 /\ Compact!Ballot(w) # {} }
ClaimedBlocks == { b \in Compact!Blocks : round[<< b, 0 >>] >= 3 }

Offsets == [b \in Compact!Blocks |-> smem[b].offset]
Counts  == [b \in Compact!Blocks |-> smem[b].count]

CompactTypes ==
  /\ host \in [strategy : {"naive", "ballot", "done"}, prime : SUBSET Compact!Index]
  /\ gmem \in [count : Nat, output : [Compact!Index -> Compact!Index \cup {Compact!Unwritten}]]
  /\ smem \in [Compact!Blocks -> [count : Int, offset : Int]]

\* The naive strategy: the slots claimed are those below the count, one for each
\* thread, and a slot that was stored to holds the element of its owner.
NaiveInv ==
  LET claimed == DOMAIN reg IN
  /\ CompactTypes
  /\ host.strategy # "ballot" /\ round = Compact!NoKernel
  /\ \A b \in Compact!Blocks :
       smem[b] = [count |-> Compact!Unwritten, offset |-> Compact!Unwritten]
  /\ claimed \subseteq host.prime /\ gmem.count = Cardinality(claimed)
  /\ \A i \in claimed : reg[i] \in 0..gmem.count - 1
  /\ \A i, j \in claimed : reg[i] = reg[j] => i = j
  /\ \A p \in Compact!Index : gmem.output[p] # Compact!Unwritten =>
       gmem.output[p] \in claimed /\ reg[gmem.output[p]] = p
  /\ host.strategy = "done" =>
       host.prime = claimed /\ \A i \in claimed : \E p \in Compact!Index : gmem.output[p] = i

\* The ballot strategy: warps are a round apart at most; the slots claimed in a block
\* are those below its count and the slots claimed in the grid those below the
\* grid's; a warp at its end has its elements in its slots.
BallotTypes ==
  /\ CompactTypes /\ host.strategy # "naive"
  /\ round \in [CompactGrid -> 0..4] /\ reg \in [CompactGrid -> Nat]
  /\ \A v, w \in CompactGrid : v[1] = w[1] => round[v] <= round[w] + 1

BlockSlots ==
  \A b \in Compact!Blocks :
    IF round[<< b, 0 >>] = 0 THEN smem[b].count = Compact!Unwritten
                             ELSE Fill(Claimers(b), reg, BallotSize, smem[b].count)

GridSlots ==
  /\ \A b \in Compact!Blocks \ ClaimedBlocks : smem[b].offset = Compact!Unwritten
  /\ \A w \in CompactGrid : w \notin Claimers(w[1]) => reg[w] = 0
  /\ Fill(ClaimedBlocks, Offsets, Counts, gmem.count)

SlotsHold ==
  \A w \in CompactGrid : round[w] = 4 =>
    \A lane \in Compact!Ballot(w) :
      gmem.output[Compact!SlotOf(w, lane)] = Compact!IndexOf(w, lane)

BallotInv ==
  /\ BallotTypes /\ BlockSlots /\ GridSlots /\ SlotsHold
  /\ host.strategy = "done" => \A w \in CompactGrid : round[w] = 4

CompactInv == NaiveInv \/ BallotInv

\* Each element has a lane of a warp, and only one.
LEMMA Indices ==
  ASSUME Compact!SizesAssumption
  PROVE  /\ \A w \in CompactGrid : \A l \in 0..WarpSize - 1 : Compact!IndexOf(w, l) \in Nat
         /\ \A v, w \in CompactGrid : \A l, m \in 0..WarpSize - 1 :
              Compact!IndexOf(v, l) = Compact!IndexOf(w, m) => v = w /\ l = m
         /\ \A i \in Compact!Index : \E w \in CompactGrid : \E l \in 0..WarpSize - 1 :
              Compact!IndexOf(w, l) = i
         /\ \A b \in Compact!Blocks : << b, 0 >> \in CompactGrid
         /\ Compact!Blocks # {}
  <1>1. /\ CompactN \in Nat \ {0} /\ CompactBlock \in Nat \ {0} /\ WarpSize \in Nat \ {0}
        /\ CompactBlock % WarpSize = 0
    BY DEF Compact!SizesAssumption
  <1> DEFINE m == (CompactN + CompactBlock - 1) \div CompactBlock
             k == CompactBlock \div WarpSize
             B == CompactBlock
             W == WarpSize
  <1>2. Compact!Blocks = 0..m - 1 /\ CompactGrid = (0..m - 1) \X (0..k - 1)
        /\ Compact!Index = 0..CompactN - 1
    BY DEF Compact!Blocks, CompactGrid, Compact!CeilDiv, Compact!Index
  <1>3. /\ m \in Nat \ {0}
        /\ \A c \in 0..k - 1, l \in 0..W - 1 : c * W + l \in 0..B - 1
        /\ \A t \in 0..B - 1 : \E c \in 0..k - 1, l \in 0..W - 1 : t = c * W + l
        /\ \A i \in 0..CompactN - 1 : \E c \in 0..m - 1, t \in 0..B - 1 :
             i = c * B + t /\ c = i \div B
        /\ \A c, d \in Nat : \A t, u \in 0..B - 1 : c * B + t = d * B + u => c = d /\ t = u
    <2>1. PlacesOf(CompactN, CompactBlock, WarpSize)
      BY <1>1, Places
    <2> QED BY <2>1, Zenon DEF PlacesOf
  <1>4. k \in Nat \ {0}
    BY <1>1, WholeQuotient
  <1>5. \A w \in CompactGrid : \A l \in 0..W - 1 :
          Compact!IndexOf(w, l) = w[1] * B + (w[2] * W + l)
    <2> TAKE w \in CompactGrid
    <2> TAKE l \in 0..W - 1
    <2>1. w[1] * B \in Int /\ w[2] * W \in Int
      <3>1. w[1] \in Int /\ w[2] \in Int
        BY <1>2
      <3> QED BY <1>1, <3>1
    <2> QED BY <1>1, <2>1 DEF Compact!IndexOf
  <1> HIDE DEF m, k
  <1>6. \A w \in CompactGrid : w[1] \in 0..m - 1 /\ w[2] \in 0..k - 1 /\ w = << w[1], w[2] >>
    BY <1>2
  <1>7. ASSUME NEW w \in CompactGrid, NEW l \in 0..W - 1 PROVE Compact!IndexOf(w, l) \in Nat
    <2>1. w[2] * W + l \in 0..B - 1 /\ w[1] \in Nat
      <3>1. w[1] \in 0..m - 1 /\ w[2] \in 0..k - 1
        BY <1>6
      <3>2. w[2] * W + l \in 0..B - 1
        BY <1>3, <3>1, Zenon
      <3> QED BY <1>3, <3>1, <3>2
    <2>2. w[1] * B \in Nat
      BY <1>1, <2>1
    <2> QED BY <1>5, <2>1, <2>2
  <1>8. ASSUME NEW v \in CompactGrid, NEW w \in CompactGrid, NEW l \in 0..W - 1,
               NEW j \in 0..W - 1,
               Compact!IndexOf(v, l) = Compact!IndexOf(w, j)
        PROVE  v = w /\ l = j
    <2>1. /\ v[1] \in Nat /\ w[1] \in Nat /\ v[2] \in Nat /\ w[2] \in Nat
          /\ v[2] * W + l \in 0..B - 1 /\ w[2] * W + j \in 0..B - 1
      <3>1. /\ v[1] \in 0..m - 1 /\ v[2] \in 0..k - 1
            /\ w[1] \in 0..m - 1 /\ w[2] \in 0..k - 1
        BY <1>6
      <3>2. v[2] * W + l \in 0..B - 1 /\ w[2] * W + j \in 0..B - 1
        BY <1>3, <3>1, Zenon
      <3>3. m \in Nat /\ k \in Nat
        BY <1>3, <1>4
      <3>4. \A z \in Int : \A x \in 0..z : x \in Nat
        OBVIOUS
      <3> QED BY <3>1, <3>2, <3>3, <3>4
    <2> DEFINE a == v[1]
               c == w[1]
               d == v[2]
               e == w[2]
    <2>2. a * B + (d * W + l) = c * B + (e * W + j)
      BY <1>5, <1>8
    <2>3. v = << a, d >> /\ w = << c, e >>
      BY <1>6
    <2>4. a \in Nat /\ c \in Nat /\ d \in Nat /\ e \in Nat /\ d * W + l \in 0..B - 1
          /\ e * W + j \in 0..B - 1
      BY <2>1
    <2> HIDE DEF a, c, d, e
    <2>5. a = c /\ d * W + l = e * W + j
      <3> DEFINE t == d * W + l
                 u == e * W + j
      <3>1. t \in 0..B - 1 /\ u \in 0..B - 1 /\ a * B + t = c * B + u
        BY <2>2, <2>4
      <3>2. a = c /\ t = u
        <4> HIDE DEF t, u
        <4> QED BY <1>1, <2>4, <3>1, DigitsUnique
      <3> QED BY <3>2
    <2>6. d = e /\ l = j
      BY <1>1, <2>4, <2>5, DigitsUnique
    <2> QED BY <2>3, <2>5, <2>6
  <1>9. ASSUME NEW i \in Compact!Index
        PROVE  \E w \in CompactGrid : \E l \in 0..W - 1 : Compact!IndexOf(w, l) = i
    <2>1. PICK c \in 0..m - 1, t \in 0..B - 1 : i = c * B + t
      BY <1>2, <1>3
    <2>2. PICK d \in 0..k - 1, l \in 0..W - 1 : t = d * W + l
      BY <1>3
    <2>3. << c, d >> \in CompactGrid /\ << c, d >>[1] = c /\ << c, d >>[2] = d
      BY <1>2
    <2>4. Compact!IndexOf(<< c, d >>, l) = i
      BY <1>5, <2>1, <2>2, <2>3
    <2> QED BY <2>3, <2>4
  <1>10. \A b \in Compact!Blocks : << b, 0 >> \in CompactGrid
    <2>1. 0 \in 0..k - 1
      BY <1>4
    <2> QED BY <1>2, <2>1
  <1>11. 0 \in Compact!Blocks
    BY <1>2, <1>3
  <1> QED BY <1>7, <1>8, <1>9, <1>10, <1>11

\* The lanes that pass are few, and each has its slot.
LEMMA Ballots ==
  ASSUME Compact!SizesAssumption, NEW w \in CompactGrid
  PROVE  /\ Compact!Ballot(w) \subseteq 0..WarpSize - 1 /\ Compact!Ballot(w) \subseteq Int
         /\ IsFiniteSet(Compact!Ballot(w))
         /\ BallotSize[w] = Cardinality(Compact!Ballot(w)) /\ BallotSize[w] \in Nat
         /\ BallotSize[w] = 0 <=> Compact!Ballot(w) = {}
         /\ \A l \in Compact!Ballot(w) :
              Compact!SlotOf(w, l) = smem[w[1]].offset + reg[w] + Rank(Compact!Ballot(w), l)
  <1>1. WarpSize \in Nat
    BY DEF Compact!SizesAssumption
  <1>2. Compact!Ballot(w) \in SUBSET (0..WarpSize - 1)
    BY DEF Compact!Ballot
  <1>3. IsFiniteSet(0..WarpSize - 1)
    BY <1>1, FS_Interval
  <1>4. IsFiniteSet(Compact!Ballot(w))
    BY <1>2, <1>3, FS_Subset
  <1>5. Cardinality(Compact!Ballot(w)) \in Nat
        /\ (Cardinality(Compact!Ballot(w)) = 0 <=> Compact!Ballot(w) = {})
    BY <1>4, FS_CardinalityType, FS_EmptySet
  <1>6. BallotSize[w] = Cardinality(Compact!Ballot(w))
    BY DEF BallotSize
  <1>7. \A l \in Compact!Ballot(w) :
          Compact!SlotOf(w, l) = smem[w[1]].offset + reg[w] + Rank(Compact!Ballot(w), l)
    BY SameCounts DEF Compact!SlotOf, Rank
  <1> QED BY <1>2, <1>4, <1>5, <1>6, <1>7

\* The slots that the claimed blocks' lanes have are those below the count, one each.
LEMMA SlotFacts ==
  ASSUME Compact!SizesAssumption, BallotTypes, BlockSlots, GridSlots
  PROVE  /\ \A v \in CompactGrid : v[1] \in ClaimedBlocks /\ Compact!Ballot(v) # {} =>
              v \in Claimers(v[1])
         /\ \A v \in CompactGrid : \A l \in Compact!Ballot(v) : v[1] \in ClaimedBlocks =>
              Compact!SlotOf(v, l) \in 0..gmem.count - 1
         /\ \A v, w \in CompactGrid : \A l \in Compact!Ballot(v), m \in Compact!Ballot(w) :
              v[1] \in ClaimedBlocks /\ w[1] \in ClaimedBlocks
                /\ Compact!SlotOf(v, l) = Compact!SlotOf(w, m) => v = w /\ l = m
         /\ \A p \in 0..gmem.count - 1 : \E v \in CompactGrid : \E l \in Compact!Ballot(v) :
              v[1] \in ClaimedBlocks /\ Compact!SlotOf(v, l) = p
  <1>1. ASSUME NEW b \in ClaimedBlocks
        PROVE  /\ b \in Compact!Blocks /\ Fill(Claimers(b), reg, BallotSize, Counts[b])
               /\ Offsets[b] = smem[b].offset /\ Offsets[b] \in Nat /\ Counts[b] \in Nat
    <2>1. b \in Compact!Blocks /\ round[<< b, 0 >>] >= 3 /\ Counts[b] = smem[b].count
          /\ Offsets[b] = smem[b].offset
      BY DEF ClaimedBlocks, Counts, Offsets
    <2>2. round[<< b, 0 >>] # 0
      BY <2>1
    <2>3. Offsets[b] \in Nat /\ Counts[b] \in Nat
      BY DEF GridSlots, Fill
    <2> QED BY <2>1, <2>2, <2>3 DEF BlockSlots
  <1>2. ASSUME NEW v \in CompactGrid, v[1] \in ClaimedBlocks, Compact!Ballot(v) # {}
        PROVE  v \in Claimers(v[1])
    <2>1. << v[1], 0 >> \in CompactGrid /\ round[<< v[1], 0 >>] >= 3
      BY <1>2, Indices DEF ClaimedBlocks
    <2>2. << v[1], 0 >>[1] = v[1]
      OBVIOUS
    <2>3. round[<< v[1], 0 >>] <= round[v] + 1 /\ round[v] \in Int /\ round[<< v[1], 0 >>] \in Int
      BY <2>1, <2>2 DEF BallotTypes
    <2>4. round[v] >= 2
      BY <2>1, <2>3
    <2> QED BY <1>2, <2>4 DEF Claimers
  <1>3. ASSUME NEW v \in CompactGrid, NEW l \in Compact!Ballot(v), v[1] \in ClaimedBlocks
        PROVE  /\ v \in Claimers(v[1])
               /\ Rank(Compact!Ballot(v), l) \in 0..BallotSize[v] - 1
               /\ reg[v] \in Nat /\ reg[v] + Rank(Compact!Ballot(v), l) \in 0..Counts[v[1]] - 1
               /\ Compact!SlotOf(v, l) = Offsets[v[1]] + (reg[v] + Rank(Compact!Ballot(v), l))
    <2>1. v \in Claimers(v[1])
      BY <1>2, <1>3
    <2>2. Rank(Compact!Ballot(v), l) \in 0..BallotSize[v] - 1
      BY Ballots, RankFacts
    <2>3. reg[v] + Rank(Compact!Ballot(v), l) \in 0..Counts[v[1]] - 1
      BY <1>1, <1>3, <2>1, <2>2, FillOne
    <2>4. Compact!SlotOf(v, l) = smem[v[1]].offset + reg[v] + Rank(Compact!Ballot(v), l)
      BY Ballots
    <2>5. reg[v] \in Nat /\ BallotSize[v] \in Nat
      BY Ballots DEF BallotTypes
    <2>6. Offsets[v[1]] = smem[v[1]].offset /\ Offsets[v[1]] \in Nat
      BY <1>1, <1>3
    <2> QED BY <2>1, <2>2, <2>3, <2>4, <2>5, <2>6
  <1>4. ASSUME NEW v \in CompactGrid, NEW l \in Compact!Ballot(v), v[1] \in ClaimedBlocks
        PROVE  Compact!SlotOf(v, l) \in 0..gmem.count - 1
    <2>1. Fill(ClaimedBlocks, Offsets, Counts, gmem.count)
      BY DEF GridSlots
    <2>2. reg[v] + Rank(Compact!Ballot(v), l) \in 0..Counts[v[1]] - 1
      BY <1>3, <1>4
    <2>3. Offsets[v[1]] + (reg[v] + Rank(Compact!Ballot(v), l)) \in 0..gmem.count - 1
      BY <1>4, <2>1, <2>2, FillOne
    <2> QED BY <1>3, <1>4, <2>3
  <1>5. ASSUME NEW v \in CompactGrid, NEW w \in CompactGrid,
               NEW l \in Compact!Ballot(v), NEW m \in Compact!Ballot(w),
               v[1] \in ClaimedBlocks, w[1] \in ClaimedBlocks,
               Compact!SlotOf(v, l) = Compact!SlotOf(w, m)
        PROVE  v = w /\ l = m
    <2> DEFINE p == reg[v] + Rank(Compact!Ballot(v), l)
               q == reg[w] + Rank(Compact!Ballot(w), m)
    <2>1. /\ p \in 0..Counts[v[1]] - 1 /\ q \in 0..Counts[w[1]] - 1
          /\ Offsets[v[1]] + p = Offsets[w[1]] + q
      BY <1>3, <1>5
    <2>2. v[1] = w[1] /\ p = q
      <3> HIDE DEF p, q
      <3> QED BY <1>5, <2>1, FillOne DEF GridSlots
    <2>3. /\ v \in Claimers(v[1]) /\ w \in Claimers(v[1])
          /\ Rank(Compact!Ballot(v), l) \in 0..BallotSize[v] - 1
          /\ Rank(Compact!Ballot(w), m) \in 0..BallotSize[w] - 1
      BY <1>3, <1>5, <2>2
    <2>4. v = w /\ Rank(Compact!Ballot(v), l) = Rank(Compact!Ballot(w), m)
      BY <1>1, <1>5, <2>2, <2>3, FillOne
    <2>5. IsFiniteSet(Compact!Ballot(v)) /\ Compact!Ballot(v) \subseteq Int
      BY Ballots
    <2>6. l \in Int /\ m \in Int /\ ~ (l < m) /\ ~ (m < l)
      <3>1. /\ \A j \in Compact!Ballot(v) :
                 Rank(Compact!Ballot(v), j) \in 0..Cardinality(Compact!Ballot(v)) - 1
            /\ \A i, j \in Compact!Ballot(v) : i < j =>
                 Rank(Compact!Ballot(v), i) < Rank(Compact!Ballot(v), j)
            /\ Cardinality(Compact!Ballot(v)) \in Nat
        BY <2>5, RankFacts
      <3> QED BY <2>4, <2>5, <3>1
    <2> QED BY <2>4, <2>6
  <1>6. ASSUME NEW p \in 0..gmem.count - 1
        PROVE  \E v \in CompactGrid : \E l \in Compact!Ballot(v) :
                 v[1] \in ClaimedBlocks /\ Compact!SlotOf(v, l) = p
    <2>1. PICK b \in ClaimedBlocks : Offsets[b] <= p /\ p < Offsets[b] + Counts[b]
      BY DEF GridSlots, Fill
    <2>2. p \in Nat
      OBVIOUS
    <2>3. p - Offsets[b] \in 0..Counts[b] - 1
      BY <1>1, <2>1, <2>2
    <2>4. PICK v \in Claimers(b) :
                 reg[v] <= p - Offsets[b] /\ p - Offsets[b] < reg[v] + BallotSize[v]
      BY <1>1, <2>3 DEF Fill
    <2>5. v \in CompactGrid /\ v[1] = b /\ Compact!Ballot(v) # {}
      BY <2>4 DEF Claimers
    <2>6. reg[v] \in Nat /\ BallotSize[v] \in Nat
          /\ BallotSize[v] = Cardinality(Compact!Ballot(v))
      BY <2>5, Ballots DEF BallotTypes
    <2>7. p - Offsets[b] - reg[v] \in 0..BallotSize[v] - 1
      BY <1>1, <2>2, <2>4, <2>6
    <2>8. PICK l \in Compact!Ballot(v) : Rank(Compact!Ballot(v), l) = p - Offsets[b] - reg[v]
      <3>1. IsFiniteSet(Compact!Ballot(v)) /\ Compact!Ballot(v) \subseteq Int
        BY <2>5, Ballots
      <3> QED BY <2>6, <2>7, <3>1, RankFacts
    <2>9. Compact!SlotOf(v, l) = Offsets[b] + (reg[v] + (p - Offsets[b] - reg[v]))
      BY <1>3, <2>5, <2>8
    <2>10. Compact!SlotOf(v, l) = p
      BY <1>1, <2>2, <2>6, <2>9
    <2> QED BY <2>5, <2>10
  <1> QED BY <1>2, <1>4, <1>5, <1>6

\* Who passes does not change.
LEMMA BallotSame ==
  ASSUME host'.prime = host.prime
  PROVE  (\A v : Compact!Ballot(v)' = Compact!Ballot(v)) /\ BallotSize' = BallotSize
  <1>1. \A v : Compact!Ballot(v)' = Compact!Ballot(v)
    BY DEF Compact!Ballot, Compact!IndexOf
  <1>2. BallotSize' = BallotSize
    BY <1>1 DEF BallotSize
  <1> QED BY <1>1, <1>2

\* A warp that passes a barrier finds the others of its block at its round or the next.
LEMMA TurnFacts ==
  ASSUME Compact!SizesAssumption, BallotTypes, NEW w \in CompactGrid, NEW r \in 0..3,
         Compact!Turn(w, r)
  PROVE  /\ round[w] = r /\ round'[w] = r + 1
         /\ \A v \in CompactGrid : v # w => round'[v] = round[v]
         /\ \A v \in CompactGrid : v[1] = w[1] => round[v] \in r..r + 1
         /\ round[<< w[1], 0 >>] \in r..r + 1 /\ << w[1], 0 >> \in CompactGrid
         /\ w[1] \in Compact!Blocks
         /\ round' \in [CompactGrid -> 0..4]
         /\ \A u, v \in CompactGrid : u[1] = v[1] => round'[u] <= round'[v] + 1
         /\ host.strategy = "ballot"
  <1>1. round \in [CompactGrid -> 0..4] /\ Compact!Warps = CompactGrid
        /\ \A u, v \in CompactGrid : u[1] = v[1] => round[u] <= round[v] + 1
    BY DEF BallotTypes, Compact!Warps
  <1>2. round[w] = r /\ round' = [round EXCEPT ![w] = r + 1]
        /\ \A v \in CompactGrid : v[1] = w[1] => round[v] >= r
        /\ host.strategy = "ballot"
    BY <1>1 DEF Compact!Turn, Compact!Synced, Compact!Arrive
  <1>3. round'[w] = r + 1 /\ (\A v \in CompactGrid : v # w => round'[v] = round[v])
        /\ round' \in [CompactGrid -> 0..4]
    BY <1>1, <1>2
  <1>4. ASSUME NEW v \in CompactGrid, v[1] = w[1] PROVE round[v] \in r..r + 1
    BY <1>1, <1>2, <1>4
  <1>5. w[1] \in Compact!Blocks /\ << w[1], 0 >> \in CompactGrid /\ << w[1], 0 >>[1] = w[1]
    <2>1. w[1] \in Compact!Blocks
      BY DEF CompactGrid
    <2> QED BY <2>1, Indices
  <1>6. ASSUME NEW u \in CompactGrid, NEW v \in CompactGrid, u[1] = v[1]
        PROVE  round'[u] <= round'[v] + 1
    <2>1. /\ round[u] \in 0..4 /\ round[v] \in 0..4 /\ round[u] <= round[v] + 1
          /\ (u = w => round[v] >= r) /\ (v = w => round[u] <= r + 1)
      BY <1>1, <1>2, <1>4, <1>6
    <2> QED BY <1>2, <1>3, <2>1
  <1> QED BY <1>2, <1>3, <1>4, <1>5, <1>6

\* What the warps at their end hold stays, if their slots do.
LEMMA SlotsKept ==
  ASSUME SlotsHold, host'.prime = host.prime, gmem'.output = gmem.output,
         \A v \in CompactGrid : round'[v] = 4 =>
           round[v] = 4 /\ reg'[v] = reg[v] /\ smem'[v[1]].offset = smem[v[1]].offset
  PROVE  SlotsHold'
  <1>1. ASSUME NEW v \in CompactGrid, round'[v] = 4, NEW l \in Compact!Ballot(v)'
        PROVE  gmem'.output[Compact!SlotOf(v, l)'] = Compact!IndexOf(v, l)
    <2>1. l \in Compact!Ballot(v) /\ Compact!Ballot(v)' = Compact!Ballot(v)
      BY <1>1, BallotSame
    <2>2. Compact!SlotOf(v, l)' = Compact!SlotOf(v, l)
      BY <1>1, <2>1 DEF Compact!SlotOf
    <2>3. gmem.output[Compact!SlotOf(v, l)] = Compact!IndexOf(v, l)
      BY <1>1, <2>1 DEF SlotsHold
    <2> QED BY <2>2, <2>3
  <1>2. \A v, l : Compact!IndexOf(v, l)' = Compact!IndexOf(v, l)
    BY DEF Compact!IndexOf
  <1> QED BY <1>1, <1>2 DEF SlotsHold

\* The slots of a block stay, if who claimed them does.
BlockSlot(b) ==
  IF round[<< b, 0 >>] = 0 THEN smem[b].count = Compact!Unwritten
                           ELSE Fill(Claimers(b), reg, BallotSize, smem[b].count)

\* It stays when nothing of the block changes.
LEMMA BlockSlotKept ==
  ASSUME NEW b \in Compact!Blocks, BlockSlot(b), host'.prime = host.prime,
         smem'[b].count = smem[b].count, Claimers(b)' = Claimers(b),
         \A v \in Claimers(b) : reg'[v] = reg[v],
         round'[<< b, 0 >>] = 0 <=> round[<< b, 0 >>] = 0
  PROVE  BlockSlot(b)'
  <1>1. CASE round[<< b, 0 >>] = 0
    BY <1>1 DEF BlockSlot, Compact!Unwritten
  <1>2. CASE round[<< b, 0 >>] # 0
    <2>1. Fill(Claimers(b), reg, BallotSize, smem[b].count)
      BY <1>2 DEF BlockSlot
    <2>2. Fill(Claimers(b), reg', BallotSize, smem[b].count)
      BY <2>1, FillSame
    <2>3. BallotSize' = BallotSize
      BY BallotSame
    <2>4. Fill(Claimers(b)', reg', BallotSize', smem'[b].count)
      BY <2>2, <2>3
    <2> QED BY <1>2, <2>4 DEF BlockSlot
  <1> QED BY <1>1, <1>2

\* Who has claimed is a matter of the rounds.
LEMMA ClaimersKept ==
  ASSUME host'.prime = host.prime, \A v \in CompactGrid : round'[v] >= 2 <=> round[v] >= 2
  PROVE  \A b : Claimers(b)' = Claimers(b)
  BY BallotSame DEF Claimers

\* As do the blocks that have claimed slots, while none claims.
LEMMA ClaimedKept ==
  ASSUME \A b \in Compact!Blocks : round'[<< b, 0 >>] >= 3 <=> round[<< b, 0 >>] >= 3
  PROVE  ClaimedBlocks' = ClaimedBlocks
  <1>1. Compact!Blocks' = Compact!Blocks
    BY DEF Compact!Blocks, Compact!CeilDiv
  <1> QED BY <1>1 DEF ClaimedBlocks

\* The block's count is cleared before any warp of the block claims.
LEMMA ClearStep ==
  ASSUME Compact!SizesAssumption, BallotInv, NEW w \in CompactGrid, Compact!ClearCount(w)
  PROVE  BallotTypes' /\ BlockSlots' /\ GridSlots' /\ SlotsHold'
  <1> DEFINE b == w[1]
  <1>1. /\ Compact!Turn(w, 0) /\ host' = host /\ gmem' = gmem /\ reg' = reg
        /\ smem' = IF w[2] = 0 THEN [smem EXCEPT ![b].count = 0] ELSE smem
    BY DEF Compact!ClearCount
  <1>2. BallotTypes /\ BlockSlots /\ GridSlots /\ SlotsHold
    BY DEF BallotInv
  <1>3. /\ round[w] = 0 /\ round'[w] = 1 /\ (\A v \in CompactGrid : v # w => round'[v] = round[v])
        /\ (\A v \in CompactGrid : v[1] = b => round[v] \in 0..1)
        /\ round[<< b, 0 >>] \in 0..1 /\ << b, 0 >> \in CompactGrid /\ b \in Compact!Blocks
        /\ round' \in [CompactGrid -> 0..4]
        /\ \A u, v \in CompactGrid : u[1] = v[1] => round'[u] <= round'[v] + 1
    <2>1. 0 \in 0..3 /\ 0 + 1 = 1
      OBVIOUS
    <2> QED BY <1>1, <1>2, <2>1, TurnFacts
  <1>4. /\ smem \in [Compact!Blocks -> [count : Int, offset : Int]]
        /\ smem' \in [Compact!Blocks -> [count : Int, offset : Int]]
        /\ \A c \in Compact!Blocks : smem'[c].offset = smem[c].offset
        /\ \A c \in Compact!Blocks : c # b \/ w[2] # 0 => smem'[c].count = smem[c].count
        /\ w[2] = 0 => smem'[b].count = 0
    <2>1. smem \in [Compact!Blocks -> [count : Int, offset : Int]]
      BY <1>2 DEF BallotTypes, CompactTypes
    <2>2. CASE w[2] = 0
      <3>1. smem' = [smem EXCEPT ![b] = [smem[b] EXCEPT !.count = 0]]
        BY <1>1, <2>2
      <3>2. [smem[b] EXCEPT !.count = 0] \in [count : Int, offset : Int]
            /\ [smem[b] EXCEPT !.count = 0].offset = smem[b].offset
            /\ [smem[b] EXCEPT !.count = 0].count = 0
        BY <1>3, <2>1
      <3> QED BY <1>3, <2>1, <2>2, <3>1, <3>2
    <2>3. CASE w[2] # 0
      BY <1>1, <2>1, <2>3
    <2> QED BY <2>1, <2>2, <2>3
  <1>5. BallotTypes'
    BY <1>1, <1>2, <1>3, <1>4 DEF BallotTypes, CompactTypes, Compact!Blocks, Compact!Index,
                                  CompactGrid,
                                  Compact!CeilDiv, Compact!Unwritten
  <1>6. round \in [CompactGrid -> 0..4]
    BY <1>2 DEF BallotTypes
  <1>7. \A c : Claimers(c)' = Claimers(c)
    <2>1. \A v \in CompactGrid : round'[v] >= 2 <=> round[v] >= 2
      BY <1>3, <1>6
    <2> QED BY <1>1, <2>1, ClaimersKept
  <1>8. \A c \in Compact!Blocks : << c, 0 >> \in CompactGrid
    BY Indices
  <1>9. ClaimedBlocks' = ClaimedBlocks
    <2>1. \A c \in Compact!Blocks : round'[<< c, 0 >>] >= 3 <=> round[<< c, 0 >>] >= 3
      <3> TAKE c \in Compact!Blocks
      <3>1. << c, 0 >> = w => round'[<< c, 0 >>] = 1 /\ round[<< c, 0 >>] = 0
        BY <1>3
      <3>2. << c, 0 >> # w => round'[<< c, 0 >>] = round[<< c, 0 >>]
        BY <1>3, <1>8
      <3> QED BY <3>1, <3>2
    <2> QED BY <2>1, ClaimedKept
  <1>10. ASSUME NEW c \in Compact!Blocks PROVE BlockSlot(c)'
    <2>1. BlockSlot(c)
      BY <1>2 DEF BlockSlots, BlockSlot
    <2>2. CASE c # b \/ w[2] # 0
      <3>1. << c, 0 >> # w
        BY <2>2 DEF CompactGrid
      <3>2. round'[<< c, 0 >>] = round[<< c, 0 >>]
        BY <1>3, <1>8, <3>1
      <3> QED BY <1>1, <1>4, <1>7, <2>1, <2>2, <3>2, BlockSlotKept
    <2>3. CASE c = b /\ w[2] = 0
      <3>1. w = << b, 0 >>
        BY <2>3 DEF CompactGrid
      <3>2. Claimers(b) = {}
        <4>1. \A v \in CompactGrid : v[1] = b => ~ (round[v] >= 2)
          BY <1>3
        <4> QED BY <4>1 DEF Claimers
      <3>3. Fill(Claimers(b)', reg', BallotSize', smem'[b].count)
        BY <1>4, <1>7, <2>3, <3>2, FillNone
      <3> QED BY <1>3, <2>3, <3>1, <3>3 DEF BlockSlot
    <2> QED BY <2>2, <2>3
  <1>11. BlockSlots'
    BY <1>10 DEF BlockSlots, BlockSlot, Compact!Blocks, Compact!CeilDiv
  <1>12. GridSlots'
    <2>1. \A c \in Compact!Blocks \ ClaimedBlocks : smem'[c].offset = Compact!Unwritten
      BY <1>2, <1>4 DEF GridSlots
    <2>2. \A v \in CompactGrid : v \notin Claimers(v[1]) => reg[v] = 0
      BY <1>2 DEF GridSlots
    <2>3. b \notin ClaimedBlocks
      BY <1>3 DEF ClaimedBlocks
    <2>4. \A c \in ClaimedBlocks : Offsets'[c] = Offsets[c] /\ Counts'[c] = Counts[c]
      <3> TAKE c \in ClaimedBlocks
      <3>1. c \in Compact!Blocks /\ c # b
        BY <2>3 DEF ClaimedBlocks
      <3>2. /\ Offsets'[c] = smem'[c].offset /\ Offsets[c] = smem[c].offset
            /\ Counts'[c] = smem'[c].count /\ Counts[c] = smem[c].count
        BY <3>1 DEF Offsets, Counts, Compact!Blocks, Compact!CeilDiv
      <3> QED BY <1>4, <3>1, <3>2
    <2>5. Fill(ClaimedBlocks, Offsets', Counts', gmem.count)
      BY <1>2, <2>4, FillSame DEF GridSlots
    <2> QED BY <1>1, <1>7, <1>9, <2>1, <2>2, <2>5
            DEF GridSlots, Compact!Blocks, Compact!CeilDiv, Compact!Unwritten, CompactGrid
  <1>13. SlotsHold'
    <2>1. \A v \in CompactGrid : round'[v] = 4 =>
            round[v] = 4 /\ reg'[v] = reg[v] /\ smem'[v[1]].offset = smem[v[1]].offset
      <3> TAKE v \in CompactGrid
      <3>1. v[1] \in Compact!Blocks
        BY DEF CompactGrid
      <3> QED BY <1>1, <1>3, <1>4, <3>1
    <2> QED BY <1>1, <1>2, <2>1, SlotsKept
  <1> QED BY <1>5, <1>11, <1>12, <1>13

\* A warp claims in its block the slots from the count on.
LEMMA ClaimStep ==
  ASSUME Compact!SizesAssumption, BallotInv, NEW w \in CompactGrid, Compact!ClaimInBlock(w)
  PROVE  BallotTypes' /\ BlockSlots' /\ GridSlots' /\ SlotsHold'
  <1> DEFINE b == w[1]
             k == BallotSize[w]
  <1>1. Compact!Turn(w, 1) /\ host' = host /\ gmem' = gmem
    BY DEF Compact!ClaimInBlock
  <1>2. BallotTypes /\ BlockSlots /\ GridSlots /\ SlotsHold
    BY DEF BallotInv
  <1>3. /\ round[w] = 1 /\ round'[w] = 2 /\ (\A v \in CompactGrid : v # w => round'[v] = round[v])
        /\ (\A v \in CompactGrid : v[1] = b => round[v] \in 1..2)
        /\ round[<< b, 0 >>] \in 1..2 /\ << b, 0 >> \in CompactGrid /\ b \in Compact!Blocks
        /\ round' \in [CompactGrid -> 0..4]
        /\ \A u, v \in CompactGrid : u[1] = v[1] => round'[u] <= round'[v] + 1
    <2>1. 1 \in 0..3 /\ 1 + 1 = 2
      OBVIOUS
    <2> QED BY <1>1, <1>2, <2>1, TurnFacts
  <1>4. Fill(Claimers(b), reg, BallotSize, smem[b].count) /\ smem[b].count \in Nat
    <2>1. BlockSlot(b) /\ round[<< b, 0 >>] # 0
      BY <1>2, <1>3 DEF BlockSlots, BlockSlot
    <2> QED BY <2>1 DEF BlockSlot, Fill
  <1>5. k \in Nat /\ (k = 0 <=> Compact!Ballot(w) = {}) /\ k = Cardinality(Compact!Ballot(w))
    BY Ballots
  <1>6. /\ reg \in [CompactGrid -> Nat]
        /\ smem \in [Compact!Blocks -> [count : Int, offset : Int]]
        /\ round \in [CompactGrid -> 0..4]
    BY <1>2 DEF BallotTypes, CompactTypes
  <1>7. /\ reg' = IF k > 0 THEN [reg EXCEPT ![w] = smem[b].count] ELSE reg
        /\ smem' = [smem EXCEPT ![b] = [smem[b] EXCEPT !.count = @ + k]]
    <2>1. Compact!Claim(w) /\ Compact!Cardinality(Compact!Ballot(w)) = k
      BY <1>5, SameCounts DEF Compact!ClaimInBlock
    <2> QED BY <2>1 DEF Compact!Claim
  <1> HIDE DEF k
  <1>8. /\ reg' \in [CompactGrid -> Nat]
        /\ \A v \in CompactGrid : v # w => reg'[v] = reg[v]
        /\ k > 0 => reg'[w] = smem[b].count
        /\ k = 0 => reg' = reg
    BY <1>4, <1>5, <1>6, <1>7
  <1>9. /\ smem' \in [Compact!Blocks -> [count : Int, offset : Int]]
        /\ \A c \in Compact!Blocks : smem'[c].offset = smem[c].offset
        /\ \A c \in Compact!Blocks : c # b => smem'[c].count = smem[c].count
        /\ smem'[b].count = smem[b].count + k
    <2>1. /\ [smem[b] EXCEPT !.count = @ + k] \in [count : Int, offset : Int]
          /\ [smem[b] EXCEPT !.count = @ + k].offset = smem[b].offset
          /\ [smem[b] EXCEPT !.count = @ + k].count = smem[b].count + k
      BY <1>3, <1>5, <1>6
    <2> QED BY <1>3, <1>6, <1>7, <2>1
  <1>10. BallotTypes'
    BY <1>1, <1>2, <1>3, <1>8, <1>9 DEF BallotTypes, CompactTypes, Compact!Blocks, Compact!Index,
                                        CompactGrid,
                                  Compact!CeilDiv, Compact!Unwritten
  <1>11. \A c \in Compact!Blocks : << c, 0 >> \in CompactGrid
    BY Indices
  <1>12. ClaimedBlocks' = ClaimedBlocks
    <2>1. \A c \in Compact!Blocks : round'[<< c, 0 >>] >= 3 <=> round[<< c, 0 >>] >= 3
      <3> TAKE c \in Compact!Blocks
      <3>1. << c, 0 >> = w => round'[<< c, 0 >>] = 2 /\ round[<< c, 0 >>] = 1
        BY <1>3
      <3>2. << c, 0 >> # w => round'[<< c, 0 >>] = round[<< c, 0 >>]
        BY <1>3, <1>11
      <3> QED BY <3>1, <3>2
    <2> QED BY <2>1, ClaimedKept
  <1>13. /\ \A c : c # b => Claimers(c)' = Claimers(c)
         /\ Claimers(b)' = IF k > 0 THEN Claimers(b) \cup {w} ELSE Claimers(b)
         /\ w \notin Claimers(b)
    <2>1. \A v \in CompactGrid : round'[v] >= 2 <=> (round[v] >= 2 \/ v = w)
      BY <1>3, <1>6
    <2>2. \A v : Compact!Ballot(v)' = Compact!Ballot(v)
      BY <1>1, BallotSame
    <2>3. \A c : Claimers(c)'
            = { v \in CompactGrid :
              v[1] = c /\ (round[v] >= 2 \/ v = w) /\ Compact!Ballot(v) # {} }
      BY <2>1, <2>2 DEF Claimers, CompactGrid, Compact!Blocks, Compact!CeilDiv
    <2>4. w \notin Claimers(b)
      BY <1>3 DEF Claimers
    <2>5. k > 0 <=> Compact!Ballot(w) # {}
      BY <1>5
    <2> QED BY <2>3, <2>4, <2>5 DEF Claimers
  <1>14. ASSUME NEW c \in Compact!Blocks PROVE BlockSlot(c)'
    <2>1. BlockSlot(c)
      BY <1>2 DEF BlockSlots, BlockSlot
    <2>2. CASE c # b
      <3>1. << c, 0 >> # w
        BY <2>2 DEF CompactGrid
      <3>2. round'[<< c, 0 >>] = round[<< c, 0 >>]
        BY <1>3, <1>11, <3>1
      <3>3. \A v \in Claimers(c) : reg'[v] = reg[v]
        BY <1>8, <2>2 DEF Claimers
      <3> QED BY <1>1, <1>9, <1>13, <2>1, <2>2, <3>2, <3>3, BlockSlotKept
    <2>3. CASE c = b
      <3>1. round'[<< b, 0 >>] # 0
        <4>1. << b, 0 >> = w => round'[<< b, 0 >>] = 2
          BY <1>3
        <4>2. << b, 0 >> # w => round'[<< b, 0 >>] = round[<< b, 0 >>]
          BY <1>3
        <4> QED BY <1>3, <4>1, <4>2
      <3>2. Fill(Claimers(b)', reg', BallotSize, smem'[b].count)
        <4>1. CASE k > 0
          <5>1. \A v \in Claimers(b) : reg'[v] = reg[v]
            <6>1. \A v \in Claimers(b) : v \in CompactGrid
              BY DEF Claimers
            <6> QED BY <1>8, <1>13, <6>1
          <5>2. Fill(Claimers(b) \cup {w}, reg', BallotSize, smem[b].count + k)
            BY <1>4, <1>5, <1>8, <1>13, <4>1, <5>1, FillMore DEF k
          <5> QED BY <1>9, <1>13, <4>1, <5>2
        <4>2. CASE k = 0
          BY <1>4, <1>8, <1>9, <1>13, <4>2
        <4> QED BY <1>5, <4>1, <4>2
      <3>3. BallotSize' = BallotSize
        BY <1>1, BallotSame
      <3> QED BY <2>3, <3>1, <3>2, <3>3 DEF BlockSlot
    <2> QED BY <2>2, <2>3
  <1>15. BlockSlots'
    BY <1>14 DEF BlockSlots, BlockSlot, Compact!Blocks, Compact!CeilDiv
  <1>16. GridSlots'
    <2>1. \A c \in Compact!Blocks \ ClaimedBlocks : smem'[c].offset = Compact!Unwritten
      BY <1>2, <1>9 DEF GridSlots
    <2>2. ASSUME NEW v \in CompactGrid, v \notin Claimers(v[1])' PROVE reg'[v] = 0
      <3>1. v \notin Claimers(v[1])
        BY <1>13, <2>2
      <3>2. reg[v] = 0
        BY <1>2, <3>1 DEF GridSlots
      <3>3. CASE v # w
        BY <1>8, <3>2, <3>3
      <3>4. CASE v = w
        BY <1>5, <1>8, <1>13, <2>2, <3>2, <3>4
      <3> QED BY <3>3, <3>4
    <2>3. b \notin ClaimedBlocks
      BY <1>3 DEF ClaimedBlocks
    <2>4. \A c \in ClaimedBlocks : Offsets'[c] = Offsets[c] /\ Counts'[c] = Counts[c]
      <3> TAKE c \in ClaimedBlocks
      <3>1. c \in Compact!Blocks /\ c # b
        BY <2>3 DEF ClaimedBlocks
      <3>2. /\ Offsets'[c] = smem'[c].offset /\ Offsets[c] = smem[c].offset
            /\ Counts'[c] = smem'[c].count /\ Counts[c] = smem[c].count
        BY <3>1 DEF Offsets, Counts, Compact!Blocks, Compact!CeilDiv
      <3> QED BY <1>9, <3>1, <3>2
    <2>5. Fill(ClaimedBlocks, Offsets', Counts', gmem.count)
      BY <1>2, <2>4, FillSame DEF GridSlots
    <2> QED BY <1>1, <1>12, <2>1, <2>2, <2>5
            DEF GridSlots, Compact!Blocks, Compact!CeilDiv, Compact!Unwritten, CompactGrid
  <1>17. SlotsHold'
    <2>1. \A v \in CompactGrid : round'[v] = 4 =>
            round[v] = 4 /\ reg'[v] = reg[v] /\ smem'[v[1]].offset = smem[v[1]].offset
      <3> TAKE v \in CompactGrid
      <3>1. v[1] \in Compact!Blocks
        BY DEF CompactGrid
      <3> QED BY <1>3, <1>8, <1>9, <3>1
    <2> QED BY <1>1, <1>2, <2>1, SlotsKept
  <1> QED BY <1>10, <1>15, <1>16, <1>17

\* A block's first warp claims in the grid the slots from the count on.
LEMMA ClaimInGridStep ==
  ASSUME Compact!SizesAssumption, BallotInv, NEW w \in CompactGrid, Compact!ClaimInGrid(w)
  PROVE  BallotTypes' /\ BlockSlots' /\ GridSlots' /\ SlotsHold'
  <1> DEFINE b == w[1]
  <1>1. /\ Compact!Turn(w, 2) /\ host' = host /\ reg' = reg
        /\ IF w[2] = 0 THEN Compact!ClaimBlockSlots(b) ELSE UNCHANGED << smem, gmem >>
    BY DEF Compact!ClaimInGrid
  <1>2. BallotTypes /\ BlockSlots /\ GridSlots /\ SlotsHold
    BY DEF BallotInv
  <1>3. /\ round[w] = 2 /\ round'[w] = 3 /\ (\A v \in CompactGrid : v # w => round'[v] = round[v])
        /\ (\A v \in CompactGrid : v[1] = b => round[v] \in 2..3)
        /\ round[<< b, 0 >>] \in 2..3 /\ << b, 0 >> \in CompactGrid /\ b \in Compact!Blocks
        /\ round' \in [CompactGrid -> 0..4]
        /\ \A u, v \in CompactGrid : u[1] = v[1] => round'[u] <= round'[v] + 1
    <2>1. 2 \in 0..3 /\ 2 + 1 = 3
      OBVIOUS
    <2> QED BY <1>1, <1>2, <2>1, TurnFacts
  <1>4. /\ smem \in [Compact!Blocks -> [count : Int, offset : Int]]
        /\ gmem \in [count : Nat,
                     output : [Compact!Index -> Compact!Index \cup {Compact!Unwritten}]]
        /\ round \in [CompactGrid -> 0..4]
    BY <1>2 DEF BallotTypes, CompactTypes
  <1>5. \A c \in Compact!Blocks : round[<< c, 0 >>] # 0 =>
          Fill(Claimers(c), reg, BallotSize, smem[c].count) /\ smem[c].count \in Nat
    BY <1>2 DEF BlockSlots, Fill
  <1>6. smem[b].count \in Nat
    BY <1>3, <1>5
  <1>7. /\ \A c \in Compact!Blocks : smem'[c].count = smem[c].count
        /\ \A c \in Compact!Blocks : c # b => smem'[c].offset = smem[c].offset
        /\ gmem'.output = gmem.output
        /\ smem' \in [Compact!Blocks -> [count : Int, offset : Int]]
        /\ gmem' \in [count : Nat,
                      output : [Compact!Index -> Compact!Index \cup {Compact!Unwritten}]]
        /\ w[2] = 0 => smem'[b].offset = gmem.count /\ gmem'.count = gmem.count + smem[b].count
        /\ w[2] # 0 => smem' = smem /\ gmem' = gmem
    <2>1. CASE w[2] = 0
      <3>1. /\ smem' = [smem EXCEPT ![b] = [smem[b] EXCEPT !.offset = gmem.count]]
            /\ gmem' = [gmem EXCEPT !.count = @ + smem[b].count]
        BY <1>1, <2>1 DEF Compact!ClaimBlockSlots
      <3>2. /\ [smem[b] EXCEPT !.offset = gmem.count] \in [count : Int, offset : Int]
            /\ [smem[b] EXCEPT !.offset = gmem.count].offset = gmem.count
            /\ [smem[b] EXCEPT !.offset = gmem.count].count = smem[b].count
        BY <1>3, <1>4
      <3>3. /\ smem' \in [Compact!Blocks -> [count : Int, offset : Int]]
            /\ smem'[b] = [smem[b] EXCEPT !.offset = gmem.count]
            /\ \A c \in Compact!Blocks : c # b => smem'[c] = smem[c]
        BY <1>3, <1>4, <3>1, <3>2
      <3>4. /\ gmem'.output = gmem.output /\ gmem'.count = gmem.count + smem[b].count
            /\ gmem' \in [count : Nat,
                          output : [Compact!Index -> Compact!Index \cup {Compact!Unwritten}]]
        BY <1>4, <1>6, <3>1
      <3> QED BY <2>1, <3>2, <3>3, <3>4
    <2>2. CASE w[2] # 0
      BY <1>1, <1>4, <2>2
    <2> QED BY <2>1, <2>2
  <1>8. BallotTypes'
    <2>1. reg \in [CompactGrid -> Nat] /\ host.strategy # "naive"
          /\ host \in [strategy : {"naive", "ballot", "done"}, prime : SUBSET Compact!Index]
      BY <1>2 DEF BallotTypes, CompactTypes
    <2> QED BY <1>1, <1>3, <1>7, <2>1
            DEF BallotTypes, CompactTypes, Compact!Blocks, Compact!Index, CompactGrid,
                Compact!CeilDiv, Compact!Unwritten
  <1>9. \A c \in Compact!Blocks : << c, 0 >> \in CompactGrid
    BY Indices
  <1>10. \A c : Claimers(c)' = Claimers(c)
    <2>1. \A v \in CompactGrid : round'[v] >= 2 <=> round[v] >= 2
      BY <1>3, <1>4
    <2> QED BY <1>1, <2>1, ClaimersKept
  <1>11. \A c \in Compact!Blocks : round'[<< c, 0 >>] = 0 <=> round[<< c, 0 >>] = 0
    <2> TAKE c \in Compact!Blocks
    <2>1. << c, 0 >> = w => round'[<< c, 0 >>] = 3 /\ round[<< c, 0 >>] = 2
      BY <1>3
    <2>2. << c, 0 >> # w => round'[<< c, 0 >>] = round[<< c, 0 >>]
      BY <1>3, <1>9
    <2> QED BY <2>1, <2>2
  <1>12. BlockSlots'
    <2>1. ASSUME NEW c \in Compact!Blocks PROVE BlockSlot(c)'
      <3>1. BlockSlot(c)
        BY <1>2 DEF BlockSlots, BlockSlot
      <3> QED BY <1>1, <1>7, <1>10, <1>11, <3>1, BlockSlotKept
    <2> QED BY <2>1 DEF BlockSlots, BlockSlot, Compact!Blocks, Compact!CeilDiv
  <1>13. \A v \in CompactGrid : v \notin Claimers(v[1]) => reg[v] = 0
    BY <1>2 DEF GridSlots
  <1>14. /\ w[2] = 0 => ClaimedBlocks' = ClaimedBlocks \cup {b} /\ b \notin ClaimedBlocks
         /\ w[2] # 0 => ClaimedBlocks' = ClaimedBlocks
    <2>1. CASE w[2] = 0
      <3>1. w = << b, 0 >>
        BY <2>1 DEF CompactGrid
      <3>2. \A c \in Compact!Blocks :
              round'[<< c, 0 >>] >= 3 <=> (round[<< c, 0 >>] >= 3 \/ c = b)
        <4> TAKE c \in Compact!Blocks
        <4>1. c # b => << c, 0 >> # w
          BY <3>1
        <4> QED BY <1>3, <1>9, <3>1, <4>1
      <3>3. ClaimedBlocks' = { c \in Compact!Blocks : round[<< c, 0 >>] >= 3 \/ c = b }
        BY <3>2 DEF ClaimedBlocks, Compact!Blocks, Compact!CeilDiv
      <3>4. b \notin ClaimedBlocks
        BY <1>3, <3>1 DEF ClaimedBlocks
      <3> QED BY <1>3, <2>1, <3>3, <3>4 DEF ClaimedBlocks
    <2>2. CASE w[2] # 0
      <3>1. \A c \in Compact!Blocks : << c, 0 >> # w
        BY <2>2
      <3>2. \A c \in Compact!Blocks : round'[<< c, 0 >>] >= 3 <=> round[<< c, 0 >>] >= 3
        BY <1>3, <1>9, <3>1
      <3> QED BY <2>2, <3>2, ClaimedKept
    <2> QED BY <2>1, <2>2
  <1>15. \A c \in Compact!Blocks : /\ Offsets'[c] = smem'[c].offset /\ Offsets[c] = smem[c].offset
                                   /\ Counts'[c] = smem'[c].count /\ Counts[c] = smem[c].count
    BY DEF Offsets, Counts, Compact!Blocks, Compact!CeilDiv
  <1>16. Fill(ClaimedBlocks, Offsets, Counts, gmem.count)
    BY <1>2 DEF GridSlots
  <1>17. Fill(ClaimedBlocks', Offsets', Counts', gmem'.count)
    <2>1. CASE w[2] = 0
      <3>1. \A c \in ClaimedBlocks : Offsets'[c] = Offsets[c] /\ Counts'[c] = Counts[c]
        BY <1>7, <1>14, <1>15, <2>1 DEF ClaimedBlocks
      <3>2. Offsets'[b] = gmem.count /\ Counts'[b] = smem[b].count
        BY <1>3, <1>7, <1>15, <2>1
      <3>3. Fill(ClaimedBlocks \cup {b}, Offsets', Counts', gmem.count + smem[b].count)
        <4> DEFINE n == gmem.count
                   k == smem[b].count
                   x == b
                   S == ClaimedBlocks
                   h == Offsets'
                   g == Counts'
        <4>1. /\ k \in Nat /\ x \notin S /\ Fill(S, Offsets, Counts, n)
              /\ \A c \in S : h[c] = Offsets[c] /\ g[c] = Counts[c]
              /\ h[x] = n /\ g[x] = k
          BY <1>6, <1>14, <1>16, <2>1, <3>1, <3>2
        <4>2. Fill(S \cup {x}, h, g, n + k)
          <5> HIDE DEF n, k, x, S, h, g
          <5> QED BY ONLY <4>1, FillMore
        <4> QED BY <4>2
      <3> QED BY <1>7, <1>14, <2>1, <3>3
    <2>2. CASE w[2] # 0
      <3>1. \A c \in ClaimedBlocks : Offsets'[c] = Offsets[c] /\ Counts'[c] = Counts[c]
        BY <1>7, <1>15, <2>2 DEF ClaimedBlocks
      <3> QED BY <1>7, <1>14, <1>16, <2>2, <3>1, FillSame
    <2> QED BY <2>1, <2>2
  <1>18. \A c \in Compact!Blocks \ (ClaimedBlocks') : smem'[c].offset = Compact!Unwritten
    <2>1. \A c \in Compact!Blocks \ ClaimedBlocks : smem[c].offset = Compact!Unwritten
      BY <1>2 DEF GridSlots
    <2> QED BY <1>7, <1>14, <2>1
  <1>19. GridSlots'
    BY <1>1, <1>10, <1>13, <1>17, <1>18
       DEF GridSlots, Compact!Blocks, Compact!CeilDiv, Compact!Unwritten, CompactGrid
  <1>20. SlotsHold'
    <2>1. \A v \in CompactGrid : round'[v] = 4 =>
            round[v] = 4 /\ reg'[v] = reg[v] /\ smem'[v[1]].offset = smem[v[1]].offset
      <3> TAKE v \in CompactGrid
      <3>1. v[1] \in Compact!Blocks
        BY DEF CompactGrid
      <3>2. round'[v] = 4 => round[v] = 4 /\ v[1] # b
        BY <1>3
      <3> QED BY <1>1, <1>7, <3>1, <3>2
    <2> QED BY <1>1, <1>2, <1>7, <2>1, SlotsKept
  <1> QED BY <1>8, <1>12, <1>19, <1>20

\* As many places as elements that have one, at most.
LEMMA PlacesTaken ==
  ASSUME NEW n \in Nat, NEW T, IsFiniteSet(T), NEW f \in Injection(0..n - 1, T)
  PROVE  /\ n <= Cardinality(T)
         /\ n = Cardinality(T) <=> f \in Surjection(0..n - 1, T)
  <1>1. IsFiniteSet(0..n - 1) /\ Cardinality(0..n - 1) = n
    BY Below
  <1>2. /\ Cardinality(0..n - 1) <= Cardinality(T)
        /\ Cardinality(0..n - 1) = Cardinality(T) <=> f \in Surjection(0..n - 1, T)
    BY FS_Injection
  <1> QED BY <1>1, <1>2

\* The elements that pass are finitely many, of those there are.
LEMMA FewPass ==
  ASSUME Compact!SizesAssumption, CompactTypes
  PROVE  /\ IsFiniteSet(Compact!Index) /\ Cardinality(Compact!Index) = CompactN
         /\ host.prime \subseteq Compact!Index
         /\ IsFiniteSet(host.prime) /\ Cardinality(host.prime) <= CompactN
  <1>1. CompactN \in Nat
    BY DEF Compact!SizesAssumption
  <1>2. IsFiniteSet(Compact!Index) /\ Cardinality(Compact!Index) = CompactN
    BY <1>1, Below DEF Compact!Index
  <1>3. host.prime \in SUBSET Compact!Index
    BY DEF CompactTypes
  <1> QED BY <1>2, <1>3, FS_Subset

\* No more slots are claimed in a block than there are elements,
LEMMA BlockBound ==
  ASSUME Compact!SizesAssumption, BallotTypes, NEW S \in SUBSET CompactGrid, NEW n,
         Fill(S, reg, BallotSize, n)
  PROVE  n \in 0..CompactN
  <1> DEFINE Owns(i, p) == \E v \in S : \E l \in Compact!Ballot(v) :
                             i = Compact!IndexOf(v, l) /\ p = reg[v] + Rank(Compact!Ballot(v), l)
             f == [p \in 0..n - 1 |-> CHOOSE i \in Compact!Index : Owns(i, p)]
  <1>1. n \in Nat
    BY DEF Fill
  <1>2. ASSUME NEW p \in 0..n - 1 PROVE \E i \in Compact!Index : Owns(i, p)
    <2>1. PICK v \in S : reg[v] <= p /\ p < reg[v] + BallotSize[v]
      BY DEF Fill
    <2>2. v \in CompactGrid
      OBVIOUS
    <2>3. reg[v] \in Nat /\ BallotSize[v] \in Nat
          /\ BallotSize[v] = Cardinality(Compact!Ballot(v))
          /\ IsFiniteSet(Compact!Ballot(v)) /\ Compact!Ballot(v) \subseteq Int
      BY <2>2, Ballots DEF BallotTypes
    <2>4. p - reg[v] \in 0..Cardinality(Compact!Ballot(v)) - 1
      BY <2>1, <2>3
    <2>5. PICK l \in Compact!Ballot(v) : Rank(Compact!Ballot(v), l) = p - reg[v]
      BY <2>3, <2>4, RankFacts
    <2>6. p = reg[v] + Rank(Compact!Ballot(v), l)
      BY <2>3, <2>5
    <2>7. Compact!IndexOf(v, l) \in Compact!Index
      <3>1. host.prime \subseteq Compact!Index
        BY FewPass DEF BallotTypes
      <3> QED BY <3>1 DEF Compact!Ballot
    <2> QED BY <2>6, <2>7
  <1>3. ASSUME NEW i, NEW p, NEW q, Owns(i, p), Owns(i, q) PROVE p = q
    <2>1. PICK v \in S : \E l \in Compact!Ballot(v) :
                           i = Compact!IndexOf(v, l) /\ p = reg[v] + Rank(Compact!Ballot(v), l)
      BY <1>3
    <2>2. PICK l \in Compact!Ballot(v) :
                 i = Compact!IndexOf(v, l) /\ p = reg[v] + Rank(Compact!Ballot(v), l)
      BY <2>1
    <2>3. PICK w \in S : \E m \in Compact!Ballot(w) :
                           i = Compact!IndexOf(w, m) /\ q = reg[w] + Rank(Compact!Ballot(w), m)
      BY <1>3
    <2>4. PICK m \in Compact!Ballot(w) :
                 i = Compact!IndexOf(w, m) /\ q = reg[w] + Rank(Compact!Ballot(w), m)
      BY <2>3
    <2>5. l \in 0..WarpSize - 1 /\ m \in 0..WarpSize - 1
      BY Ballots
    <2>6. v = w /\ l = m
      <3>1. Compact!IndexOf(v, l) = Compact!IndexOf(w, m) /\ v \in CompactGrid
            /\ w \in CompactGrid
        BY <2>2, <2>4
      <3>2. \A x, y \in CompactGrid : \A a, b \in 0..WarpSize - 1 :
              Compact!IndexOf(x, a) = Compact!IndexOf(y, b) => x = y /\ a = b
        BY Indices
      <3> QED BY ONLY <2>5, <3>1, <3>2
    <2> QED BY <2>2, <2>4, <2>6
  <1>4. \A p \in 0..n - 1 : f[p] \in Compact!Index /\ Owns(f[p], p)
    <2> HIDE DEF Owns
    <2> QED BY <1>2
  <1>5. f \in Injection(0..n - 1, Compact!Index)
    <2> HIDE DEF Owns
    <2>1. f \in [0..n - 1 -> Compact!Index]
      BY <1>4
    <2>2. \A p, q \in 0..n - 1 : f[p] = f[q] => p = q
      <3> HIDE DEF f
      <3> QED BY <1>3, <1>4
    <2> QED BY <2>1, <2>2 DEF Injection, IsInjective
  <1>6. n <= CompactN
    <2> HIDE DEF f
    <2>1. IsFiniteSet(Compact!Index) /\ Cardinality(Compact!Index) = CompactN
      BY FewPass DEF BallotTypes
    <2> QED BY <1>1, <1>5, <2>1, PlacesTaken
  <1> QED BY <1>1, <1>6

\* nor in the grid; and if all blocks have claimed theirs, it is as many as pass.
LEMMA GridBound ==
  ASSUME Compact!SizesAssumption, BallotTypes, BlockSlots, GridSlots
  PROVE  /\ gmem.count \in 0..CompactN
         /\ ClaimedBlocks = Compact!Blocks => gmem.count = Cardinality(host.prime)
  <1> DEFINE n == gmem.count
             Owns(i, p) == \E v \in CompactGrid : \E l \in Compact!Ballot(v) :
                             v[1] \in ClaimedBlocks /\ i = Compact!IndexOf(v, l)
                             /\ p = Compact!SlotOf(v, l)
             f == [p \in 0..n - 1 |-> CHOOSE i \in host.prime : Owns(i, p)]
  <1>1. n \in Nat
    BY DEF GridSlots, Fill
  <1>2. ASSUME NEW p \in 0..n - 1 PROVE \E i \in host.prime : Owns(i, p)
    <2>1. PICK v \in CompactGrid : \E l \in Compact!Ballot(v) :
                                     v[1] \in ClaimedBlocks /\ Compact!SlotOf(v, l) = p
      BY SlotFacts
    <2>2. PICK l \in Compact!Ballot(v) : v[1] \in ClaimedBlocks /\ Compact!SlotOf(v, l) = p
      BY <2>1
    <2>3. Compact!IndexOf(v, l) \in host.prime
      BY DEF Compact!Ballot
    <2> QED BY <2>2, <2>3
  <1>3. ASSUME NEW i, NEW p, NEW q, Owns(i, p), Owns(i, q) PROVE p = q
    <2>1. PICK v \in CompactGrid : \E l \in Compact!Ballot(v) :
                                     i = Compact!IndexOf(v, l) /\ p = Compact!SlotOf(v, l)
      BY <1>3
    <2>2. PICK l \in Compact!Ballot(v) : i = Compact!IndexOf(v, l) /\ p = Compact!SlotOf(v, l)
      BY <2>1
    <2>3. PICK w \in CompactGrid : \E m \in Compact!Ballot(w) :
                                     i = Compact!IndexOf(w, m) /\ q = Compact!SlotOf(w, m)
      BY <1>3
    <2>4. PICK m \in Compact!Ballot(w) : i = Compact!IndexOf(w, m) /\ q = Compact!SlotOf(w, m)
      BY <2>3
    <2>5. l \in 0..WarpSize - 1 /\ m \in 0..WarpSize - 1
      BY Ballots
    <2>6. v = w /\ l = m
      <3>1. Compact!IndexOf(v, l) = Compact!IndexOf(w, m) /\ v \in CompactGrid
            /\ w \in CompactGrid
        BY <2>2, <2>4
      <3>2. \A x, y \in CompactGrid : \A a, b \in 0..WarpSize - 1 :
              Compact!IndexOf(x, a) = Compact!IndexOf(y, b) => x = y /\ a = b
        BY Indices
      <3> QED BY ONLY <2>5, <3>1, <3>2
    <2> QED BY <2>2, <2>4, <2>6
  <1>4. \A p \in 0..n - 1 : f[p] \in host.prime /\ Owns(f[p], p)
    <2> HIDE DEF Owns
    <2> QED BY <1>2
  <1>5. f \in Injection(0..n - 1, host.prime)
    <2> HIDE DEF Owns
    <2>1. f \in [0..n - 1 -> host.prime]
      BY <1>4
    <2>2. \A p, q \in 0..n - 1 : f[p] = f[q] => p = q
      <3> HIDE DEF f
      <3> QED BY <1>3, <1>4
    <2> QED BY <2>1, <2>2 DEF Injection, IsInjective
  <1>6. IsFiniteSet(host.prime) /\ Cardinality(host.prime) <= CompactN
        /\ host.prime \subseteq Compact!Index
    BY FewPass DEF BallotTypes
  <1>7. /\ n <= Cardinality(host.prime)
        /\ n = Cardinality(host.prime) <=> f \in Surjection(0..n - 1, host.prime)
    <2> HIDE DEF f
    <2> QED BY <1>1, <1>5, <1>6, PlacesTaken
  <1>8. n \in 0..CompactN
    <2>1. Cardinality(host.prime) \in Nat /\ CompactN \in Nat
      BY <1>6, FS_CardinalityType DEF Compact!SizesAssumption
    <2> QED BY <1>1, <1>6, <1>7, <2>1
  <1>9. ASSUME ClaimedBlocks = Compact!Blocks PROVE n = Cardinality(host.prime)
    <2>1. ASSUME NEW i \in host.prime PROVE \E p \in 0..n - 1 : f[p] = i
      <3>1. i \in Compact!Index
        BY <1>6
      <3>2. PICK v \in CompactGrid : \E l \in 0..WarpSize - 1 : Compact!IndexOf(v, l) = i
        BY <3>1, Indices
      <3>3. PICK l \in 0..WarpSize - 1 : Compact!IndexOf(v, l) = i
        BY <3>2
      <3>4. l \in Compact!Ballot(v) /\ v[1] \in ClaimedBlocks
        BY <1>9, <3>3 DEF Compact!Ballot, CompactGrid
      <3>5. Compact!SlotOf(v, l) \in 0..n - 1
        BY <3>4, SlotFacts
      <3> DEFINE p == Compact!SlotOf(v, l)
      <3>6. Owns(f[p], p)
        BY <1>4, <3>5
      <3>7. PICK w \in CompactGrid : \E m \in Compact!Ballot(w) :
              w[1] \in ClaimedBlocks /\ f[p] = Compact!IndexOf(w, m) /\ p = Compact!SlotOf(w, m)
        BY <3>6
      <3>8. PICK m \in Compact!Ballot(w) :
              w[1] \in ClaimedBlocks /\ f[p] = Compact!IndexOf(w, m) /\ p = Compact!SlotOf(w, m)
        BY <3>7
      <3>9. v = w /\ l = m
        <4>1. Compact!SlotOf(v, l) = Compact!SlotOf(w, m) /\ m \in Compact!Ballot(w)
              /\ v \in CompactGrid /\ w \in CompactGrid
          BY <3>8
        <4>2. w[1] \in ClaimedBlocks
          BY <3>8
        <4>3. \A x, y \in CompactGrid : \A a \in Compact!Ballot(x), b \in Compact!Ballot(y) :
                x[1] \in ClaimedBlocks /\ y[1] \in ClaimedBlocks
                  /\ Compact!SlotOf(x, a) = Compact!SlotOf(y, b) => x = y /\ a = b
          BY SlotFacts, Zenon
        <4>4. \A a \in Compact!Ballot(v), b \in Compact!Ballot(w) :
                Compact!SlotOf(v, a) = Compact!SlotOf(w, b) => v = w /\ a = b
          BY ONLY <3>4, <4>1, <4>2, <4>3
        <4> QED BY ONLY <3>4, <4>1, <4>4
      <3> QED BY <3>3, <3>5, <3>8, <3>9
    <2>2. f \in Surjection(0..n - 1, host.prime)
      BY <1>4, <2>1 DEF Surjection
    <2> QED BY <1>7, <2>2
  <1> QED BY <1>8, <1>9

\* A warp stores its elements in its slots, which are no other warp's.
LEMMA ScatterStep ==
  ASSUME Compact!SizesAssumption, BallotInv, NEW w \in CompactGrid, Compact!Scatter(w)
  PROVE  BallotTypes' /\ BlockSlots' /\ GridSlots' /\ SlotsHold'
  <1> DEFINE b == w[1]
             stored == [p \in Compact!Index |->
                          IF \E lane \in Compact!Ballot(w) : Compact!SlotOf(w, lane) = p
                            THEN Compact!IndexOf(w, CHOOSE lane \in Compact!Ballot(w) :
                              Compact!SlotOf(w, lane) = p)
                            ELSE gmem.output[p]]
  <1>1. /\ Compact!Turn(w, 3) /\ host' = host /\ smem' = smem /\ reg' = reg
        /\ gmem' = [gmem EXCEPT !.output = stored]
    BY DEF Compact!Scatter
  <1>2. BallotTypes /\ BlockSlots /\ GridSlots /\ SlotsHold
    BY DEF BallotInv
  <1>3. /\ round[w] = 3 /\ round'[w] = 4 /\ (\A v \in CompactGrid : v # w => round'[v] = round[v])
        /\ (\A v \in CompactGrid : v[1] = b => round[v] \in 3..4)
        /\ round[<< b, 0 >>] \in 3..4 /\ << b, 0 >> \in CompactGrid /\ b \in Compact!Blocks
        /\ round' \in [CompactGrid -> 0..4]
        /\ \A u, v \in CompactGrid : u[1] = v[1] => round'[u] <= round'[v] + 1
    <2>1. 3 \in 0..3 /\ 3 + 1 = 4
      OBVIOUS
    <2> QED BY <1>1, <1>2, <2>1, TurnFacts
  <1>4. /\ gmem \in [count : Nat,
                     output : [Compact!Index -> Compact!Index \cup {Compact!Unwritten}]]
        /\ round \in [CompactGrid -> 0..4]
        /\ \A u, v \in CompactGrid : u[1] = v[1] => round[u] <= round[v] + 1
    BY <1>2 DEF BallotTypes, CompactTypes
  <1>5. gmem'.count = gmem.count /\ gmem'.output = stored
        /\ gmem' = [count |-> gmem.count, output |-> stored]
    BY <1>1, <1>4
  <1>6. \A c \in Compact!Blocks : << c, 0 >> \in CompactGrid
    BY Indices
  <1>7. \A v \in CompactGrid : round[v] >= 3 => v[1] \in ClaimedBlocks \/ round[v] = 3
    <2> SUFFICES ASSUME NEW v \in CompactGrid, round[v] >= 3, round[v] # 3
                 PROVE v[1] \in ClaimedBlocks
      OBVIOUS
    <2>1. v[1] \in Compact!Blocks /\ << v[1], 0 >> \in CompactGrid /\ << v[1], 0 >>[1] = v[1]
      BY <1>6 DEF CompactGrid
    <2>2. round[v] = 4 /\ round[v] <= round[<< v[1], 0 >>] + 1 /\ round[<< v[1], 0 >>] \in 0..4
      BY <1>4, <2>1
    <2>3. round[<< v[1], 0 >>] >= 3
      BY <2>2
    <2> QED BY <2>1, <2>3 DEF ClaimedBlocks
  <1>8. b \in ClaimedBlocks
    <2>1. round[<< b, 0 >>] >= 3
      BY <1>3
    <2> QED BY <1>3, <2>1 DEF ClaimedBlocks
  <1>9. gmem.count \in 0..CompactN /\ CompactN \in Nat /\ Compact!Index = 0..CompactN - 1
    BY <1>2, GridBound DEF Compact!SizesAssumption, Compact!Index
  <1>10. \A v \in CompactGrid : \A l \in Compact!Ballot(v) : v[1] \in ClaimedBlocks =>
           Compact!SlotOf(v, l) \in Compact!Index
    <2>1. \A p \in 0..gmem.count - 1 : p \in Compact!Index
      BY <1>9
    <2>2. \A v \in CompactGrid : \A l \in Compact!Ballot(v) : v[1] \in ClaimedBlocks =>
            Compact!SlotOf(v, l) \in 0..gmem.count - 1
      BY <1>2, SlotFacts
    <2> QED BY <2>1, <2>2
  <1>11. \A v, u \in CompactGrid : \A l \in Compact!Ballot(v), m \in Compact!Ballot(u) :
           v[1] \in ClaimedBlocks /\ u[1] \in ClaimedBlocks
             /\ Compact!SlotOf(v, l) = Compact!SlotOf(u, m) => v = u /\ l = m
    BY <1>2, SlotFacts, Zenon
  <1>12. ASSUME NEW v \in CompactGrid, NEW l \in Compact!Ballot(v), v[1] \in ClaimedBlocks,
                v = w \/ gmem.output[Compact!SlotOf(v, l)] = Compact!IndexOf(v, l)
         PROVE  stored[Compact!SlotOf(v, l)] = Compact!IndexOf(v, l)
    <2> DEFINE p == Compact!SlotOf(v, l)
    <2>1. p \in Compact!Index
      BY <1>10, <1>12
    <2>2. CASE v = w
      <3> DEFINE m == CHOOSE lane \in Compact!Ballot(w) : Compact!SlotOf(w, lane) = p
      <3>1. \E lane \in Compact!Ballot(w) : Compact!SlotOf(w, lane) = p
        BY <2>2
      <3>2. m \in Compact!Ballot(w) /\ Compact!SlotOf(w, m) = p
        BY <3>1
      <3>3. m = l
        <4> HIDE DEF m
        <4> QED BY <1>8, <1>11, <2>2, <3>2
      <3>4. stored[p] = Compact!IndexOf(w, m)
        BY <2>1, <3>1
      <3> QED BY <2>2, <3>3, <3>4
    <2>3. CASE v # w
      <3>1. ~ \E lane \in Compact!Ballot(w) : Compact!SlotOf(w, lane) = p
        BY <1>8, <1>11, <1>12, <2>3
      <3> QED BY <1>12, <2>1, <2>3, <3>1
    <2> QED BY <2>2, <2>3
  <1>13. stored \in [Compact!Index -> Compact!Index \cup {Compact!Unwritten}]
    <2> SUFFICES ASSUME NEW p \in Compact!Index
                 PROVE  stored[p] \in Compact!Index \cup {Compact!Unwritten}
      OBVIOUS
    <2>1. CASE \E lane \in Compact!Ballot(w) : Compact!SlotOf(w, lane) = p
      <3>1. PICK m \in Compact!Ballot(w) : stored[p] = Compact!IndexOf(w, m)
        BY <2>1
      <3>2. Compact!IndexOf(w, m) \in host.prime
        BY DEF Compact!Ballot
      <3>3. host.prime \subseteq Compact!Index
        BY <1>2, FewPass DEF BallotTypes
      <3> QED BY <3>1, <3>2, <3>3
    <2>2. CASE ~ \E lane \in Compact!Ballot(w) : Compact!SlotOf(w, lane) = p
      <3>1. stored[p] = gmem.output[p]
        BY <2>2
      <3> QED BY <1>4, <3>1
    <2> QED BY <2>1, <2>2
  <1> HIDE DEF stored
  <1>14. BallotTypes'
    <2>1. /\ reg \in [CompactGrid -> Nat] /\ host.strategy # "naive"
          /\ host \in [strategy : {"naive", "ballot", "done"}, prime : SUBSET Compact!Index]
          /\ smem \in [Compact!Blocks -> [count : Int, offset : Int]]
      BY <1>2 DEF BallotTypes, CompactTypes
    <2>2. gmem' \in [count : Nat,
                     output : [Compact!Index -> Compact!Index \cup {Compact!Unwritten}]]
      BY <1>4, <1>5, <1>13
    <2> QED BY <1>1, <1>3, <2>1, <2>2
            DEF BallotTypes, CompactTypes, Compact!Blocks, Compact!Index, CompactGrid,
                Compact!CeilDiv, Compact!Unwritten
  <1>15. \A c : Claimers(c)' = Claimers(c)
    <2>1. \A v \in CompactGrid : round'[v] >= 2 <=> round[v] >= 2
      BY <1>3, <1>4
    <2> QED BY <1>1, <2>1, ClaimersKept
  <1>16. \A c \in Compact!Blocks : /\ round'[<< c, 0 >>] = 0 <=> round[<< c, 0 >>] = 0
                                   /\ round'[<< c, 0 >>] >= 3 <=> round[<< c, 0 >>] >= 3
    <2> TAKE c \in Compact!Blocks
    <2>1. << c, 0 >> = w => round'[<< c, 0 >>] = 4 /\ round[<< c, 0 >>] = 3
      BY <1>3
    <2>2. << c, 0 >> # w => round'[<< c, 0 >>] = round[<< c, 0 >>]
      BY <1>3, <1>6
    <2> QED BY <2>1, <2>2
  <1>17. BlockSlots'
    <2>1. ASSUME NEW c \in Compact!Blocks PROVE BlockSlot(c)'
      <3>1. BlockSlot(c)
        BY <1>2 DEF BlockSlots, BlockSlot
      <3> QED BY <1>1, <1>15, <1>16, <3>1, BlockSlotKept
    <2> QED BY <2>1 DEF BlockSlots, BlockSlot, Compact!Blocks, Compact!CeilDiv
  <1>18. ClaimedBlocks' = ClaimedBlocks
    BY <1>16, ClaimedKept
  <1>19. GridSlots'
    <2>1. Offsets' = Offsets /\ Counts' = Counts
      BY <1>1 DEF Offsets, Counts, Compact!Blocks, Compact!CeilDiv
    <2> QED BY <1>1, <1>2, <1>5, <1>15, <1>18, <2>1
            DEF GridSlots, Compact!Blocks, Compact!CeilDiv, Compact!Unwritten, CompactGrid
  <1>20. SlotsHold'
    <2>1. ASSUME NEW v \in CompactGrid, round'[v] = 4, NEW l \in Compact!Ballot(v)'
          PROVE  gmem'.output[Compact!SlotOf(v, l)'] = Compact!IndexOf(v, l)
      <3>1. l \in Compact!Ballot(v) /\ Compact!Ballot(v)' = Compact!Ballot(v)
        BY <1>1, <2>1, BallotSame
      <3>2. Compact!SlotOf(v, l)' = Compact!SlotOf(v, l)
        BY <1>1, <3>1 DEF Compact!SlotOf
      <3>3. v = w \/ (round[v] = 4 /\ gmem.output[Compact!SlotOf(v, l)] = Compact!IndexOf(v, l))
        BY <1>2, <1>3, <2>1, <3>1 DEF SlotsHold
      <3>4. v[1] \in ClaimedBlocks
        BY <1>7, <1>8, <3>3
      <3> QED BY <1>5, <1>12, <3>1, <3>2, <3>3, <3>4
    <2>2. \A v, l : Compact!IndexOf(v, l)' = Compact!IndexOf(v, l)
      BY DEF Compact!IndexOf
    <2> QED BY <2>1, <2>2 DEF SlotsHold, CompactGrid, Compact!Blocks, Compact!CeilDiv
  <1> QED BY <1>14, <1>17, <1>19, <1>20

\* main reads what the kernel has left.
LEMMA BallotReadBack ==
  ASSUME Compact!SizesAssumption, BallotInv, Compact!ReadBack
  PROVE  BallotInv'
  <1>1. BallotTypes /\ BlockSlots /\ GridSlots /\ SlotsHold
    BY DEF BallotInv
  <1>2. /\ gmem' = gmem /\ smem' = smem /\ reg' = reg /\ round' = round
        /\ host' = [host EXCEPT !.strategy = "done"]
        /\ host \in [strategy : {"naive", "ballot", "done"}, prime : SUBSET Compact!Index]
        /\ host.strategy # "naive" /\ round \in [CompactGrid -> 0..4]
    BY <1>1 DEF Compact!ReadBack, BallotTypes, CompactTypes
  <1>3. \A w \in CompactGrid : round[w] = 4
    BY <1>2 DEF Compact!ReadBack, Compact!KernelEnded, Compact!Warps
  <1>4. host'.prime = host.prime /\ host'.strategy = "done"
        /\ host' \in [strategy : {"naive", "ballot", "done"}, prime : SUBSET Compact!Index]
    BY <1>2
  <1>5. BallotTypes'
    <2>1. BallotTypes
      BY <1>1
    <2> QED BY <1>2, <1>4, <2>1
            DEF BallotTypes, CompactTypes, Compact!Blocks, Compact!Index, CompactGrid,
                Compact!CeilDiv, Compact!Unwritten
  <1>6. (\A c : Claimers(c)' = Claimers(c)) /\ ClaimedBlocks' = ClaimedBlocks
    BY <1>2, <1>4, ClaimersKept, ClaimedKept
  <1>7. BlockSlots'
    <2>1. ASSUME NEW c \in Compact!Blocks PROVE BlockSlot(c)'
      <3>1. BlockSlot(c)
        BY <1>1 DEF BlockSlots, BlockSlot
      <3> QED BY <1>2, <1>4, <1>6, <3>1, BlockSlotKept
    <2> QED BY <2>1 DEF BlockSlots, BlockSlot, Compact!Blocks, Compact!CeilDiv
  <1>8. GridSlots'
    <2>1. Offsets' = Offsets /\ Counts' = Counts
      BY <1>2 DEF Offsets, Counts, Compact!Blocks, Compact!CeilDiv
    <2> QED BY <1>1, <1>2, <1>6, <2>1
            DEF GridSlots, Compact!Blocks, Compact!CeilDiv, Compact!Unwritten, CompactGrid
  <1>9. SlotsHold'
    BY <1>1, <1>2, <1>4, SlotsKept
  <1> QED BY <1>2, <1>3, <1>5, <1>7, <1>8, <1>9
          DEF BallotInv, CompactGrid, Compact!Blocks, Compact!CeilDiv

\* A thread of compact_naive claims the slot that the count is at.
LEMMA ClaimSlotStep ==
  ASSUME Compact!SizesAssumption, NaiveInv, NEW i \in Compact!Index, Compact!ClaimSlot(i)
  PROVE  NaiveInv'
  <1> DEFINE C == DOMAIN reg
             n == gmem.count
  <1>1. /\ CompactTypes /\ host.strategy = "naive" /\ round = Compact!NoKernel
        /\ \A b \in Compact!Blocks :
             smem[b] = [count |-> Compact!Unwritten, offset |-> Compact!Unwritten]
        /\ C \subseteq host.prime /\ n = Cardinality(C)
        /\ \A j \in C : reg[j] \in 0..n - 1
        /\ \A j, k \in C : reg[j] = reg[k] => j = k
        /\ \A p \in Compact!Index : gmem.output[p] # Compact!Unwritten =>
             gmem.output[p] \in C /\ reg[gmem.output[p]] = p
    BY DEF NaiveInv, Compact!ClaimSlot
  <1>2. /\ i \in host.prime \ C
        /\ reg' = [j \in C \cup {i} |-> IF j = i THEN n ELSE reg[j]]
        /\ gmem' = [gmem EXCEPT !.count = @ + 1]
        /\ host' = host /\ smem' = smem /\ round' = round
    BY DEF Compact!ClaimSlot, Compact!Claimed
  <1>3. IsFiniteSet(C) /\ n \in Nat
    <2>1. IsFiniteSet(host.prime) /\ C \in SUBSET host.prime
      BY <1>1, FewPass
    <2>2. IsFiniteSet(C)
      BY <2>1, FS_Subset
    <2> QED BY <1>1, <2>2, FS_CardinalityType
  <1>4. /\ gmem'.count = n + 1 /\ gmem'.output = gmem.output
        /\ gmem' \in [count : Nat,
                      output : [Compact!Index -> Compact!Index \cup {Compact!Unwritten}]]
    BY <1>1, <1>2, <1>3 DEF CompactTypes
  <1>5. n + 1 = Cardinality(C \cup {i})
    BY <1>1, <1>2, <1>3, FS_AddElement
  <1>6. DOMAIN reg' = C \cup {i} /\ reg'[i] = n /\ \A j \in C : reg'[j] = reg[j]
    BY <1>2
  <1>7. CompactTypes'
    BY <1>1, <1>2, <1>4
       DEF CompactTypes, Compact!Blocks, Compact!Index, Compact!CeilDiv, Compact!Unwritten
  <1> HIDE DEF C, n
  <1>8. \A j \in C \cup {i} : reg'[j] \in 0..n
    BY <1>1, <1>3, <1>6
  <1>9. \A j, k \in C \cup {i} : reg'[j] = reg'[k] => j = k
    <2>1. \A j \in C : reg'[j] # n
      BY <1>1, <1>3, <1>6
    <2> QED BY <1>1, <1>6, <2>1
  <1>10. \A p \in Compact!Index : gmem'.output[p] # Compact!Unwritten =>
           gmem'.output[p] \in C \cup {i} /\ reg'[gmem'.output[p]] = p
    BY <1>1, <1>4, <1>6
  <1>11. gmem'.count - 1 = n
    BY <1>3, <1>4
  <1>12. C \cup {i} \subseteq host.prime
    BY <1>1, <1>2
  <1> QED BY <1>1, <1>2, <1>4, <1>5, <1>6, <1>7, <1>8, <1>9, <1>10, <1>11, <1>12
          DEF NaiveInv, Compact!Blocks, Compact!Index, Compact!CeilDiv, Compact!Unwritten,
              Compact!NoKernel

\* It stores its element there.
LEMMA StoreElementStep ==
  ASSUME Compact!SizesAssumption, NaiveInv, NEW i \in Compact!Index, Compact!StoreElement(i)
  PROVE  NaiveInv'
  <1>1. /\ CompactTypes /\ host.strategy = "naive" /\ round = Compact!NoKernel
        /\ \A b \in Compact!Blocks :
             smem[b] = [count |-> Compact!Unwritten, offset |-> Compact!Unwritten]
        /\ DOMAIN reg \subseteq host.prime /\ gmem.count = Cardinality(DOMAIN reg)
        /\ \A j \in DOMAIN reg : reg[j] \in 0..gmem.count - 1
        /\ \A j, k \in DOMAIN reg : reg[j] = reg[k] => j = k
        /\ \A p \in Compact!Index : gmem.output[p] # Compact!Unwritten =>
             gmem.output[p] \in DOMAIN reg /\ reg[gmem.output[p]] = p
    BY DEF NaiveInv, Compact!StoreElement
  <1>2. /\ i \in DOMAIN reg
        /\ gmem' = [gmem EXCEPT !.output = [gmem.output EXCEPT ![reg[i]] = i]]
        /\ host' = host /\ smem' = smem /\ round' = round /\ reg' = reg
    BY DEF Compact!StoreElement, Compact!Claimed
  <1>3. /\ gmem'.count = gmem.count /\ gmem'.output = [gmem.output EXCEPT ![reg[i]] = i]
        /\ gmem' \in [count : Nat,
                      output : [Compact!Index -> Compact!Index \cup {Compact!Unwritten}]]
    BY <1>1, <1>2 DEF CompactTypes
  <1>4. CompactTypes'
    BY <1>1, <1>2, <1>3
       DEF CompactTypes, Compact!Blocks, Compact!Index, Compact!CeilDiv, Compact!Unwritten
  <1>5. \A p \in Compact!Index : gmem'.output[p] # Compact!Unwritten =>
          gmem'.output[p] \in DOMAIN reg /\ reg[gmem'.output[p]] = p
    <2>1. gmem.output \in [Compact!Index -> Compact!Index \cup {Compact!Unwritten}]
      BY <1>1 DEF CompactTypes
    <2> QED BY <1>1, <1>2, <1>3, <2>1
  <1> QED BY <1>1, <1>2, <1>3, <1>4, <1>5
          DEF NaiveInv, Compact!Blocks, Compact!Index, Compact!CeilDiv, Compact!Unwritten,
              Compact!NoKernel

\* main reads the result when all threads that pass have claimed and stored.
LEMMA NaiveReadBack ==
  ASSUME Compact!SizesAssumption, NaiveInv, Compact!ReadBack
  PROVE  NaiveInv'
  <1>1. /\ CompactTypes /\ host.strategy # "ballot" /\ round = Compact!NoKernel
        /\ \A b \in Compact!Blocks :
             smem[b] = [count |-> Compact!Unwritten, offset |-> Compact!Unwritten]
        /\ DOMAIN reg \subseteq host.prime /\ gmem.count = Cardinality(DOMAIN reg)
        /\ \A j \in DOMAIN reg : reg[j] \in 0..gmem.count - 1
        /\ \A j, k \in DOMAIN reg : reg[j] = reg[k] => j = k
        /\ \A p \in Compact!Index : gmem.output[p] # Compact!Unwritten =>
             gmem.output[p] \in DOMAIN reg /\ reg[gmem.output[p]] = p
    BY DEF NaiveInv
  <1>2. /\ host.prime \subseteq DOMAIN reg /\ DOMAIN reg \subseteq Compact!Range(gmem.output)
        /\ host' = [host EXCEPT !.strategy = "done"]
        /\ gmem' = gmem /\ smem' = smem /\ round' = round /\ reg' = reg
    BY <1>1 DEF Compact!ReadBack, Compact!Claimed
  <1>3. /\ host' \in [strategy : {"naive", "ballot", "done"}, prime : SUBSET Compact!Index]
        /\ host'.prime = host.prime /\ host'.strategy = "done"
    BY <1>1, <1>2 DEF CompactTypes
  <1>4. CompactTypes'
    BY <1>1, <1>2, <1>3
       DEF CompactTypes, Compact!Blocks, Compact!Index, Compact!CeilDiv, Compact!Unwritten
  <1>5. \A j \in DOMAIN reg : \E p \in Compact!Index : gmem.output[p] = j
    <2>1. gmem.output \in [Compact!Index -> Compact!Index \cup {Compact!Unwritten}]
      BY <1>1 DEF CompactTypes
    <2> QED BY <1>2, <2>1 DEF Compact!Range
  <1> QED BY <1>1, <1>2, <1>3, <1>4, <1>5
          DEF NaiveInv, Compact!Blocks, Compact!Index, Compact!CeilDiv, Compact!Unwritten,
              Compact!NoKernel

\* The invariant holds when a strategy starts.
LEMMA CompactInit == Compact!SizesAssumption /\ Compact!Init => CompactInv
  <1> SUFFICES ASSUME Compact!SizesAssumption, Compact!Init PROVE CompactInv
    OBVIOUS
  <1>1. CompactTypes
    <2>1. gmem \in [count : Nat,
                    output : [Compact!Index -> Compact!Index \cup {Compact!Unwritten}]]
      BY DEF Compact!Init
    <2>2. smem \in [Compact!Blocks -> [count : Int, offset : Int]]
      BY DEF Compact!Init, Compact!Unwritten
    <2> QED BY <2>1, <2>2 DEF Compact!Init, CompactTypes
  <1>2. /\ gmem.count = 0 /\ \A p \in Compact!Index : gmem.output[p] = Compact!Unwritten
        /\ \A b \in Compact!Blocks :
             smem[b] = [count |-> Compact!Unwritten, offset |-> Compact!Unwritten]
    BY DEF Compact!Init
  <1>3. CASE host.strategy = "naive"
    <2>1. round = Compact!NoKernel /\ reg = [w \in {} |-> 0]
      <3>1. round = Compact!NoKernel /\ reg = [w \in Compact!Warps |-> 0]
        BY <1>3 DEF Compact!Init
      <3>2. Compact!Warps = {}
        BY <3>1 DEF Compact!Warps, Compact!NoKernel
      <3> QED BY <3>1, <3>2
    <2>2. DOMAIN reg = {} /\ Cardinality({}) = 0
      BY <2>1, FS_EmptySet
    <2> QED BY <1>1, <1>2, <1>3, <2>1, <2>2 DEF CompactInv, NaiveInv
  <1>4. CASE host.strategy = "ballot"
    <2>1. round = [w \in CompactGrid |-> 0] /\ reg = [w \in CompactGrid |-> 0]
      BY <1>4 DEF Compact!Init, Compact!Launched, Compact!Grid, Compact!Warps, CompactGrid,
                  Compact!Blocks
    <2>2. BallotTypes
      BY <1>1, <1>4, <2>1 DEF BallotTypes
    <2>3. \A b \in Compact!Blocks : << b, 0 >> \in CompactGrid
      BY Indices
    <2>4. BlockSlots
      <3>1. \A b \in Compact!Blocks : round[<< b, 0 >>] = 0
        BY <2>1, <2>3
      <3>2. \A b \in Compact!Blocks : smem[b].count = Compact!Unwritten
        BY <1>2
      <3> QED BY <3>1, <3>2 DEF BlockSlots
    <2>5. ClaimedBlocks = {}
      BY <2>1, <2>3 DEF ClaimedBlocks
    <2>6. GridSlots
      BY <1>2, <2>1, <2>5, FillNone DEF GridSlots
    <2>7. SlotsHold
      BY <2>1 DEF SlotsHold
    <2> QED BY <1>4, <2>2, <2>4, <2>6, <2>7 DEF CompactInv, BallotInv
  <1> QED BY <1>3, <1>4 DEF Compact!Init

\* Every step of the strategies keeps the invariant.
LEMMA CompactStep ==
  Compact!SizesAssumption /\ CompactInv /\ [Compact!Next]_Compact!machine => CompactInv'
  <1> SUFFICES ASSUME Compact!SizesAssumption, CompactInv, [Compact!Next]_Compact!machine
               PROVE CompactInv'
    OBVIOUS
  <1>1. CASE NaiveInv
    <2>1. ASSUME NEW w \in Compact!Warps PROVE FALSE
      BY <1>1 DEF NaiveInv, Compact!Warps, Compact!NoKernel
    <2>2. CASE UNCHANGED Compact!machine
      <3>1. NaiveInv'
        BY <1>1, <2>2 DEF NaiveInv, CompactTypes, Compact!machine, Compact!Blocks, Compact!Index,
                          Compact!CeilDiv, Compact!Unwritten, Compact!NoKernel
      <3> QED BY <3>1 DEF CompactInv
    <2> QED BY <1>1, <2>1, <2>2, ClaimSlotStep, StoreElementStep, NaiveReadBack
            DEF Compact!Next, CompactInv
  <1>2. CASE BallotInv
    <2>1. CASE UNCHANGED Compact!machine
      <3>1. /\ host' = host /\ gmem' = gmem /\ smem' = smem /\ reg' = reg /\ round' = round
            /\ BallotTypes /\ BlockSlots /\ GridSlots /\ SlotsHold
        BY <1>2, <2>1 DEF Compact!machine, BallotInv
      <3>2. BallotTypes'
        BY <3>1 DEF BallotTypes, CompactTypes, Compact!Blocks, Compact!Index, CompactGrid,
                    Compact!CeilDiv, Compact!Unwritten
      <3>3. (\A c : Claimers(c)' = Claimers(c)) /\ ClaimedBlocks' = ClaimedBlocks
        BY <3>1, ClaimersKept, ClaimedKept
      <3>4. BallotSize' = BallotSize /\ Offsets' = Offsets /\ Counts' = Counts
        BY <3>1, BallotSame DEF Offsets, Counts, Compact!Blocks, Compact!CeilDiv
      <3>5. BlockSlots'
        BY <3>1, <3>3, <3>4 DEF BlockSlots, Compact!Blocks, Compact!CeilDiv, Compact!Unwritten
      <3>6. GridSlots'
        BY <3>1, <3>3, <3>4 DEF GridSlots, Compact!Blocks, Compact!CeilDiv, Compact!Unwritten,
                                CompactGrid
      <3>7. SlotsHold'
        BY <3>1, SlotsKept
      <3> QED BY <1>2, <3>1, <3>2, <3>5, <3>6, <3>7
              DEF BallotInv, CompactInv, CompactGrid, Compact!Blocks, Compact!CeilDiv
    <2>2. ASSUME NEW w \in Compact!Warps,
                 Compact!ClearCount(w) \/ Compact!ClaimInBlock(w) \/ Compact!ClaimInGrid(w)
                 \/ Compact!Scatter(w)
          PROVE  BallotInv'
      <3>1. w \in CompactGrid
        BY <1>2 DEF BallotInv, BallotTypes, Compact!Warps
      <3>2. BallotTypes' /\ BlockSlots' /\ GridSlots' /\ SlotsHold'
        BY <1>2, <2>2, <3>1, ClearStep, ClaimStep, ClaimInGridStep, ScatterStep
      <3>3. host' = host /\ host.strategy = "ballot"
        BY <2>2 DEF Compact!ClearCount, Compact!ClaimInBlock, Compact!ClaimInGrid,
                    Compact!Scatter, Compact!Turn
      <3> QED BY <3>2, <3>3 DEF BallotInv
    <2>3. ASSUME NEW i \in Compact!Index, Compact!ClaimSlot(i) \/ Compact!StoreElement(i)
          PROVE FALSE
      BY <1>2, <2>3 DEF BallotInv, BallotTypes, Compact!ClaimSlot, Compact!StoreElement
    <2>4. CASE Compact!ReadBack
      BY <1>2, <2>4, BallotReadBack DEF CompactInv
    <2> QED BY <2>1, <2>2, <2>3, <2>4 DEF Compact!Next, CompactInv
  <1> QED BY <1>1, <1>2 DEF CompactInv

\* What main reads is what passes.
LEMMA CompactCorrect == Compact!SizesAssumption /\ CompactInv => Compact!OutputIsPrimes
  <1> SUFFICES ASSUME Compact!SizesAssumption, CompactInv, host.strategy = "done"
               PROVE  /\ gmem.count = Cardinality(host.prime)
                      /\ { gmem.output[p] : p \in 0..gmem.count - 1 } = host.prime
    BY SameCounts DEF Compact!OutputIsPrimes, Compact!Ended
  <1>1. CASE NaiveInv
    <2> DEFINE C == DOMAIN reg
               n == gmem.count
    <2>1. /\ CompactTypes /\ C = host.prime /\ n = Cardinality(C)
          /\ \A i \in C : reg[i] \in 0..n - 1
          /\ \A i, j \in C : reg[i] = reg[j] => i = j
          /\ \A p \in Compact!Index : gmem.output[p] # Compact!Unwritten =>
               gmem.output[p] \in C /\ reg[gmem.output[p]] = p
          /\ \A i \in C : \E p \in Compact!Index : gmem.output[p] = i
      BY <1>1 DEF NaiveInv
    <2>2. IsFiniteSet(C) /\ n \in Nat /\ C \subseteq Compact!Index
      BY <2>1, FewPass, FS_CardinalityType
    <2>3. \A i \in C : gmem.output[reg[i]] = i
      <3> TAKE i \in C
      <3>1. PICK p \in Compact!Index : gmem.output[p] = i
        BY <2>1
      <3>2. i # Compact!Unwritten
        BY <2>2 DEF Compact!Index, Compact!Unwritten
      <3> QED BY <2>1, <3>1, <3>2
    <2>4. \A p \in 0..n - 1 : \E i \in C : reg[i] = p
      <3> DEFINE f == [i \in C |-> reg[i]]
      <3>1. f \in Injection(C, 0..n - 1)
        BY <2>1 DEF Injection, IsInjective
      <3>2. IsFiniteSet(0..n - 1) /\ Cardinality(0..n - 1) = n
        <4> HIDE DEF n
        <4> QED BY <2>2, Below
      <3>3. f \in Surjection(C, 0..n - 1)
        <4> HIDE DEF f
        <4> QED BY <2>1, <3>1, <3>2, FS_Injection
      <3> QED BY <3>3 DEF Surjection
    <2> HIDE DEF C, n
    <2>5. \A p \in 0..n - 1 : gmem.output[p] \in C
      BY <2>3, <2>4
    <2>6. \A i \in C : \E p \in 0..n - 1 : gmem.output[p] = i
      BY <2>1, <2>3
    <2>7. { gmem.output[p] : p \in 0..n - 1 } = C
      BY <2>5, <2>6
    <2> QED BY <2>1, <2>7 DEF n
  <1>2. CASE BallotInv
    <2>1. BallotTypes /\ BlockSlots /\ GridSlots /\ SlotsHold /\ \A w \in CompactGrid :
            round[w] = 4
      BY <1>2 DEF BallotInv
    <2>2. ClaimedBlocks = Compact!Blocks
      <3>1. \A b \in Compact!Blocks : round[<< b, 0 >>] >= 3
        <4> TAKE b \in Compact!Blocks
        <4>1. << b, 0 >> \in CompactGrid
          BY Indices
        <4>2. round[<< b, 0 >>] = 4
          BY <2>1, <4>1
        <4> QED BY <4>2
      <3> QED BY <3>1 DEF ClaimedBlocks
    <2>3. gmem.count = Cardinality(host.prime)
      BY <2>1, <2>2, GridBound
    <2>4. ASSUME NEW p \in 0..gmem.count - 1 PROVE gmem.output[p] \in host.prime
      <3>1. PICK v \in CompactGrid : \E l \in Compact!Ballot(v) : Compact!SlotOf(v, l) = p
        BY <2>1, SlotFacts
      <3>2. PICK l \in Compact!Ballot(v) : Compact!SlotOf(v, l) = p
        BY <3>1
      <3>3. gmem.output[p] = Compact!IndexOf(v, l)
        BY <2>1, <3>2 DEF SlotsHold
      <3> QED BY <3>3 DEF Compact!Ballot
    <2>5. ASSUME NEW i \in host.prime PROVE \E p \in 0..gmem.count - 1 : gmem.output[p] = i
      <3>1. i \in Compact!Index
        BY <2>1, FewPass DEF BallotTypes
      <3>2. PICK v \in CompactGrid : \E l \in 0..WarpSize - 1 : Compact!IndexOf(v, l) = i
        BY <3>1, Indices
      <3>3. PICK l \in 0..WarpSize - 1 : Compact!IndexOf(v, l) = i
        BY <3>2
      <3>4. l \in Compact!Ballot(v) /\ v[1] \in ClaimedBlocks
        BY <2>2, <3>3 DEF Compact!Ballot, CompactGrid
      <3>5. Compact!SlotOf(v, l) \in 0..gmem.count - 1
        BY <2>1, <3>4, SlotFacts
      <3>6. gmem.output[Compact!SlotOf(v, l)] = i
        BY <2>1, <3>3, <3>4 DEF SlotsHold
      <3> QED BY <3>5, <3>6
    <2> QED BY <2>3, <2>4, <2>5
  <1> QED BY <1>1, <1>2 DEF CompactInv

\* Counts, offsets and slots are of the elements there are.
LEMMA CompactType == Compact!SizesAssumption /\ CompactInv => Compact!TypeOK
  <1> SUFFICES ASSUME Compact!SizesAssumption, CompactInv PROVE Compact!TypeOK
    OBVIOUS
  <1>1. CompactTypes
    BY DEF CompactInv, NaiveInv, BallotInv, BallotTypes
  <1>2. CompactN \in Nat \ {0} /\ Compact!Index = 0..CompactN - 1
        /\ \A n \in 0..CompactN : n \in Compact!Slots
        /\ Compact!Unwritten \in Compact!Slots
    BY DEF Compact!SizesAssumption, Compact!Index, Compact!Slots
  <1>3. /\ gmem.count \in 0..CompactN
        /\ \A b \in Compact!Blocks :
             smem[b].count \in Compact!Slots /\ smem[b].offset \in Compact!Slots
        /\ \A x \in DOMAIN reg : reg[x] \in Compact!Index
        /\ \A w \in DOMAIN round : round[w] \in 0..4
    <2>1. CASE NaiveInv
      <3>1. /\ round = Compact!NoKernel /\ DOMAIN reg \subseteq host.prime
            /\ gmem.count = Cardinality(DOMAIN reg)
            /\ \A i \in DOMAIN reg : reg[i] \in 0..gmem.count - 1
            /\ \A b \in Compact!Blocks :
                 smem[b].count = Compact!Unwritten /\ smem[b].offset = Compact!Unwritten
        BY <2>1 DEF NaiveInv
      <3>2. gmem.count \in 0..CompactN
        <4>1. IsFiniteSet(host.prime) /\ Cardinality(host.prime) <= CompactN
              /\ DOMAIN reg \in SUBSET host.prime
          BY <1>1, <3>1, FewPass
        <4>2. IsFiniteSet(DOMAIN reg) /\ Cardinality(DOMAIN reg) <= Cardinality(host.prime)
          BY <4>1, FS_Subset
        <4>3. Cardinality(DOMAIN reg) \in Nat /\ Cardinality(host.prime) \in Nat
          BY <4>1, <4>2, FS_CardinalityType
        <4> QED BY <1>2, <3>1, <4>1, <4>2, <4>3
      <3>3. \A n \in 0..CompactN : \A r \in 0..n - 1 : r \in Compact!Index
        BY <1>2
      <3>4. DOMAIN round = {}
        BY <3>1 DEF Compact!NoKernel
      <3> QED BY <1>2, <3>1, <3>2, <3>3, <3>4
    <2>2. CASE BallotInv
      <3>1. BallotTypes /\ BlockSlots /\ GridSlots
        BY <2>2 DEF BallotInv
      <3>2. gmem.count \in 0..CompactN
        BY <3>1, GridBound
      <3>3. \A b \in Compact!Blocks : Claimers(b) \in SUBSET CompactGrid
        BY DEF Claimers
      <3>4. ASSUME NEW b \in Compact!Blocks
            PROVE smem[b].count \in Compact!Slots /\ smem[b].offset \in Compact!Slots
        <4>1. smem[b].count \in Compact!Slots
          <5>1. CASE round[<< b, 0 >>] = 0
            BY <1>2, <3>1, <5>1 DEF BlockSlots
          <5>2. CASE round[<< b, 0 >>] # 0
            <6>1. Fill(Claimers(b), reg, BallotSize, smem[b].count)
              BY <3>1, <5>2 DEF BlockSlots
            <6>2. smem[b].count \in 0..CompactN
              BY <3>1, <3>3, <6>1, BlockBound
            <6> QED BY <1>2, <6>2
          <5> QED BY <5>1, <5>2
        <4>2. smem[b].offset \in Compact!Slots
          <5>1. CASE b \notin ClaimedBlocks
            BY <1>2, <3>1, <5>1 DEF GridSlots
          <5>2. CASE b \in ClaimedBlocks
            <6>1. /\ Offsets[b] \in Nat /\ Counts[b] \in Nat
                  /\ Offsets[b] + Counts[b] <= gmem.count
                  /\ smem[b].offset = Offsets[b]
              BY <3>1, <5>2 DEF GridSlots, Fill, Offsets
            <6>2. Offsets[b] \in 0..CompactN
              BY <1>2, <3>2, <6>1
            <6> QED BY <1>2, <6>1, <6>2
          <5> QED BY <5>1, <5>2
        <4> QED BY <4>1, <4>2
      <3>5. ASSUME NEW w \in CompactGrid PROVE reg[w] \in Compact!Index
        <4>1. CASE w \notin Claimers(w[1])
          BY <1>2, <3>1, <4>1 DEF GridSlots
        <4>2. CASE w \in Claimers(w[1])
          <5>1. w[1] \in Compact!Blocks /\ round[w] >= 2 /\ Compact!Ballot(w) # {}
            BY <4>2 DEF Claimers, CompactGrid
          <5>2. << w[1], 0 >> \in CompactGrid /\ << w[1], 0 >>[1] = w[1]
            BY <5>1, Indices
          <5>3. round[w] <= round[<< w[1], 0 >>] + 1 /\ round[w] \in Int
                /\ round[<< w[1], 0 >>] \in Int
            BY <3>1, <5>2 DEF BallotTypes
          <5>4. round[<< w[1], 0 >>] # 0
            BY <5>1, <5>3
          <5>5. Fill(Claimers(w[1]), reg, BallotSize, smem[w[1]].count)
            BY <3>1, <5>1, <5>4 DEF BlockSlots
          <5>6. smem[w[1]].count \in 0..CompactN
            BY <3>1, <3>3, <5>1, <5>5, BlockBound
          <5>7. reg[w] \in Nat /\ BallotSize[w] \in Nat
                /\ reg[w] + BallotSize[w] <= smem[w[1]].count
            BY <4>2, <5>5 DEF Fill
          <5>8. BallotSize[w] # 0
            BY <5>1, Ballots
          <5> QED BY <1>2, <5>6, <5>7, <5>8
        <4> QED BY <4>1, <4>2
      <3>6. DOMAIN reg = CompactGrid /\ round \in [CompactGrid -> 0..4]
        BY <3>1 DEF BallotTypes
      <3> QED BY <3>2, <3>4, <3>5, <3>6
    <2> QED BY <2>1, <2>2 DEF CompactInv
  <1>4. gmem \in [count : 0..CompactN,
                  output : [Compact!Index -> Compact!Index \cup {Compact!Unwritten}]]
    BY <1>1, <1>3 DEF CompactTypes
  <1>5. smem \in [Compact!Blocks -> [count : Compact!Slots, offset : Compact!Slots]]
    <2>1. smem \in [Compact!Blocks -> [count : Int, offset : Int]]
      BY <1>1 DEF CompactTypes
    <2>2. \A b \in Compact!Blocks : smem[b] \in [count : Compact!Slots, offset : Compact!Slots]
      BY <1>3, <2>1
    <2> QED BY <2>1, <2>2
  <1>6. Compact!Range(reg) \subseteq Compact!Index
    BY <1>3 DEF Compact!Range
  <1> QED BY <1>1, <1>3, <1>4, <1>5, <1>6 DEF Compact!TypeOK, CompactTypes, Compact!Warps
===============================================================================
