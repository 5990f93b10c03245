-------------------------- MODULE AiuPipelineProofs ---------------------------
(***************************************************************************)
(* Theorems about the AIU pipeline for any number of strips and tiles.     *)
(***************************************************************************)
EXTENDS AiuPipeline, FiniteSetTheorems, TLAPS

\* The tile whose full phase, or whose empty phase, a buffer's barrier is in.
Filling(b)  == 2 * full[b].phase + b
Emptying(b) == 2 * empty[b].phase + b

\* The producer has the tile's buffer; a consumer has its strip of the tile.
HoldsBuffer  == pc[0] \in {"copy", "link", "arrive"}
HasPassed(w) == pc[w] \in {"load", "store", "arrive"}

Linked(t, s) == t < tile[0] \/ (t = tile[0] /\ HoldsBuffer /\ s < strip)

Issued(t, s) == Linked(t, s) \/ (t = tile[0] /\ pc[0] = "link" /\ s = strip)

LinksOf(b) == { l \in links : Buf(l[1]) = b }

\* The consumers that are done with the tile that is emptied from the buffer.
Gone(b) == { w \in Consumers : tile[w] > Emptying(b) }

Control ==
  /\ pc[0] \in {"init", "sync", "wait", "copy", "link", "arrive", "done"}
  /\ \A w \in Consumers : pc[w] \in {"sync", "wait", "load", "store", "arrive", "done"}
  /\ pc[0] \in {"init", "sync"} => copies = {} /\ links = {}
  /\ \A w \in Consumers : pc[0] \in {"init", "sync"} <=> pc[w] = "sync"
  /\ \A w \in Warps : pc[w] \in {"init", "sync"} => tile[w] = 0
  /\ \A w \in Warps : tile[w] = NumTiles <=> pc[w] = "done"
  /\ pc[0] \in {"copy", "link"} => strip < NumStrips
  /\ pc[0] = "arrive" => strip = NumStrips

\* No warp runs ahead of what it waits for, and no barrier ahead of the warps that
\* arrive at it.
Order ==
  pc[0] # "init" => \A b \in Buffers :
    /\ Filling(b) <= tile[0] + 1
    /\ tile[0] <= Emptying(b) + 2
    /\ HoldsBuffer => tile[0] # Emptying(b) + 2
    /\ \A w \in Consumers :
         /\ Emptying(b) <= tile[w] + 1
         /\ tile[w] <= Filling(b)
         /\ HasPassed(w) => tile[w] # Filling(b)

\* What is due at each barrier.
Arrivals ==
  pc[0] # "init" => \A b \in Buffers :
    /\ full[b].pending >= 1
    /\ full[b].pending = Cardinality(LinksOf(b)) + IF tile[0] > Filling(b) THEN 0 ELSE 1
    /\ empty[b].pending >= 1
    /\ empty[b].pending + Cardinality(Gone(b)) = NumStrips

\* Only the tile being filled has copies and links; a copy that is linked keeps its
\* link; a strip holds the last tile copied to it.
Memory ==
  /\ \A c \in copies : Issued(c[1], c[2])
  /\ \A l \in links : Linked(l[1], l[2])
  /\ \A c \in copies : Linked(c[1], c[2]) => c \in links
  /\ \A l \in copies \cup links : l[1] = Filling(Buf(l[1]))
  /\ \A t \in Tiles, s \in Strips :
       Issued(t, s) /\ << t, s >> \notin copies /\ ~ Issued(t + 2, s) => tsm_buf[Buf(t)][s] = t

Data ==
  /\ OutputTransposed
  /\ \A w \in Consumers : pc[w] = "store" => frag[w] = tile[w]

IInv == TypeOK /\ Control /\ Order /\ Arrivals /\ Memory /\ Data

-------------------------------------------------------------------------------
(* Arithmetic of buffers and rounds                                        *)

LEMMA Halves ==
  ASSUME NEW t \in Nat
  PROVE  /\ Buf(t) \in Buffers /\ t \div 2 \in Nat
         /\ t = 2 * (t \div 2) + Buf(t)
  BY DEF Buf, Buffers

LEMMA RoundUnique ==
  ASSUME NEW n \in Nat, NEW b \in Buffers
  PROVE  Buf(2 * n + b) = b /\ (2 * n + b) \div 2 = n
  BY DEF Buf, Buffers

LEMMA ParityTells ==
  ASSUME NEW n \in Nat, NEW r \in Nat
  PROVE  /\ n \in {r, r + 1} => (n % 2 # r % 2 <=> n = r + 1)
         /\ n + 1 \in {r, r + 1} => (n % 2 # (r + 1) % 2 <=> n = r)
  <1>1. n = r => n % 2 = r % 2 /\ n % 2 # (r + 1) % 2
    OBVIOUS
  <1>2. n = r + 1 => n % 2 # r % 2
    OBVIOUS
  <1>3. n + 1 = r => n % 2 = (r + 1) % 2
    OBVIOUS
  <1>4. QED
    BY <1>1, <1>2, <1>3

\* There is a consumer, and consumers and warps are numbers.
LEMMA Sizes ==
  /\ NumStrips \in Nat /\ NumStrips > 0 /\ NumTiles \in Nat /\ NumTiles > 0
  /\ 1 \in Consumers /\ Consumers \subseteq Warps /\ 0 \in Warps /\ 0 \notin Consumers
  /\ \A w \in Consumers : w - 1 \in Strips
  /\ \A s \in Strips : s \in Nat /\ s + 1 \in Consumers
  /\ IsFiniteSet(Consumers) /\ Cardinality(Consumers) = NumStrips
  <1>1. IsFiniteSet(Consumers) /\ Cardinality(Consumers) = NumStrips
    BY PipelineAssumption, FS_Interval DEF SizesAssumption, Consumers
  <1>2. QED
    BY <1>1, PipelineAssumption DEF SizesAssumption, Consumers, Warps, Strips

\* What the barriers' phases and the tiles of the warps are.
LEMMA Types ==
  ASSUME TypeOK
  PROVE  /\ \A w \in Warps : tile[w] \in Nat /\ tile[w] <= NumTiles
         /\ strip \in Nat /\ strip <= NumStrips
         /\ \A b \in Buffers : /\ full[b].phase \in Nat /\ full[b].pending \in Nat
                               /\ empty[b].phase \in Nat /\ empty[b].pending \in Nat
                               /\ Filling(b) \in Nat /\ Emptying(b) \in Nat
                               /\ Buf(Filling(b)) = b /\ Buf(Emptying(b)) = b
  <1>1. \A b \in Buffers : /\ full[b].phase \in Nat /\ full[b].pending \in Nat
                           /\ empty[b].phase \in Nat /\ empty[b].pending \in Nat
    BY DEF TypeOK, Bar
  <1>2. \A b \in Buffers : Buf(Filling(b)) = b /\ Buf(Emptying(b)) = b
    BY <1>1, RoundUnique DEF Filling, Emptying
  <1>3. QED
    BY <1>1, <1>2, Sizes DEF TypeOK, Filling, Emptying, Buffers

\* The producer, once it has waited for a buffer, fills the tile that the buffer's
\* barriers are at.
LEMMA Held ==
  ASSUME TypeOK, Order, pc[0] # "init", HoldsBuffer
  PROVE  Filling(Buf(tile[0])) = tile[0] /\ Emptying(Buf(tile[0])) = tile[0]
  <1> DEFINE t == tile[0]  b == Buf(t)
  <1>1. t \in Nat /\ b \in Buffers /\ t = 2 * (t \div 2) + b /\ t \div 2 \in Nat
    BY Types, Sizes, Halves
  <1>2. /\ Filling(b) <= t + 1 /\ t <= Emptying(b) + 2 /\ t # Emptying(b) + 2
        /\ Emptying(b) <= tile[1] + 1 /\ tile[1] <= Filling(b)
    BY <1>1, Sizes DEF Order
  <1>3. tile[1] \in Nat /\ full[b].phase \in Nat /\ empty[b].phase \in Nat /\ b \in {0, 1}
    BY <1>1, Types, Sizes DEF Buffers
  <1> HIDE DEF t, b
  <1>4. QED
    BY <1>1, <1>2, <1>3 DEF Filling, Emptying, t, b

\* What a consumer's tile can be, relative to its buffer's barriers.
LEMMA Behind ==
  ASSUME TypeOK, Order, pc[0] # "init", NEW w \in Consumers
  PROVE  LET t == tile[w]  b == Buf(t) IN
           /\ Filling(b) \in {t, t + 2}
           /\ HasPassed(w) => Filling(b) = t + 2 /\ Emptying(b) = t /\ tile[0] > t
  <1> DEFINE t == tile[w]  b == Buf(t)
  <1>1. t \in Nat /\ b \in Buffers /\ t = 2 * (t \div 2) + b /\ t \div 2 \in Nat
    BY Types, Sizes, Halves
  <1>2. /\ Filling(b) <= tile[0] + 1 /\ tile[0] <= Emptying(b) + 2
        /\ Emptying(b) <= t + 1 /\ t <= Filling(b)
        /\ HasPassed(w) => t # Filling(b)
    BY <1>1 DEF Order
  <1>3. tile[0] \in Nat /\ full[b].phase \in Nat /\ empty[b].phase \in Nat /\ b \in {0, 1}
    BY <1>1, Types, Sizes DEF Buffers
  <1> HIDE DEF t, b
  <1>4. /\ Filling(b) \in {t, t + 2}
        /\ HasPassed(w) => Filling(b) = t + 2 /\ Emptying(b) = t /\ tile[0] > t
    BY <1>1, <1>2, <1>3 DEF Filling, Emptying
  <1>5. QED
    BY <1>4 DEF t, b

-------------------------------------------------------------------------------
(* Initial states and types                                                *)

LEMMA InitIInv == Init => IInv
  <1> SUFFICES ASSUME Init PROVE IInv
    OBVIOUS
  <1>1. TypeOK
    BY Sizes DEF Init, TypeOK, Bar, Warps, Consumers, Garbage
  <1>2. Control
    <2>1. pc[0] = "init" /\ \A w \in Consumers : pc[w] = "sync"
      BY Sizes DEF Init, Warps, Consumers
    <2>2. \A w \in Warps : tile[w] = 0 /\ pc[w] # "done" /\ tile[w] # NumTiles
      BY Sizes DEF Init
    <2>3. QED
      BY <2>1, <2>2 DEF Init, Control
  <1>3. Order /\ Arrivals
    BY Sizes DEF Init, Order, Arrivals
  <1>4. Memory
    BY Sizes DEF Init, Memory, Issued, Linked, HoldsBuffer, Tiles
  <1>5. Data
    BY Sizes DEF Init, Data, OutputTransposed, Tiles, Garbage
  <1>6. QED
    BY <1>1, <1>2, <1>3, <1>4, <1>5 DEF IInv

LEMMA TypeStep ==
  ASSUME IInv, [Next]_vars
  PROVE  TypeOK'
  <1>1. CASE InitBarriers
    BY <1>1, Sizes DEF IInv, TypeOK, InitBarriers, At, Bar
  <1>2. CASE WaitEmpty
    BY <1>2, Sizes DEF IInv, TypeOK, WaitEmpty, At
  <1>3. CASE CopyStrip
    <2>1. pc[0] = "copy" /\ tile[0] \in Nat /\ tile[0] < NumTiles
      BY <1>3, Sizes, Types DEF IInv, Control, CopyStrip, At
    <2>2. strip \in 0..NumStrips /\ strip < NumStrips /\ NumStrips \in Nat
      BY <2>1, Sizes DEF IInv, Control, TypeOK
    <2>3. << tile[0], strip >> \in Tiles \X Strips
      BY <2>1, <2>2, Sizes DEF Tiles, Strips
    <2>4. QED
      BY <1>3, <2>3, Sizes DEF IInv, TypeOK, CopyStrip, At
  <1>4. CASE LinkStrip
    <2>1. /\ << tile[0], strip >> \in Tiles \X Strips
          /\ strip + 1 \in 0 .. NumStrips
      BY <1>4, Sizes, Types DEF IInv, Control, LinkStrip, At, Tiles, Strips, TypeOK
    <2>2. full' \in [Buffers -> Bar]
      <3>1. Buf(tile[0]) \in Buffers
        BY Sizes, Types, Halves DEF IInv
      <3>2. Expecting(full[Buf(tile[0])]) \in Bar
        BY <3>1 DEF IInv, TypeOK, Bar, Expecting
      <3>3. QED
        BY <1>4, <3>2 DEF IInv, TypeOK, LinkStrip
    <2>3. pc' \in [Warps -> {"init", "sync", "wait", "copy", "link", "load", "store", "arrive", "done"}]
      BY <1>4 DEF IInv, TypeOK, LinkStrip, At
    <2>4. QED
      BY <1>4, <2>1, <2>2, <2>3 DEF IInv, TypeOK, LinkStrip
  <1>5. ASSUME NEW bar \in Bar, NEW count \in Nat, bar.pending >= 1
        PROVE  Arrived(bar, count) \in Bar
    BY <1>5 DEF Arrived, Bar
  <1>6. ASSUME NEW w \in Warps, NextTile(w, "arrive")
        PROVE  /\ tile' \in [Warps -> 0 .. NumTiles]
               /\ pc' \in [Warps -> {"init", "sync", "wait", "copy", "link", "load", "store", "arrive", "done"}]
               /\ pc[w] = "arrive" /\ pc[0] # "init" /\ Buf(tile[w]) \in Buffers
    <2>1. pc[w] = "arrive" /\ tile[w] # NumTiles /\ pc[0] # "init"
      BY <1>6, Sizes DEF NextTile, At, IInv, Control, Warps, Consumers
    <2>2. tile[w] + 1 \in 0 .. NumTiles
      BY <2>1, Types, Sizes DEF IInv
    <2>3. QED
      BY <1>6, <2>1, <2>2, Types, Halves DEF NextTile, At, IInv, TypeOK
  <1>7. CASE ArriveFull
    <2>1. full' \in [Buffers -> Bar]
      BY <1>5, <1>6, <1>7, Sizes DEF ArriveFull, IInv, TypeOK, Arrivals
    <2>2. QED
      BY <1>6, <1>7, <2>1, Sizes DEF ArriveFull, IInv, TypeOK
  <1>8. CASE Engine
    <2>1. PICK t \in Tiles, s \in Strips : CopyLands(t, s) \/ LinkArrives(t, s)
      BY <1>8 DEF Engine
    <2>2. t \in Nat /\ Buf(t) \in Buffers
      BY Halves DEF Tiles
    <2>3. CASE CopyLands(t, s)
      BY <2>2, <2>3 DEF CopyLands, IInv, TypeOK
    <2>4. CASE LinkArrives(t, s)
      <3>1. pc[0] # "init"
        BY <2>4 DEF LinkArrives, IInv, Control
      <3>2. full' \in [Buffers -> Bar]
        BY <1>5, <2>2, <2>4, <3>1 DEF LinkArrives, IInv, TypeOK, Arrivals
      <3>3. QED
        BY <2>4, <3>2 DEF LinkArrives, IInv, TypeOK
    <2>5. QED
      BY <2>1, <2>3, <2>4
  <1>9. ASSUME NEW w \in Consumers, WaitFull(w)
        PROVE  TypeOK'
    BY <1>9 DEF IInv, TypeOK, WaitFull, At
  <1>10. ASSUME NEW w \in Consumers, LoadStrip(w)
         PROVE  TypeOK'
    <2>1. tsm_buf[Buf(tile[w])][w - 1] \in Tiles \cup {Garbage}
      BY Types, Halves, Sizes DEF IInv, TypeOK
    <2>2. QED
      BY <1>10, <2>1 DEF IInv, TypeOK, LoadStrip, At
  <1>11. ASSUME NEW w \in Consumers, StoreStrip(w)
         PROVE  TypeOK'
    BY <1>11 DEF IInv, TypeOK, StoreStrip, At
  <1>12. ASSUME NEW w \in Consumers, ArriveEmpty(w)
         PROVE  TypeOK'
    <2>1. empty' \in [Buffers -> Bar]
      BY <1>5, <1>6, <1>12, Sizes DEF ArriveEmpty, IInv, TypeOK, Arrivals
    <2>2. QED
      BY <1>6, <1>12, <2>1, Sizes DEF ArriveEmpty, IInv, TypeOK
  <1>13. CASE Sync
    BY <1>13 DEF IInv, TypeOK, Sync
  <1>14. CASE UNCHANGED vars
    BY <1>14 DEF IInv, TypeOK, vars
  <1>15. QED
    BY <1>1, <1>2, <1>3, <1>4, <1>7, <1>8, <1>9, <1>10, <1>11, <1>12, <1>13, <1>14
       DEF Next, Producer, Consumer

-------------------------------------------------------------------------------
(* Every action preserves the invariant                                    *)

LEMMA InitBarriersStep ==
  ASSUME IInv, TypeOK', InitBarriers
  PROVE  IInv'
  <1>1. /\ pc[0] = "init" /\ pc'[0] = "sync" /\ tile' = tile /\ copies' = {} /\ links' = {}
        /\ \A w \in Warps : tile[w] = 0
        /\ \A w \in Consumers : pc[w] = "sync" /\ pc'[w] = "sync"
    BY Sizes DEF InitBarriers, At, IInv, TypeOK, Control, Warps, Consumers
  <1>2. Control'
    BY <1>1, Sizes DEF Control, Warps, Consumers, IInv
  <1>3. \A b \in Buffers : /\ Filling(b)' = b /\ Emptying(b)' = b
                           /\ full'[b].pending = 1 /\ empty'[b].pending = NumStrips
    BY DEF InitBarriers, Filling, Emptying, Buffers
  <1>4. Order'
    BY <1>1, <1>3, Sizes DEF Order, HoldsBuffer, HasPassed, Buffers
  <1>5. Arrivals'
    <2>1. ASSUME NEW b \in Buffers PROVE LinksOf(b)' = {} /\ Gone(b)' = {} /\ ~ tile'[0] > Filling(b)'
      BY <1>1, <1>3, Sizes DEF LinksOf, Gone, Buffers
    <2>2. ASSUME NEW b \in Buffers
          PROVE  Cardinality(LinksOf(b)') = 0 /\ Cardinality(Gone(b)') = 0
      BY <2>1, FS_EmptySet
    <2>3. QED
      BY <1>3, <2>1, <2>2, Sizes DEF Arrivals
  <1>6. Memory'
    BY <1>1, Sizes DEF Memory, Issued, Linked, HoldsBuffer, Tiles
  <1>7. Data'
    BY <1>1, Sizes DEF Data, OutputTransposed, IInv, InitBarriers, Tiles
  <1>8. QED
    BY <1>2, <1>4, <1>5, <1>6, <1>7 DEF IInv

LEMMA SyncStep ==
  ASSUME IInv, TypeOK', Sync
  PROVE  IInv'
  <1>1. /\ pc[0] = "sync" /\ tile' = tile /\ copies = {} /\ links = {} /\ full' = full /\ empty' = empty
        /\ \A w \in Warps : tile[w] = 0 /\ pc'[w] = "wait"
        /\ copies' = {} /\ links' = {}
    BY Sizes DEF Sync, IInv, Control
  <1>2. Control'
    <2>1. \A w \in Warps : tile'[w] = 0 /\ tile'[w] # NumTiles /\ pc'[w] = "wait"
      BY <1>1, Sizes
    <2>2. QED
      BY <2>1, Sizes DEF Control
  <1>3. Order'
    BY <1>1, Sizes DEF IInv, Order, HoldsBuffer, HasPassed, Filling, Emptying
  <1>4. Arrivals'
    BY <1>1 DEF IInv, Arrivals, LinksOf, Gone, Filling, Emptying
  <1>5. Memory'
    BY <1>1, Sizes DEF Memory, Issued, Linked, HoldsBuffer, Tiles
  <1>6. Data'
    BY <1>1, Sizes DEF Data, OutputTransposed, IInv, Sync, Tiles
  <1>7. QED
    BY <1>2, <1>3, <1>4, <1>5, <1>6 DEF IInv

LEMMA WaitEmptyStep ==
  ASSUME IInv, TypeOK', WaitEmpty
  PROVE  IInv'
  <1> DEFINE t == tile[0]  b == Buf(t)
  <1>1. /\ pc[0] = "wait" /\ pc'[0] = "copy" /\ strip' = 0
        /\ tile' = tile /\ copies' = copies /\ links' = links /\ full' = full /\ empty' = empty
        /\ tsm_buf' = tsm_buf /\ frag' = frag /\ output' = output
        /\ \A w \in Consumers : pc'[w] = pc[w]
    BY Sizes DEF WaitEmpty, At, IInv, TypeOK
  <1>2. t \in Nat /\ t < NumTiles /\ b \in Buffers /\ t = 2 * (t \div 2) + b /\ t \div 2 \in Nat
    <2>1. t \in Nat /\ t <= NumTiles /\ t # NumTiles
      BY <1>1, Types, Sizes DEF IInv, Control
    <2>2. QED
      BY <2>1, Halves, Sizes
  \* The phase that has ended can only be the right one.
  <1>3. Emptying(b) = t
    <2>1. /\ t <= Emptying(b) + 2 /\ Emptying(b) <= tile[1] + 1
          /\ tile[1] <= Filling(b) /\ Filling(b) <= t + 1
      BY <1>1, <1>2, Sizes DEF IInv, Order
    <2>2. /\ tile[1] \in Nat /\ b \in {0, 1}
          /\ full[b].phase \in Nat /\ empty[b].phase \in Nat
      BY <1>2, Types, Sizes DEF IInv, Buffers
    <2>3. empty[b].phase % 2 # ((t \div 2) + 1) % 2
      BY DEF WaitEmpty, Passed, EmptyParity
    <2>4. empty[b].phase + 1 \in {t \div 2, (t \div 2) + 1}
      <3>1. \A r, e, f, u \in Nat, c \in {0, 1} :
              /\ 2 * r + c <= 2 * e + c + 2 /\ 2 * e + c <= u + 1
              /\ u <= 2 * f + c /\ 2 * f + c <= 2 * r + c + 1
              => r <= e + 1 /\ 2 * e <= 2 * f + 1 /\ 2 * f <= 2 * r + 1
        OBVIOUS
      <3>2. \A r, e, f \in Nat : r <= e + 1 /\ 2 * e <= 2 * f + 1 /\ 2 * f <= 2 * r + 1
                                => e + 1 \in {r, r + 1}
        OBVIOUS
      <3> HIDE DEF t, b
      <3>3. /\ t \div 2 <= empty[b].phase + 1
            /\ 2 * empty[b].phase <= 2 * full[b].phase + 1
            /\ 2 * full[b].phase <= 2 * (t \div 2) + 1
        BY <1>2, <2>1, <2>2, <3>1 DEF Filling, Emptying
      <3>4. QED
        BY <1>2, <2>2, <3>2, <3>3
    <2>5. empty[b].phase = t \div 2
      BY <1>2, <2>2, <2>3, <2>4, ParityTells
    <2>6. QED
      BY <1>2, <2>5 DEF Emptying
  <1>4. Control'
    BY <1>1, Sizes DEF IInv, Control, Warps, Consumers
  <1>5. Order'
    <2>1. ASSUME NEW c \in Buffers PROVE t # Emptying(c) + 2
      BY <1>2, <1>3, Types, Sizes DEF Emptying, Buffers, IInv
    <2>2. QED
      BY <1>1, <2>1 DEF IInv, Order, HoldsBuffer, HasPassed, Filling, Emptying
  <1>6. Arrivals'
    BY <1>1 DEF IInv, Arrivals, LinksOf, Gone, Filling, Emptying
  <1>7. \A u \in Int, s \in Strips : /\ Linked(u, s)' <=> Linked(u, s)
                                     /\ Issued(u, s)' <=> Issued(u, s)
    BY <1>1, <1>2, Sizes DEF Linked, Issued, HoldsBuffer
  <1>8. Memory'
    BY <1>1, <1>7, Types DEF IInv, TypeOK, Memory, Filling, Tiles
  <1>9. Data'
    BY <1>1 DEF IInv, Data, OutputTransposed
  <1>10. QED
    BY <1>4, <1>5, <1>6, <1>8, <1>9 DEF IInv

LEMMA FiniteSets ==
  ASSUME TypeOK
  PROVE  \A b \in Buffers : IsFiniteSet(LinksOf(b)) /\ IsFiniteSet(Gone(b))
  <1>1. IsFiniteSet(Tiles) /\ IsFiniteSet(Strips)
    BY Sizes, FS_Interval DEF Tiles, Strips
  <1>2. IsFiniteSet(Tiles \X Strips)
    BY <1>1, FS_Product
  <1>3. ASSUME NEW b \in Buffers PROVE LinksOf(b) \subseteq Tiles \X Strips /\ Gone(b) \subseteq Consumers
    BY DEF TypeOK, LinksOf, Gone
  <1>4. QED
    BY <1>2, <1>3, Sizes, FS_Subset

LEMMA CopyStripStep ==
  ASSUME IInv, TypeOK', CopyStrip
  PROVE  IInv'
  <1> DEFINE t == tile[0]
  <1>1. /\ pc[0] = "copy" /\ pc'[0] = "link" /\ copies' = copies \cup {<< t, strip >>}
        /\ tile' = tile /\ strip' = strip /\ links' = links /\ full' = full /\ empty' = empty
        /\ tsm_buf' = tsm_buf /\ frag' = frag /\ output' = output
        /\ \A w \in Consumers : pc'[w] = pc[w]
    BY Sizes DEF CopyStrip, At, IInv, TypeOK
  <1>2. t \in Nat /\ strip \in Nat /\ Filling(Buf(t)) = t
    BY <1>1, Held, Types, Sizes DEF IInv, HoldsBuffer
  <1>3. Control'
    BY <1>1, Sizes DEF IInv, Control, Warps, Consumers
  <1>4. Order'
    BY <1>1 DEF IInv, Order, HoldsBuffer, HasPassed, Filling, Emptying
  <1>5. Arrivals'
    BY <1>1 DEF IInv, Arrivals, LinksOf, Gone, Filling, Emptying
  <1>6. \A u \in Int, s \in Strips :
          /\ Linked(u, s)' <=> Linked(u, s)
          /\ Issued(u, s)' <=> Issued(u, s) \/ (u = t /\ s = strip)
          /\ ~ Linked(t, strip)
    BY <1>1, <1>2, Sizes DEF Linked, Issued, HoldsBuffer
  <1>7. Memory'
    <2>1. strip \in Strips /\ t \in Tiles
      BY <1>1, Types, Sizes DEF IInv, TypeOK, Control, Tiles, Strips
    <2>2. \A c \in copies \cup links : c \in Tiles \X Strips
      BY DEF IInv, TypeOK
    <2>3. \A u \in Tiles : u \in Int /\ u + 2 \in Int
      BY Sizes DEF Tiles
    <2>4. \A c \in copies' : Issued(c[1], c[2])' /\ (Linked(c[1], c[2])' => c \in links')
      BY <1>1, <1>6, <2>1, <2>2, <2>3 DEF IInv, Memory
    <2>5. \A l \in links' : Linked(l[1], l[2])'
      BY <1>1, <1>6, <2>2, <2>3 DEF IInv, Memory
    <2>6. \A l \in copies' \cup links' : l[1] = Filling(Buf(l[1]))'
      BY <1>1, <1>2 DEF IInv, Memory, Filling
    <2>7. ASSUME NEW u \in Tiles, NEW s \in Strips,
                 Issued(u, s)', << u, s >> \notin copies', ~ Issued(u + 2, s)'
          PROVE  tsm_buf'[Buf(u)][s] = u
      BY <1>1, <1>6, <2>3, <2>7 DEF IInv, Memory
    <2>8. QED
      BY <2>4, <2>5, <2>6, <2>7 DEF Memory
  <1>8. Data'
    BY <1>1 DEF IInv, Data, OutputTransposed
  <1>9. QED
    BY <1>3, <1>4, <1>5, <1>7, <1>8 DEF IInv

LEMMA LinkStripStep ==
  ASSUME IInv, TypeOK', LinkStrip
  PROVE  IInv'
  <1> DEFINE t == tile[0]  b == Buf(t)
  <1>1. /\ pc[0] = "link" /\ pc'[0] \in {"copy", "arrive"} /\ links' = links \cup {<< t, strip >>}
        /\ pc'[0] = IF strip + 1 < NumStrips THEN "copy" ELSE "arrive"
        /\ tile' = tile /\ strip' = strip + 1 /\ copies' = copies /\ empty' = empty
        /\ tsm_buf' = tsm_buf /\ frag' = frag /\ output' = output
        /\ \A w \in Consumers : pc'[w] = pc[w]
    BY Sizes DEF LinkStrip, At, IInv, TypeOK
  <1>2. t \in Nat /\ strip \in Nat /\ strip < NumStrips /\ b \in Buffers /\ Filling(b) = t
    BY <1>1, Held, Types, Sizes, Halves DEF IInv, HoldsBuffer, Control
  <1>3. /\ t \in Tiles /\ strip \in Strips
        /\ \A l \in copies \cup links : l \in Tiles \X Strips /\ l[1] \in Int /\ l[2] \in Strips
        /\ \A u \in Tiles : u \in Int /\ u + 2 \in Int
    <2>1. t \in Tiles /\ strip \in Strips
      BY <1>1, <1>2, Types, Sizes DEF IInv, Control, Tiles, Strips
    <2>2. QED
      BY <2>1 DEF IInv, TypeOK, Tiles
  <1>4. /\ full'[b].phase = full[b].phase /\ full'[b].pending = full[b].pending + 1
        /\ \A c \in Buffers : full'[c].phase = full[c].phase /\ (c # b => full'[c] = full[c])
    BY <1>2 DEF LinkStrip, Expecting, IInv, TypeOK
  <1>5. \A c \in Buffers : Filling(c)' = Filling(c) /\ Emptying(c)' = Emptying(c) /\ Gone(c)' = Gone(c)
    BY <1>1, <1>4 DEF Filling, Emptying, Gone
  <1>6. Control'
    BY <1>1, <1>2, Sizes DEF IInv, Control, Warps, Consumers
  <1>7. Order'
    BY <1>1, <1>5 DEF IInv, Order, HoldsBuffer, HasPassed
  <1>8. \A u \in Int, s \in Strips :
          /\ Linked(u, s)' <=> Linked(u, s) \/ (u = t /\ s = strip)
          /\ Issued(u, s)' <=> Issued(u, s)
          /\ Linked(u, s)' <=> Issued(u, s)
          /\ ~ Linked(t, strip)
    BY <1>1, <1>2, Sizes DEF Linked, Issued, HoldsBuffer
  <1>9. Arrivals'
    <2>1. /\ LinksOf(b)' = LinksOf(b) \cup {<< t, strip >>}
          /\ \A c \in Buffers \ {b} : LinksOf(c)' = LinksOf(c)
      BY <1>1 DEF LinksOf
    <2>2. << t, strip >> \notin LinksOf(b)
      BY <1>3, <1>8 DEF LinksOf, IInv, Memory
    <2>3. Cardinality(LinksOf(b)') = Cardinality(LinksOf(b)) + 1
      BY <1>2, <2>1, <2>2, FiniteSets, FS_AddElement DEF IInv
    <2>4. full[b].pending \in Nat /\ Cardinality(LinksOf(b)) \in Nat
      BY <1>2, FiniteSets, Types, FS_CardinalityType DEF IInv
    <2>5. ASSUME NEW c \in Buffers
          PROVE  /\ full'[c].pending >= 1
                 /\ full'[c].pending = Cardinality(LinksOf(c)') + IF tile'[0] > Filling(c)' THEN 0 ELSE 1
      <3>1. /\ full[c].pending >= 1
            /\ full[c].pending = Cardinality(LinksOf(c)) + IF tile[0] > Filling(c) THEN 0 ELSE 1
        BY <1>1 DEF IInv, Arrivals
      <3>2. CASE c = b
        BY <1>1, <1>4, <1>5, <2>3, <2>4, <3>1, <3>2
      <3>3. CASE c # b
        BY <1>1, <1>4, <1>5, <2>1, <3>1, <3>3
      <3>4. QED
        BY <3>2, <3>3
    <2>6. QED
      BY <1>1, <1>5, <2>5 DEF IInv, Arrivals
  <1>10. Memory'
    <2>1. \A c \in copies' : Issued(c[1], c[2])' /\ (Linked(c[1], c[2])' => c \in links')
      BY <1>1, <1>3, <1>8 DEF IInv, Memory
    <2>2. \A l \in links' : Linked(l[1], l[2])'
      BY <1>1, <1>3, <1>8 DEF IInv, Memory
    <2>3. \A l \in copies' \cup links' : l[1] = Filling(Buf(l[1]))'
      <3>1. \A l \in copies \cup links : Buf(l[1]) \in Buffers
        BY Halves DEF IInv, TypeOK, Tiles
      <3>2. QED
        BY <1>1, <1>2, <1>5, <3>1 DEF IInv, Memory
    <2>4. ASSUME NEW u \in Tiles, NEW s \in Strips,
                 Issued(u, s)', << u, s >> \notin copies', ~ Issued(u + 2, s)'
          PROVE  tsm_buf'[Buf(u)][s] = u
      BY <1>1, <1>3, <1>8, <2>4 DEF IInv, Memory
    <2>5. QED
      BY <2>1, <2>2, <2>3, <2>4 DEF Memory
  <1>11. Data'
    BY <1>1 DEF IInv, Data, OutputTransposed
  <1>12. QED
    BY <1>6, <1>7, <1>9, <1>10, <1>11 DEF IInv

\* Buffers have tiles of different parity.
LEMMA OtherBuffer ==
  ASSUME TypeOK, NEW c \in Buffers, NEW b \in Buffers, b # c
  PROVE  \A n \in Int : Filling(b) # Filling(c) + 2 * n /\ Emptying(b) # Emptying(c) + 2 * n
                        /\ Filling(b) # Emptying(c) + 2 * n /\ Emptying(b) # Filling(c) + 2 * n
  BY Types DEF Filling, Emptying, Buffers

LEMMA ArriveFullStep ==
  ASSUME IInv, TypeOK', ArriveFull
  PROVE  IInv'
  <1>0. PICK t \in Nat, b \in Buffers : t = tile[0] /\ b = Buf(t)
    BY Types, Sizes, Halves DEF IInv
  <1>1. /\ pc[0] = "arrive" /\ pc'[0] = IF t + 1 < NumTiles THEN "wait" ELSE "done"
        /\ tile'[0] = t + 1 /\ strip' = strip /\ copies' = copies /\ links' = links /\ empty' = empty
        /\ tsm_buf' = tsm_buf /\ frag' = frag /\ output' = output
        /\ \A w \in Consumers : pc'[w] = pc[w] /\ tile'[w] = tile[w]
    BY <1>0, Sizes DEF ArriveFull, NextTile, At, IInv, TypeOK
  <1>2. /\ t \in Nat /\ t < NumTiles /\ b \in Buffers /\ strip = NumStrips
        /\ Filling(b) = t /\ Emptying(b) = t
    BY <1>0, <1>1, Held, Types, Sizes DEF IInv, HoldsBuffer, Control
  <1>3. /\ \A l \in copies \cup links : l \in Tiles \X Strips /\ l[1] \in Int /\ l[2] \in Strips /\ Buf(l[1]) \in Buffers
        /\ \A u \in Tiles : u \in Int /\ u + 2 \in Int
    BY Halves DEF IInv, TypeOK, Tiles
  <1>4. /\ full'[b] = Arrived(full[b], 1)
        /\ \A c \in Buffers : c # b => full'[c] = full[c]
    BY <1>0, <1>2 DEF ArriveFull, IInv, TypeOK
  <1>5. \A c \in Buffers : /\ Emptying(c)' = Emptying(c) /\ Gone(c)' = Gone(c) /\ LinksOf(c)' = LinksOf(c)
                           /\ c # b => Filling(c)' = Filling(c)
    BY <1>1, <1>4 DEF Filling, Emptying, Gone, LinksOf
  <1>6. /\ full[b].pending \in Nat /\ full[b].pending >= 1
        /\ full[b].pending = Cardinality(LinksOf(b)) + 1
        /\ Cardinality(LinksOf(b)) \in Nat
    BY <1>0, <1>1, <1>2, FiniteSets, Types, FS_CardinalityType DEF IInv, Arrivals
  \* Either links are left, and the phase goes on, or this was the last arrival.
  <1>7. \/ /\ full[b].pending > 1 /\ Filling(b)' = t
           /\ full'[b].pending = Cardinality(LinksOf(b))
        \/ /\ LinksOf(b) = {} /\ Filling(b)' = t + 2
           /\ full'[b].pending = 1
    <2>1. CASE full[b].pending = 1
      <3>1. LinksOf(b) = {}
        BY <1>2, <1>6, <2>1, FiniteSets, FS_EmptySet DEF IInv
      <3>2. full'[b].phase = full[b].phase + 1 /\ full'[b].pending = 1
        BY <1>4, <2>1 DEF Arrived
      <3>3. QED
        BY <1>2, <3>1, <3>2, Types DEF Filling, IInv, Buffers
    <2>2. CASE full[b].pending # 1
      <3>1. full'[b].phase = full[b].phase /\ full'[b].pending = full[b].pending - 1
        BY <1>4, <2>2 DEF Arrived
      <3>2. QED
        BY <1>2, <1>6, <2>2, <3>1 DEF Filling
    <2>3. QED
      BY <2>1, <2>2
  <1>8. Control'
    <2>1. t + 1 = NumTiles <=> ~ (t + 1 < NumTiles)
      BY <1>2, Sizes
    <2>2. QED
      BY <1>0, <1>1, <1>2, <2>1, Sizes DEF IInv, Control, Warps, Consumers
  <1>9. Order'
    <2>1. ASSUME NEW c \in Buffers
          PROVE  /\ Filling(c)' <= tile'[0] + 1 /\ tile'[0] <= Emptying(c)' + 2
                 /\ \A w \in Consumers :
                      /\ Emptying(c)' <= tile'[w] + 1 /\ tile'[w] <= Filling(c)'
                      /\ HasPassed(w)' => tile'[w] # Filling(c)'
      <3>1. /\ Filling(c) <= t + 1 /\ t <= Emptying(c) + 2
            /\ \A w \in Consumers :
                 /\ Emptying(c) <= tile[w] + 1 /\ tile[w] <= Filling(c)
                 /\ HasPassed(w) => tile[w] # Filling(c)
                 /\ HasPassed(w)' <=> HasPassed(w)
        BY <1>0, <1>1 DEF IInv, Order, HasPassed
      <3>2. Filling(c) \in Nat /\ Emptying(c) \in Nat /\ \A w \in Consumers : tile[w] \in Nat
        BY Types, Sizes DEF IInv
      <3>3. CASE c = b
        BY <1>1, <1>2, <1>5, <1>7, <3>1, <3>2, <3>3
      <3>4. CASE c # b
        <4>1. t # Emptying(c) + 2
          BY <1>0, <1>2, <3>4, OtherBuffer DEF IInv
        <4>2. QED
          BY <1>1, <1>2, <1>5, <3>1, <3>2, <3>4, <4>1
      <3>5. QED
        BY <3>3, <3>4
    <2>2. QED
      BY <1>1, <2>1 DEF Order, HoldsBuffer
  <1>10. Arrivals'
    <2>1. ASSUME NEW c \in Buffers
          PROVE  /\ full'[c].pending >= 1
                 /\ full'[c].pending = Cardinality(LinksOf(c)') + IF tile'[0] > Filling(c)' THEN 0 ELSE 1
      <3>1. CASE c = b
        <4>1. LinksOf(b) = {} => Cardinality(LinksOf(b)) = 0
          BY FS_EmptySet
        <4>2. LinksOf(c)' = LinksOf(b) /\ Filling(c)' = Filling(b)'
          BY <1>5, <3>1
        <4>3. QED
          BY <1>1, <1>2, <1>6, <1>7, <3>1, <4>1, <4>2
      <3>2. CASE c # b
        <4>1. /\ full[c].pending >= 1
              /\ full[c].pending = Cardinality(LinksOf(c)) + IF tile[0] > Filling(c) THEN 0 ELSE 1
          BY <1>0, <1>1 DEF IInv, Arrivals
        <4>2. Filling(c) \in Nat /\ t # Filling(c)
          BY <1>0, <1>2, <3>2, OtherBuffer, Types DEF IInv
        <4>3. QED
          BY <1>0, <1>1, <1>2, <1>4, <1>5, <3>2, <4>1, <4>2
      <3>3. QED
        BY <3>1, <3>2
    <2>2. QED
      BY <1>1, <1>5, <2>1 DEF IInv, Arrivals
  <1>11. \A u \in Int, s \in Strips : /\ Linked(u, s)' <=> Linked(u, s)
                                      /\ Issued(u, s)' <=> Issued(u, s)
    <2>1. \A s \in Strips : s < strip
      BY <1>2, Sizes DEF Strips
    <2>2. QED
      BY <1>0, <1>1, <1>2, <2>1, Sizes DEF Linked, Issued, HoldsBuffer
  <1>12. Memory'
    <2>1. \A c \in copies : Linked(c[1], c[2])
      <3>1. \A c \in copies : Issued(c[1], c[2])
        BY DEF IInv, Memory
      <3>2. QED
        BY <1>1, <3>1 DEF Issued
    <2>2. \A l \in copies' \cup links' : l[1] = Filling(Buf(l[1]))'
      <3>1. \A l \in copies \cup links : l \in links /\ l[1] = Filling(Buf(l[1]))
        BY <1>1, <2>1 DEF IInv, Memory
      <3>2. QED
        BY <1>1, <1>2, <1>3, <1>5, <1>7, <3>1 DEF LinksOf
    <2>3. QED
      BY <1>1, <1>3, <1>11, <2>2 DEF IInv, Memory
  <1>13. Data'
    BY <1>0, <1>1, Sizes DEF IInv, Data, OutputTransposed
  <1>14. QED
    BY <1>8, <1>9, <1>10, <1>12, <1>13 DEF IInv

\* A copy is issued for no later tile than the one its buffer is filled with, and
\* was emptied for.
LEMMA IssuedBound ==
  ASSUME TypeOK, Order, pc[0] # "init", NEW u \in Nat, NEW s, Issued(u, s)
  PROVE  u <= Filling(Buf(u)) /\ u <= Emptying(Buf(u)) /\ u <= tile[0]
  <1> DEFINE b == Buf(u)
  <1>1. b \in Buffers /\ u = 2 * (u \div 2) + b /\ u \div 2 \in Nat
    BY Halves
  <1>2. CASE u = tile[0] /\ HoldsBuffer
    BY <1>2, Held, Sizes, Types
  <1>3. CASE u < tile[0]
    <2>1. tile[0] <= Emptying(b) + 2 /\ Emptying(b) <= tile[1] + 1 /\ tile[1] <= Filling(b)
      BY <1>1, Sizes DEF Order
    <2>2. /\ tile[0] \in Nat /\ tile[1] \in Nat
          /\ full[b].phase \in Nat /\ empty[b].phase \in Nat /\ b \in {0, 1}
      BY <1>1, Types, Sizes DEF Buffers
    <2> HIDE DEF b
    <2>3. QED
      BY <1>1, <1>3, <2>1, <2>2 DEF Filling, Emptying, b
  <1>4. QED
    BY <1>2, <1>3 DEF Issued, Linked, HoldsBuffer

LEMMA CopyLandsStep ==
  ASSUME IInv, TypeOK', NEW t \in Tiles, NEW s \in Strips, CopyLands(t, s)
  PROVE  IInv'
  <1>1. /\ << t, s >> \in copies /\ copies' = copies \ {<< t, s >>} /\ pc' = pc /\ tile' = tile
        /\ strip' = strip /\ full' = full /\ empty' = empty /\ links' = links
        /\ frag' = frag /\ output' = output
        /\ tsm_buf' = [tsm_buf EXCEPT ![Buf(t)][s] = t]
    BY DEF CopyLands
  <1>2. t \in Nat /\ Buf(t) \in Buffers /\ pc[0] # "init"
    BY <1>1, Halves DEF Tiles, IInv, Control
  <1>3. t = Filling(Buf(t)) /\ Issued(t, s)
    BY <1>1 DEF IInv, Memory
  <1>4. Control' /\ Order' /\ Arrivals' /\ Data'
    <2>1. Control'
      BY <1>1 DEF IInv, Control
    <2>2. Order' /\ Arrivals'
      BY <1>1 DEF IInv, Order, Arrivals, HoldsBuffer, HasPassed, Filling, Emptying, LinksOf, Gone
    <2>3. Data'
      BY <1>1 DEF IInv, Data, OutputTransposed
    <2>4. QED
      BY <2>1, <2>2, <2>3
  <1>5. \A u, r : (Linked(u, r)' <=> Linked(u, r)) /\ (Issued(u, r)' <=> Issued(u, r))
    BY <1>1 DEF Linked, Issued, HoldsBuffer
  <1>6. Memory'
    <2>1. ASSUME NEW u \in Tiles, NEW r \in Strips,
                 Issued(u, r), << u, r >> \notin copies', ~ Issued(u + 2, r)
          PROVE  tsm_buf'[Buf(u)][r] = u
      <3>1. u \in Nat /\ Buf(u) \in Buffers
        BY Halves DEF Tiles
      <3>2. CASE u = t /\ r = s
        BY <1>1, <1>2, <3>2 DEF IInv, TypeOK
      <3>3. CASE ~ (u = t /\ r = s)
        <4>1. tsm_buf[Buf(u)][r] = u
          BY <1>1, <2>1, <3>3 DEF IInv, Memory
        <4>2. Buf(u) = Buf(t) => r # s
          <5>1. SUFFICES ASSUME Buf(u) = Buf(t), r = s, u # t PROVE FALSE
            BY <3>3
          <5>2. u <= t /\ t <= tile[0]
            BY <1>2, <1>3, <2>1, <3>1, <5>1, IssuedBound DEF IInv
          <5>3. u + 2 <= t
            <6>1. u = 2 * (u \div 2) + Buf(u) /\ u \div 2 \in Nat
              BY <3>1, Halves
            <6>2. t = 2 * (t \div 2) + Buf(t) /\ t \div 2 \in Nat
              BY <1>2, Halves
            <6>3. QED
              BY <1>2, <5>1, <5>2, <6>1, <6>2 DEF Buffers
          <5>4. u + 2 = t => FALSE
            BY <1>3, <2>1, <5>1
          <5>5. u + 2 < t => Linked(u + 2, s)
            BY <1>2, <3>1, <5>2, Types, Sizes DEF Linked, IInv
          <5>6. QED
            BY <1>2, <2>1, <3>1, <5>1, <5>3, <5>4, <5>5 DEF Issued
        <4>3. QED
          BY <1>1, <1>2, <3>1, <4>1, <4>2 DEF IInv, TypeOK
      <3>4. QED
        BY <3>2, <3>3
    <2>2. \A l \in copies' \cup links' : l[1] = Filling(Buf(l[1]))'
      BY <1>1 DEF IInv, Memory, Filling
    <2>3. QED
      BY <1>1, <1>5, <2>1, <2>2 DEF IInv, Memory
  <1>7. QED
    BY <1>4, <1>6 DEF IInv

LEMMA LinkArrivesStep ==
  ASSUME IInv, TypeOK', NEW t \in Tiles, NEW s \in Strips, LinkArrives(t, s)
  PROVE  IInv'
  <1>0. PICK b \in Buffers : b = Buf(t)
    BY Halves DEF Tiles
  <1>1. /\ << t, s >> \in links /\ links' = links \ {<< t, s >>} /\ pc' = pc /\ tile' = tile
        /\ strip' = strip /\ empty' = empty /\ copies' = copies
        /\ tsm_buf' = tsm_buf /\ frag' = frag /\ output' = output
        /\ full'[b] = Arrived(full[b], 1)
        /\ \A c \in Buffers : c # b => full'[c] = full[c]
    BY <1>0 DEF LinkArrives, IInv, TypeOK
  <1>2. t \in Nat /\ pc[0] # "init" /\ t = Filling(b) /\ Linked(t, s)
    BY <1>0, <1>1 DEF Tiles, IInv, Control, Memory
  <1>3. /\ \A l \in copies \cup links : l \in Tiles \X Strips /\ l[1] \in Int /\ Buf(l[1]) \in Buffers
        /\ tile[0] \in Nat /\ \A c \in Buffers : Filling(c) \in Nat /\ Emptying(c) \in Nat
    <2>1. \A l \in copies \cup links : l \in Tiles \X Strips /\ l[1] \in Nat
      BY DEF IInv, TypeOK, Tiles
    <2>2. QED
      BY <2>1, Halves, Types, Sizes DEF IInv
  <1>4. \A c \in Buffers : /\ Emptying(c)' = Emptying(c) /\ Gone(c)' = Gone(c)
                           /\ c # b => Filling(c)' = Filling(c) /\ LinksOf(c)' = LinksOf(c)
    BY <1>0, <1>1 DEF Filling, Emptying, Gone, LinksOf
  <1>5. /\ full[b].pending \in Nat /\ full[b].pending >= 1
        /\ full[b].pending = Cardinality(LinksOf(b)) + IF tile[0] > t THEN 0 ELSE 1
        /\ Cardinality(LinksOf(b)) \in Nat
        /\ LinksOf(b)' = LinksOf(b) \ {<< t, s >>} /\ << t, s >> \in LinksOf(b)
        /\ Cardinality(LinksOf(b)') = Cardinality(LinksOf(b)) - 1 /\ Cardinality(LinksOf(b)') \in Nat
    <2>1. LinksOf(b)' = LinksOf(b) \ {<< t, s >>} /\ << t, s >> \in LinksOf(b)
      BY <1>0, <1>1 DEF LinksOf
    <2>2. /\ full[b].pending \in Nat /\ full[b].pending >= 1
          /\ full[b].pending = Cardinality(LinksOf(b)) + IF tile[0] > t THEN 0 ELSE 1
      BY <1>2, Types DEF IInv, Arrivals
    <2>3. /\ Cardinality(LinksOf(b)) \in Nat
          /\ Cardinality(LinksOf(b)') = Cardinality(LinksOf(b)) - 1
          /\ IsFiniteSet(LinksOf(b)')
      BY <2>1, FiniteSets, FS_RemoveElement, FS_CardinalityType DEF IInv
    <2>4. QED
      BY <2>1, <2>2, <2>3, FS_CardinalityType
  <1>6. tile[0] <= t + 2 /\ t <= tile[0]
    <2>1. t <= tile[0]
      BY <1>2, IssuedBound DEF Issued, IInv
    <2>2. tile[0] <= Emptying(b) + 2 /\ Emptying(b) <= tile[1] + 1 /\ tile[1] <= Filling(b)
      BY <1>2, Sizes DEF IInv, Order
    <2>3. full[b].phase \in Nat /\ empty[b].phase \in Nat /\ tile[1] \in Nat /\ b \in {0, 1}
      BY Types, Sizes DEF IInv, Buffers
    <2>4. QED
      BY <1>2, <1>3, <2>1, <2>2, <2>3 DEF Filling, Emptying
  <1>7. \/ /\ full[b].pending > 1 /\ Filling(b)' = t
           /\ full'[b].pending = full[b].pending - 1
        \/ /\ LinksOf(b)' = {} /\ tile[0] > t /\ Filling(b)' = t + 2
           /\ full'[b].pending = 1
    <2>1. CASE full[b].pending = 1
      <3>1. tile[0] > t /\ Cardinality(LinksOf(b)') = 0
        BY <1>2, <1>3, <1>5, <2>1
      <3>2. LinksOf(b)' = {}
        <4>1. IsFiniteSet(LinksOf(b)')
          BY <1>5, FiniteSets, FS_RemoveElement DEF IInv
        <4>2. QED
          BY <3>1, <4>1, FS_EmptySet
      <3>3. full'[b].phase = full[b].phase + 1 /\ full'[b].pending = 1
        BY <1>1, <2>1 DEF Arrived
      <3>4. QED
        BY <1>2, <3>1, <3>2, <3>3, Types DEF Filling, IInv, Buffers
    <2>2. CASE full[b].pending # 1
      <3>1. full'[b].phase = full[b].phase /\ full'[b].pending = full[b].pending - 1
        BY <1>1, <2>2 DEF Arrived
      <3>2. QED
        BY <1>2, <1>5, <2>2, <3>1 DEF Filling
    <2>3. QED
      BY <2>1, <2>2
  <1>8. Control' /\ Data'
    <2>1. Control'
      BY <1>1 DEF IInv, Control
    <2>2. Data'
      BY <1>1 DEF IInv, Data, OutputTransposed
    <2>3. QED
      BY <2>1, <2>2
  <1>9. Order'
    <2>1. ASSUME NEW c \in Buffers
          PROVE  /\ Filling(c)' <= tile[0] + 1
                 /\ \A w \in Consumers : tile[w] <= Filling(c)' /\ (HasPassed(w) => tile[w] # Filling(c)')
      <3>1. /\ Filling(c) <= tile[0] + 1
            /\ \A w \in Consumers :
                 tile[w] \in Nat /\ tile[w] <= Filling(c) /\ (HasPassed(w) => tile[w] # Filling(c))
        BY <1>2, Types, Sizes DEF IInv, Order
      <3>2. CASE c = b
        BY <1>2, <1>3, <1>7, <3>1, <3>2
      <3>3. CASE c # b
        BY <1>4, <3>1, <3>3
      <3>4. QED
        BY <3>2, <3>3
    <2>2. QED
      BY <1>1, <1>4, <2>1 DEF IInv, Order, HoldsBuffer, HasPassed
  <1>10. Arrivals'
    <2>1. ASSUME NEW c \in Buffers
          PROVE  /\ full'[c].pending >= 1
                 /\ full'[c].pending = Cardinality(LinksOf(c)') + IF tile[0] > Filling(c)' THEN 0 ELSE 1
      <3>1. CASE c = b
        <4>1. LinksOf(b)' = {} => Cardinality(LinksOf(b)') = 0
          BY FS_EmptySet
        <4>2. LinksOf(c)' = LinksOf(b)' /\ Filling(c)' = Filling(b)'
          BY <3>1
        <4>3. QED
          <5>1. CASE Filling(b)' = t /\ full'[b].pending = full[b].pending - 1 /\ full[b].pending > 1
            <6>1. /\ full'[b].pending >= 1
                  /\ full'[b].pending = Cardinality(LinksOf(b)') + IF tile[0] > t THEN 0 ELSE 1
              BY <1>3, <1>5, <5>1
            <6>2. QED
              BY <3>1, <4>2, <5>1, <6>1
          <5>2. CASE LinksOf(b)' = {} /\ Filling(b)' = t + 2 /\ full'[b].pending = 1
            BY <1>2, <1>3, <1>6, <3>1, <4>1, <4>2, <5>2
          <5>3. QED
            BY <1>7, <5>1, <5>2
      <3>2. CASE c # b
        BY <1>1, <1>2, <1>4, <3>2 DEF IInv, Arrivals
      <3>3. QED
        BY <3>1, <3>2
    <2>2. QED
      BY <1>1, <1>4, <2>1 DEF IInv, Arrivals
  <1>11. \A u, r : (Linked(u, r)' <=> Linked(u, r)) /\ (Issued(u, r)' <=> Issued(u, r))
    BY <1>1 DEF Linked, Issued, HoldsBuffer
  <1>12. Memory'
    <2>1. \A c \in copies : Linked(c[1], c[2]) => c \in links'
      <3>1. << t, s >> \notin copies
        BY <1>2, Sizes DEF LinkArrives, Prior
      <3>2. QED
        BY <1>1, <3>1 DEF IInv, Memory
    <2>2. ASSUME NEW l \in copies \cup links' PROVE l[1] = Filling(Buf(l[1]))'
      <3>1. l[1] = Filling(Buf(l[1])) /\ Buf(l[1]) \in Buffers /\ l[1] \in Int
        BY <1>1, <1>3, <2>2 DEF IInv, Memory
      <3>2. CASE Buf(l[1]) # b
        BY <1>4, <3>1, <3>2
      <3>3. CASE Buf(l[1]) = b
        <4>1. LinksOf(b)' # {} \/ tile[0] <= t
          <5>1. l \in links' => l \in LinksOf(b)'
            BY <3>3 DEF LinksOf
          <5>2. tile[0] > t => l \in links'
            BY <1>2, <1>3, <2>1, <2>2, <3>1, <3>3 DEF Linked
          <5>3. QED
            BY <1>2, <1>3, <5>1, <5>2
        <4>2. Filling(b)' = t
          BY <1>2, <1>3, <1>7, <4>1
        <4>3. QED
          BY <1>2, <3>1, <3>3, <4>2
      <3>4. QED
        BY <3>2, <3>3
    <2>3. QED
      BY <1>1, <1>11, <2>1, <2>2 DEF IInv, Memory
  <1>13. QED
    BY <1>8, <1>9, <1>10, <1>12 DEF IInv

\* A consumer that has passed its full barrier has the tile, until it arrives.
LEMMA Reading ==
  ASSUME IInv, NEW w \in Consumers, HasPassed(w)
  PROVE  /\ tsm_buf[Buf(tile[w])][w - 1] = tile[w]
         /\ \A c \in copies : c[2] = w - 1 => Buf(c[1]) # Buf(tile[w])
  <1> DEFINE t == tile[w]  b == Buf(t)
  <1>1. pc[0] # "init" /\ t \in Nat /\ b \in Buffers
    BY Types, Sizes, Halves DEF IInv, Control, HasPassed
  <1>2. t \in Tiles /\ w - 1 \in Strips
    BY Types, Sizes DEF IInv, Control, HasPassed, Tiles
  <1>3. Filling(b) = t + 2 /\ Emptying(b) = t /\ tile[0] > t
    BY <1>1, Behind DEF IInv
  <1>4. Buf(t + 2) = b
    BY <1>1 DEF Buf
  <1>5. ~ Issued(t + 2, w - 1)
    BY <1>1, <1>3, <1>4, IssuedBound DEF IInv
  <1>6. << t, w - 1 >> \notin copies
    BY <1>1, <1>3 DEF IInv, Memory
  <1>7. Issued(t, w - 1)
    BY <1>3 DEF Issued, Linked
  <1>8. ASSUME NEW c \in copies, Buf(c[1]) = b PROVE FALSE
    <2>1. c[1] \in Nat /\ c[1] = t + 2 /\ Issued(c[1], c[2])
      BY <1>3, <1>8 DEF IInv, Memory, TypeOK, Tiles
    <2>2. QED
      BY <1>1, <1>3, <1>4, <2>1, IssuedBound DEF IInv
  <1>9. QED
    BY <1>2, <1>5, <1>6, <1>7, <1>8 DEF IInv, Memory

\* A step of a consumer other than the last of a tile leaves the barriers and the
\* memory alone.
LEMMA ConsumerFrame ==
  ASSUME IInv, NEW w \in Consumers, NEW next \in {"load", "store", "arrive"},
         pc[w] \in {"wait", "load", "store"},
         pc' = [pc EXCEPT ![w] = next],
         HasPassed(w) \/ tile[w] # Filling(Buf(tile[w])),
         UNCHANGED << tile, strip, full, empty, copies, links, tsm_buf >>
  PROVE  Control' /\ Order' /\ Arrivals' /\ Memory'
  <1>1. /\ pc'[0] = pc[0] /\ pc'[w] = next
        /\ \A v \in Consumers : v # w => pc'[v] = pc[v]
    BY Sizes DEF IInv, TypeOK
  <1>2. Control'
    <2>1. \A v \in Warps : /\ pc[v] = "done" <=> pc'[v] = "done"
                           /\ pc'[v] \in {"init", "sync"} => pc[v] \in {"init", "sync"}
      BY Sizes DEF IInv, TypeOK
    <2>2. QED
      BY <1>1, <2>1 DEF IInv, Control
  <1>3. \A b \in Buffers : tile[w] # Filling(b)
    <2>1. tile[w] # Filling(Buf(tile[w])) /\ \A b \in Buffers : Buf(Filling(b)) = b
      <3>1. pc[0] # "init"
        BY DEF IInv, Control
      <3>2. tile[w] \in Nat /\ (HasPassed(w) => Filling(Buf(tile[w])) = tile[w] + 2)
        BY <3>1, Behind, Types, Sizes DEF IInv
      <3>3. QED
        BY <3>2, Types DEF IInv
    <2>2. QED
      BY <2>1
  <1>4. Order'
    BY <1>1, <1>3 DEF IInv, Order, HoldsBuffer, HasPassed, Filling, Emptying
  <1>5. Arrivals'
    BY <1>1 DEF IInv, Arrivals, LinksOf, Gone, Filling, Emptying
  <1>6. \A u, s : (Linked(u, s)' <=> Linked(u, s)) /\ (Issued(u, s)' <=> Issued(u, s))
    BY <1>1 DEF Linked, Issued, HoldsBuffer
  <1>7. Memory'
    BY <1>6 DEF IInv, Memory, Filling
  <1>8. QED
    BY <1>2, <1>4, <1>5, <1>7

LEMMA WaitFullStep ==
  ASSUME IInv, TypeOK', NEW w \in Consumers, WaitFull(w)
  PROVE  IInv'
  <1> DEFINE t == tile[w]  b == Buf(t)
  <1>1. pc[w] = "wait" /\ pc[0] # "init" /\ pc' = [pc EXCEPT ![w] = "load"]
    BY DEF WaitFull, At, IInv, Control
  <1>2. t \in Nat /\ b \in Buffers /\ t = 2 * (t \div 2) + b /\ t \div 2 \in Nat
    BY Types, Sizes, Halves DEF IInv
  <1>3. Filling(b) # t
    <2>1. full[b].phase % 2 # (t \div 2) % 2
      BY DEF WaitFull, Passed, FullParity
    <2>2. full[b].phase \in Nat /\ b \in {0, 1}
      BY <1>2, Types DEF IInv, Buffers
    <2>3. full[b].phase # t \div 2
      BY <2>1
    <2> HIDE DEF t, b
    <2>4. QED
      BY <1>2, <2>2, <2>3 DEF Filling
  <1>4. Control' /\ Order' /\ Arrivals' /\ Memory'
    BY <1>1, <1>3, ConsumerFrame DEF WaitFull
  <1>5. Data'
    <2>1. \A v \in Consumers : (pc'[v] = "store" <=> pc[v] = "store") /\ (pc'[v] = "arrive" <=> pc[v] = "arrive")
      BY <1>1, Sizes DEF IInv, TypeOK
    <2>2. QED
      BY <2>1 DEF IInv, Data, OutputTransposed, WaitFull
  <1>6. QED
    BY <1>4, <1>5 DEF IInv

LEMMA LoadStripStep ==
  ASSUME IInv, TypeOK', NEW w \in Consumers, LoadStrip(w)
  PROVE  IInv'
  <1>1. /\ pc[w] = "load" /\ pc' = [pc EXCEPT ![w] = "store"] /\ HasPassed(w)
        /\ frag' = [frag EXCEPT ![w] = tile[w]] /\ tile' = tile /\ output' = output
    BY Reading DEF LoadStrip, At, HasPassed
  <1>2. Control' /\ Order' /\ Arrivals' /\ Memory'
    BY <1>1, ConsumerFrame DEF LoadStrip
  <1>3. Data'
    <2>1. \A v \in Consumers : /\ pc'[v] = "arrive" <=> pc[v] = "arrive"
                               /\ pc'[v] = "store" => v = w \/ pc[v] = "store"
      BY <1>1, Sizes DEF IInv, TypeOK
    <2>2. \A v \in Consumers : frag'[v] = IF v = w THEN tile[w] ELSE frag[v]
      BY <1>1 DEF IInv, TypeOK
    <2>3. QED
      BY <1>1, <2>1, <2>2 DEF IInv, Data, OutputTransposed
  <1>4. QED
    BY <1>2, <1>3 DEF IInv

LEMMA StoreStripStep ==
  ASSUME IInv, TypeOK', NEW w \in Consumers, StoreStrip(w)
  PROVE  IInv'
  <1>1. /\ pc[w] = "store" /\ pc' = [pc EXCEPT ![w] = "arrive"] /\ HasPassed(w)
        /\ frag' = frag /\ tile' = tile /\ output' = [output EXCEPT ![tile[w]][w - 1] = frag[w]]
    BY DEF StoreStrip, At, HasPassed
  <1>2. Control' /\ Order' /\ Arrivals' /\ Memory'
    <2>1. UNCHANGED << tile, strip, full, empty, copies, links, tsm_buf >>
      BY DEF StoreStrip
    <2>2. /\ pc[w] \in {"wait", "load", "store"} /\ pc' = [pc EXCEPT ![w] = "arrive"]
          /\ "arrive" \in {"load", "store", "arrive"} /\ HasPassed(w)
      BY <1>1
    <2>3. \A next \in {"load", "store", "arrive"} :
            pc' = [pc EXCEPT ![w] = next] => Control' /\ Order' /\ Arrivals' /\ Memory'
      BY <2>1, <2>2, ConsumerFrame
    <2>4. QED
      BY <2>2, <2>3
  <1>3. Data'
    <2>1. \A v \in Consumers : /\ v # w => (pc'[v] = "arrive" <=> pc[v] = "arrive")
                               /\ v = w => pc'[v] = "arrive"
                               /\ pc'[v] = "store" => pc[v] = "store"
      BY <1>1, Sizes DEF IInv, TypeOK
    <2>2. frag[w] = tile[w] /\ tile[w] \in Tiles
      BY <1>1, Types, Sizes DEF IInv, Data, Control, Tiles
    <2>3. \A t \in Tiles, v \in Consumers :
            output'[t][v - 1] = IF t = tile[w] /\ v = w THEN tile[w] ELSE output[t][v - 1]
      <3>1. \A v \in Consumers : v \in Int /\ v - 1 \in Strips
        BY Sizes DEF Consumers
      <3>2. ASSUME NEW t \in Tiles, NEW v \in Consumers
            PROVE  output'[t][v - 1] = IF t = tile[w] /\ v = w THEN tile[w] ELSE output[t][v - 1]
        <4>1. output'[t] = IF t = tile[w] THEN [output[t] EXCEPT ![w - 1] = tile[w]] ELSE output[t]
          BY <1>1, <2>2 DEF IInv, TypeOK
        <4>2. v - 1 \in Strips /\ w - 1 \in Strips /\ (v - 1 = w - 1 <=> v = w)
          BY <3>1
        <4>3. output[t] \in [Strips -> Tiles \cup {Garbage}]
          BY DEF IInv, TypeOK
        <4>4. QED
          BY <4>1, <4>2, <4>3
      <3>3. QED
        BY <3>2
    <2>4. \A t \in Tiles : t \in Int
      BY DEF Tiles
    <2>5. OutputTransposed'
      BY <1>1, <2>1, <2>2, <2>3, <2>4, Sizes, Types DEF IInv, Data, OutputTransposed
    <2>6. QED
      BY <1>1, <2>1, <2>5 DEF IInv, Data
  <1>4. QED
    BY <1>2, <1>3 DEF IInv

LEMMA ArriveEmptyStep ==
  ASSUME IInv, TypeOK', NEW w \in Consumers, ArriveEmpty(w)
  PROVE  IInv'
  <1>0. PICK t \in Nat, b \in Buffers : t = tile[w] /\ b = Buf(t)
    BY Types, Sizes, Halves DEF IInv
  <1>1. /\ pc[w] = "arrive" /\ tile'[w] = t + 1 /\ pc'[w] = IF t + 1 < NumTiles THEN "wait" ELSE "done"
        /\ pc'[0] = pc[0] /\ tile'[0] = tile[0]
        /\ \A v \in Consumers : v # w => pc'[v] = pc[v] /\ tile'[v] = tile[v]
        /\ strip' = strip /\ full' = full /\ copies' = copies /\ links' = links
        /\ tsm_buf' = tsm_buf /\ frag' = frag /\ output' = output
    BY <1>0, Sizes DEF ArriveEmpty, NextTile, At, IInv, TypeOK
  <1>2. pc[0] # "init" /\ HasPassed(w) /\ t < NumTiles
    BY <1>0, <1>1, Types, Sizes DEF IInv, Control, HasPassed
  <1>3. Filling(b) = t + 2 /\ Emptying(b) = t /\ tile[0] > t
    BY <1>0, <1>2, Behind DEF IInv
  <1>4. /\ empty'[b] = Arrived(empty[b], NumStrips)
        /\ \A c \in Buffers : c # b => empty'[c] = empty[c]
    BY <1>0 DEF ArriveEmpty, IInv, TypeOK
  <1>5. \A c \in Buffers : /\ Filling(c)' = Filling(c) /\ LinksOf(c)' = LinksOf(c)
                           /\ c # b => Emptying(c)' = Emptying(c)
    BY <1>1, <1>4 DEF Filling, Emptying, LinksOf
  <1>6. /\ tile[0] \in Nat /\ \A v \in Consumers : tile[v] \in Nat
        /\ \A c \in Buffers : Filling(c) \in Nat /\ Emptying(c) \in Nat
    BY Types, Sizes DEF IInv
  <1>7. \A c \in Buffers :
          /\ Filling(c) <= tile[0] + 1 /\ tile[0] <= Emptying(c) + 2
          /\ HoldsBuffer => tile[0] # Emptying(c) + 2
          /\ \A v \in Consumers : /\ Emptying(c) <= tile[v] + 1 /\ tile[v] <= Filling(c)
                                  /\ HasPassed(v) => tile[v] # Filling(c)
    BY <1>2 DEF IInv, Order
  <1>8. /\ empty[b].pending \in Nat /\ empty[b].pending >= 1
        /\ empty[b].pending + Cardinality(Gone(b)) = NumStrips
        /\ IsFiniteSet(Gone(b)) /\ Cardinality(Gone(b)) \in Nat
        /\ w \notin Gone(b) /\ Gone(b) \subseteq Consumers
        /\ Cardinality(Gone(b) \cup {w}) = Cardinality(Gone(b)) + 1
    <2>1. w \notin Gone(b) /\ Gone(b) \subseteq Consumers
      BY <1>0, <1>3, <1>6 DEF Gone
    <2>2. IsFiniteSet(Gone(b)) /\ Cardinality(Gone(b)) \in Nat
      BY FiniteSets, FS_CardinalityType DEF IInv
    <2>3. Cardinality(Gone(b) \cup {w}) = Cardinality(Gone(b)) + 1
      BY <2>1, <2>2, FS_AddElement
    <2>4. QED
      BY <1>2, <2>1, <2>2, <2>3, Types DEF IInv, Arrivals
  \* Either other consumers are still to arrive, or this was the last of them.
  <1>9. \/ /\ empty[b].pending > 1 /\ Emptying(b)' = t
           /\ empty'[b].pending = empty[b].pending - 1
        \/ /\ \A v \in Consumers : v # w => tile[v] > t
           /\ Emptying(b)' = t + 2 /\ empty'[b].pending = NumStrips
    <2>1. CASE empty[b].pending = 1
      <3>1. Gone(b) \cup {w} = Consumers
        <4>1. Cardinality(Gone(b) \cup {w}) = Cardinality(Consumers)
          BY <1>8, <2>1, Sizes
        <4>2. Gone(b) \cup {w} \subseteq Consumers
          BY <1>8
        <4>3. QED
          BY <4>1, <4>2, Sizes, FS_Subset
      <3>2. \A v \in Consumers : v # w => tile[v] > t
        BY <1>3, <3>1 DEF Gone
      <3>3. empty'[b].phase = empty[b].phase + 1 /\ empty'[b].pending = NumStrips
        BY <1>4, <2>1 DEF Arrived
      <3>4. Emptying(b)' = t + 2
        <4>1. empty[b].phase \in Nat /\ b \in {0, 1} /\ 2 * empty[b].phase + b = t
          BY <1>3, Types DEF Emptying, IInv, Buffers
        <4>2. Emptying(b)' = 2 * (empty[b].phase + 1) + b
          BY <3>3 DEF Emptying
        <4>3. \A n, m \in Nat : 2 * n + m = t => 2 * (n + 1) + m = t + 2
          BY <1>0
        <4>4. QED
          BY <4>1, <4>2, <4>3
      <3>5. QED
        BY <3>2, <3>3, <3>4
    <2>2. CASE empty[b].pending # 1
      <3>1. empty'[b].phase = empty[b].phase /\ empty'[b].pending = empty[b].pending - 1
        BY <1>4, <2>2 DEF Arrived
      <3>2. QED
        BY <1>3, <1>8, <2>2, <3>1 DEF Emptying
    <2>3. QED
      BY <2>1, <2>2
  <1>10. Control'
    <2>1. t + 1 = NumTiles <=> ~ (t + 1 < NumTiles)
      BY <1>2, Sizes
    <2>2. \A v \in Warps : v = w \/ v = 0 \/ (v \in Consumers /\ v # w)
      BY Sizes DEF Warps, Consumers
    <2>3. \A v \in Warps : /\ tile'[v] = NumTiles <=> pc'[v] = "done"
                           /\ pc'[v] \in {"init", "sync"} => tile'[v] = 0
      BY <1>1, <1>2, <2>1, <2>2 DEF IInv, Control
    <2>4. QED
      BY <1>1, <1>2, <2>3 DEF IInv, Control
  <1>11. Order'
    <2>1. ASSUME NEW c \in Buffers
          PROVE  /\ tile[0] <= Emptying(c)' + 2
                 /\ HoldsBuffer => tile[0] # Emptying(c)' + 2
                 /\ \A v \in Consumers :
                      /\ Emptying(c)' <= tile'[v] + 1 /\ tile'[v] <= Filling(c)
                      /\ HasPassed(v)' => tile'[v] # Filling(c)
      <3>1. \A v \in Consumers : v # w => (HasPassed(v)' <=> HasPassed(v))
        BY <1>1 DEF HasPassed
      <3>2. ~ HasPassed(w)'
        BY <1>1 DEF HasPassed
      <3>3. CASE c = b
        <4>1. HoldsBuffer => tile[0] # t + 4
          BY <1>3, <1>6, <1>7
        <4>2. QED
          BY <1>1, <1>3, <1>6, <1>7, <1>9, <3>1, <3>2, <3>3, <4>1
      <3>4. CASE c # b
        <4>1. t + 1 <= Filling(c)
          BY <1>0, <1>2, <1>6, <1>7
        <4>2. QED
          BY <1>0, <1>1, <1>5, <1>6, <1>7, <3>1, <3>2, <3>4, <4>1
      <3>5. QED
        BY <3>3, <3>4
    <2>2. HoldsBuffer' <=> HoldsBuffer
      BY <1>1 DEF HoldsBuffer
    <2>3. QED
      BY <1>1, <1>5, <1>7, <2>1, <2>2 DEF Order
  <1>12. Arrivals'
    <2>1. ASSUME NEW c \in Buffers
          PROVE  empty'[c].pending >= 1 /\ empty'[c].pending + Cardinality(Gone(c)') = NumStrips
      <3>1. CASE c # b
        <4>1. Gone(c)' = Gone(c)
          <5>1. t # Emptying(c)
            BY <1>0, <3>1, Types DEF IInv
          <5>2. t + 1 > Emptying(c) <=> t > Emptying(c)
            BY <1>6, <5>1
          <5>3. QED
            BY <1>0, <1>1, <1>5, <3>1, <5>2 DEF Gone
        <4>2. QED
          BY <1>2, <1>4, <3>1, <4>1 DEF IInv, Arrivals
      <3>2. CASE c = b
        <4>1. CASE /\ empty[b].pending > 1 /\ Emptying(b)' = t
                   /\ empty'[b].pending = empty[b].pending - 1
          <5>1. Gone(b)' = Gone(b) \cup {w}
            BY <1>1, <1>3, <1>6, <4>1 DEF Gone
          <5>2. QED
            BY <1>8, <3>2, <4>1, <5>1, Sizes
        <4>2. CASE Emptying(b)' = t + 2 /\ empty'[b].pending = NumStrips
          <5>1. \A v \in Consumers : ~ (tile'[v] > t + 2)
            BY <1>0, <1>1, <1>3, <1>6, <1>7
          <5>2. Gone(b)' = {}
            BY <4>2, <5>1 DEF Gone
          <5>3. QED
            BY <3>2, <4>2, <5>2, FS_EmptySet, Sizes
        <4>3. QED
          BY <1>9, <4>1, <4>2
      <3>3. QED
        BY <3>1, <3>2
    <2>2. QED
      BY <1>1, <1>5, <2>1 DEF IInv, Arrivals
  <1>13. Memory'
    <2>1. \A u, s : (Linked(u, s)' <=> Linked(u, s)) /\ (Issued(u, s)' <=> Issued(u, s))
      BY <1>1 DEF Linked, Issued, HoldsBuffer
    <2>2. QED
      BY <1>1, <2>1 DEF IInv, Memory, Filling
  <1>14. Data'
    <2>1. \A v \in Consumers, u \in Tiles :
            (u < tile'[v] \/ (u = tile'[v] /\ pc'[v] = "arrive"))
              <=> (u < tile[v] \/ (u = tile[v] /\ pc[v] = "arrive"))
      BY <1>0, <1>1 DEF Tiles
    <2>2. \A v \in Consumers : pc'[v] = "store" => v # w
      BY <1>1
    <2>3. QED
      BY <1>1, <2>1, <2>2 DEF IInv, Data, OutputTransposed
  <1>15. QED
    BY <1>10, <1>11, <1>12, <1>13, <1>14 DEF IInv

LEMMA StepIInv == IInv /\ [Next]_vars => IInv'
  <1> SUFFICES ASSUME IInv, [Next]_vars PROVE IInv'
    OBVIOUS
  <1>1. TypeOK'
    BY TypeStep
  <1>2. CASE Producer
    BY <1>1, <1>2, InitBarriersStep, WaitEmptyStep, CopyStripStep, LinkStripStep, ArriveFullStep DEF Producer
  <1>3. CASE Sync
    BY <1>1, <1>3, SyncStep
  <1>4. CASE Engine
    BY <1>1, <1>4, CopyLandsStep, LinkArrivesStep DEF Engine
  <1>5. CASE \E w \in Consumers : Consumer(w)
    BY <1>1, <1>5, WaitFullStep, LoadStripStep, StoreStripStep, ArriveEmptyStep DEF Consumer
  <1>6. CASE UNCHANGED vars
    <2>1. Control' /\ Order' /\ Arrivals'
      BY <1>6 DEF IInv, Control, Order, Arrivals, HoldsBuffer, HasPassed, Filling, Emptying, LinksOf, Gone, vars
    <2>2. \A u, s : (Linked(u, s)' <=> Linked(u, s)) /\ (Issued(u, s)' <=> Issued(u, s))
      BY <1>6 DEF Linked, Issued, HoldsBuffer, vars
    <2>3. Memory'
      BY <1>6, <2>2 DEF IInv, Memory, Filling, vars
    <2>4. Data'
      BY <1>6 DEF IInv, Data, OutputTransposed, vars
    <2>5. QED
      BY <1>1, <2>1, <2>3, <2>4 DEF IInv
  <1>7. QED
    BY <1>2, <1>3, <1>4, <1>5, <1>6 DEF Next

LEMMA Invariance == Spec => []IInv
  BY InitIInv, StepIInv, PTL DEF Spec

-------------------------------------------------------------------------------
(* The theorems                                                            *)

\* The variables have their types, and every loop stays within its bounds.
THEOREM TypeCorrect == Spec => []TypeOK
  BY Invariance, PTL DEF IInv

\* A consumer never reads a strip that is not all there, is another tile's, or is
\* being copied to (transpose.hg: the waits for the full and the empty barriers).
THEOREM StripsHeld == Spec => []StripHeldWhileRead
  <1>1. IInv => StripHeldWhileRead
    <2> SUFFICES ASSUME IInv, NEW w \in Consumers, pc[w] = "load"
                 PROVE  /\ tsm_buf[Buf(tile[w])][w - 1] = tile[w]
                        /\ \A c \in copies : c[2] = w - 1 => Buf(c[1]) # Buf(tile[w])
      BY DEF StripHeldWhileRead
    <2>1. QED
      BY Reading DEF HasPassed
  <1>2. QED
    BY <1>1, Invariance, PTL

\* What is stored is the transposed matrix, tile by tile, whatever the order in which
\* copies land and warps run.
THEOREM Transposes == Spec => []OutputTransposed
  BY Invariance, PTL DEF IInv, Data

\* Parities suffice: a waiting warp is at most one phase behind its barrier.
THEOREM ParitySuffices == Spec => []ParityUnambiguous
  <1>1. ASSUME IInv, NEW w \in Consumers, pc[w] = "wait"
        PROVE  LET t == tile[w] IN
                 Passed(full[Buf(t)], FullParity(t)) <=> full[Buf(t)].phase > t \div 2
    <2>1. PICK t \in Nat, b \in Buffers, r \in Nat : t = tile[w] /\ b = Buf(t) /\ r = t \div 2
      BY <1>1, Types, Sizes, Halves DEF IInv
    <2>2. r \in Nat /\ t = 2 * r + b /\ b \in {0, 1} /\ full[b].phase \in Nat
      BY <1>1, <2>1, Halves, Types DEF IInv, Buffers
    <2>3. 2 * full[b].phase + b \in {t, t + 2}
      BY <1>1, <2>1, Behind DEF IInv, Control, Filling
    <2>4. \A n, i \in Nat : t = 2 * r + i /\ 2 * n + i \in {t, t + 2} => n \in {r, r + 1}
      BY <2>1
    <2>5. full[b].phase \in {r, r + 1}
      BY <2>2, <2>3, <2>4
    <2>6. full[b].phase % 2 # r % 2 <=> full[b].phase = r + 1
      BY <2>2, <2>5, ParityTells
    <2>7. full[b].phase % 2 # r % 2 <=> full[b].phase > r
      BY <2>2, <2>5, <2>6
    <2>8. QED
      BY <2>1, <2>7 DEF Passed, FullParity
  <1>2. ASSUME IInv, pc[0] = "wait"
        PROVE  LET t == tile[0] IN
                 Passed(empty[Buf(t)], EmptyParity(t)) <=> empty[Buf(t)].phase >= t \div 2
    <2>1. PICK t \in Nat, b \in Buffers, r \in Nat : t = tile[0] /\ b = Buf(t) /\ r = t \div 2
      BY <1>2, Types, Sizes, Halves DEF IInv
    <2>2. /\ r \in Nat /\ t = 2 * r + b /\ b \in {0, 1}
          /\ empty[b].phase \in Nat /\ full[b].phase \in Nat /\ tile[1] \in Nat
      BY <1>2, <2>1, Halves, Types, Sizes DEF IInv, Buffers
    <2>3. /\ t <= 2 * empty[b].phase + b + 2 /\ 2 * empty[b].phase + b <= tile[1] + 1
          /\ tile[1] <= 2 * full[b].phase + b /\ 2 * full[b].phase + b <= t + 1
      BY <1>2, <2>1, Sizes DEF IInv, Order, Filling, Emptying
    <2>4. /\ \A n, i \in Nat : 2 * r + i <= 2 * n + i + 2 => r <= n + 1
          /\ \A n, m, i, u \in Nat : 2 * n + i <= u + 1 /\ u <= 2 * m + i => n <= m
          /\ \A m, i \in Nat : 2 * m + i <= 2 * r + i + 1 => m <= r
      BY <2>1
    <2>5. empty[b].phase + 1 \in {r, r + 1}
      <3>1. r <= empty[b].phase + 1 /\ empty[b].phase <= full[b].phase /\ full[b].phase <= r
        BY <2>2, <2>3, <2>4
      <3>2. QED
        BY <2>2, <3>1
    <2>6. empty[b].phase % 2 # (r + 1) % 2 <=> empty[b].phase = r
      BY <2>2, <2>5, ParityTells
    <2>7. empty[b].phase % 2 # (r + 1) % 2 <=> empty[b].phase >= r
      BY <2>2, <2>5, <2>6
    <2>8. QED
      BY <2>1, <2>7 DEF Passed, EmptyParity
  <1>3. IInv => ParityUnambiguous
    BY <1>1, <1>2 DEF ParityUnambiguous
  <1>4. QED
    BY <1>3, Invariance, PTL

\* No copy and no arrival of a block is left when its warps have ended.
THEOREM NothingLeft == Spec => []NothingOutlivesBlock
  <1>1. ASSUME IInv, \A w \in Warps : pc[w] = "done"
        PROVE  copies = {} /\ links = {}
    <2>1. pc[0] = "done" /\ tile[0] = NumTiles /\ tile[1] = NumTiles /\ pc[0] # "init"
      BY <1>1, Sizes DEF IInv, Control
    <2>2. ASSUME NEW l \in copies \cup links
          PROVE  l[1] < NumTiles /\ Buf(l[1]) \in Buffers /\ l[1] = Filling(Buf(l[1]))
      <3>1. l[1] \in Tiles
        BY <1>1 DEF IInv, TypeOK
      <3>2. QED
        BY <1>1, <3>1, Halves, Sizes DEF IInv, Memory, Tiles
    <2>3. \A b \in Buffers : Filling(b) >= NumTiles
      BY <1>1, <2>1, Sizes, Types DEF IInv, Order
    <2>4. copies \cup links = {}
      BY <1>1, <2>2, <2>3, Sizes, Types DEF IInv
    <2>5. QED
      BY <2>4
  <1>2. IInv => NothingOutlivesBlock
    BY <1>1 DEF NothingOutlivesBlock
  <1>3. QED
    BY <1>2, Invariance, PTL

-------------------------------------------------------------------------------
(* The kernel implements the pipeline                                      *)

Filled == IF pc[0] \in {"init", "sync"} THEN 0 ELSE full[0].phase + full[1].phase

Taken == [w \in Consumers |-> tile[w]]

\* The tiles 2n + b and 2m + c of the two buffers b and c bound n + m.
LEMMA PhaseSums ==
  ASSUME NEW b \in Nat, NEW c \in Nat, b + c = 1, NEW n \in Nat, NEW m \in Nat
  PROVE  /\ \A size, t \in Nat :
              2 * n + b < size /\ 2 * m + c <= t + 1 /\ t <= size => n + m < size
         /\ \A t \in Nat : 2 * n + b = t + 2 /\ t <= 2 * m + c => t < n + m
         /\ \A t, u \in Nat : 2 * n + b <= u + 1 /\ 2 * m + c <= t + 1 /\ t <= u + 2
                                => n + m < u + 2
  OBVIOUS

\* A full barrier that ends its phase makes the next tile available, while the
\* slowest consumer is less than two tiles behind.
LEMMA FillStep ==
  ASSUME IInv, pc[0] \notin {"init", "sync"}, pc'[0] \notin {"init", "sync"},
         NEW b \in Buffers, \E s \in Strips : Issued(Filling(b), s),
         Filling(b) < NumTiles,
         full'[b].phase = full[b].phase + 1, \A c \in Buffers : c # b => full'[c] = full[c],
         \A w \in Consumers : tile'[w] = tile[w]
  PROVE  Pipeline!Fill
  <1>1. PICK c \in Buffers : c # b /\ {b, c} = {0, 1}
    BY DEF Buffers
  <1>2. /\ tile[0] \in Nat /\ tile[0] <= NumTiles /\ NumTiles \in Nat
        /\ \A w \in Consumers : tile[w] \in Nat
        /\ full[b].phase \in Nat /\ full[c].phase \in Nat
        /\ empty[b].phase \in Nat /\ empty[c].phase \in Nat /\ Filling(b) \in Nat
        /\ Buf(Filling(b)) = b
    BY Types, Sizes DEF IInv
  <1>3. Filling(b) <= Emptying(b) /\ Filling(b) <= tile[0]
    BY <1>2, IssuedBound DEF IInv
  <1>4. /\ Filling(c) <= tile[0] + 1 /\ tile[0] <= Emptying(b) + 2 /\ tile[0] <= Emptying(c) + 2
        /\ \A w \in Consumers : Emptying(b) <= tile[w] + 1 /\ Emptying(c) <= tile[w] + 1
    BY DEF IInv, Order
  <1>5. full'[b].phase + full'[c].phase = full[b].phase + full[c].phase + 1
    BY <1>1, <1>2
  <1>6. /\ Filled = full[b].phase + full[c].phase
        /\ Filled' = full'[b].phase + full'[c].phase
    <2>1. Filled = full[0].phase + full[1].phase /\ Filled' = full'[0].phase + full'[1].phase
      BY DEF Filled
    <2>2. (b = 0 /\ c = 1) \/ (b = 1 /\ c = 0)
      BY <1>1 DEF Buffers
    <2>3. full'[b].phase \in Nat /\ full'[c].phase \in Nat
      BY <1>1, <1>2
    <2>4. QED
      BY <1>2, <2>1, <2>2, <2>3
  <1>7. b \in Nat /\ c \in Nat /\ b + c = 1
    BY <1>1 DEF Buffers
  <1>8. full[b].phase + full[c].phase < NumTiles
    BY <1>2, <1>4, <1>7, PhaseSums DEF Filling
  <1>9. ASSUME NEW w \in Consumers PROVE full[b].phase + full[c].phase < tile[w] + 2
    <2>1. Emptying(b) \in Nat /\ Emptying(c) \in Nat /\ Emptying(b) # Emptying(c)
      BY <1>1, Types DEF IInv
    <2>2. tile[0] <= tile[w] + 2 /\ Filling(b) <= tile[w] + 1
      BY <1>2, <1>3, <1>4, <2>1
    <2>3. QED
      BY <1>2, <1>4, <1>7, <2>2, PhaseSums DEF Filling
  <1>10. Taken' = Taken /\ \A w \in Consumers : Taken[w] = tile[w]
    BY DEF Taken
  <1>11. /\ Filled < NumTiles /\ Filled' = Filled + 1 /\ Taken' = Taken
         /\ \A w \in Consumers : Filled < Taken[w] + 2
    BY <1>5, <1>6, <1>8, <1>9, <1>10
  <1>12. QED
    BY <1>11 DEF Pipeline!Fill, Filled, Taken

LEMMA TakeStep ==
  ASSUME IInv, NEW w \in Consumers, ArriveEmpty(w)
  PROVE  Pipeline!Take(w)
  <1>1. /\ pc[w] = "arrive" /\ HasPassed(w) /\ pc[0] \notin {"init", "sync"}
        /\ tile' = [tile EXCEPT ![w] = tile[w] + 1] /\ full' = full /\ pc'[0] = pc[0]
    BY Sizes DEF ArriveEmpty, NextTile, At, IInv, TypeOK, Control, HasPassed
  <1>2. PICK t \in Nat, b \in Buffers, c \in Buffers :
          t = tile[w] /\ b = Buf(t) /\ c # b /\ {b, c} = {0, 1}
    <2>1. tile[w] \in Nat /\ Buf(tile[w]) \in Buffers
      BY Types, Sizes, Halves DEF IInv
    <2>2. PICK c \in Buffers : c # Buf(tile[w]) /\ {Buf(tile[w]), c} = {0, 1}
      BY <2>1 DEF Buffers
    <2>3. QED
      BY <2>1, <2>2
  <1>3. Filling(b) = t + 2 /\ t <= Filling(c)
    BY <1>1, <1>2, Behind DEF IInv, Order
  <1>4. full[b].phase \in Nat /\ full[c].phase \in Nat
    BY <1>2, Types DEF IInv
  <1>5. t < full[b].phase + full[c].phase
    <2>1. b \in Nat /\ c \in Nat /\ b + c = 1
      BY <1>2 DEF Buffers
    <2>2. QED
      BY <1>2, <1>3, <1>4, <2>1, PhaseSums DEF Filling
  <1>6. Filled = full[b].phase + full[c].phase
    <2>1. (b = 0 /\ c = 1) \/ (b = 1 /\ c = 0)
      BY <1>2 DEF Buffers
    <2>2. QED
      BY <1>1, <1>4, <2>1 DEF Filled
  <1>7. Filled' = Filled
    BY <1>1 DEF Filled
  <1>8. Taken' = [Taken EXCEPT ![w] = Taken[w] + 1] /\ Taken[w] = t
    BY <1>1, <1>2, Sizes DEF Taken, IInv, TypeOK
  <1>9. Taken[w] < Filled
    BY <1>5, <1>6, <1>8
  <1>10. QED
    BY <1>7, <1>8, <1>9 DEF Pipeline!Take, Filled, Taken

LEMMA PipelineStep == IInv /\ [Next]_vars => [Pipeline!Next]_Pipeline!vars
  <1> SUFFICES ASSUME IInv, [Next]_vars
               PROVE  Pipeline!Next \/ (Filled' = Filled /\ Taken' = Taken)
    BY DEF Pipeline!vars, Filled, Taken
  <1>1. ASSUME UNCHANGED << tile, full >>, pc[0] \in {"init", "sync"} <=> pc'[0] \in {"init", "sync"}
        PROVE  Filled' = Filled /\ Taken' = Taken
    BY <1>1 DEF Filled, Taken
  <1>2. CASE InitBarriers
    BY <1>2, Sizes DEF InitBarriers, At, IInv, TypeOK, Filled, Taken
  <1>3. CASE WaitEmpty \/ CopyStrip
    BY <1>1, <1>3, Sizes DEF WaitEmpty, CopyStrip, At, IInv, TypeOK
  <1>4. CASE LinkStrip
    <2>1. /\ tile' = tile /\ pc[0] \notin {"init", "sync"} /\ pc'[0] \notin {"init", "sync"}
          /\ full' = [full EXCEPT ![Buf(tile[0])] = Expecting(@)]
      BY <1>4, Sizes DEF LinkStrip, At, IInv, TypeOK
    <2>2. \A b \in Buffers : full'[b].phase = full[b].phase
      BY <2>1 DEF Expecting, IInv, TypeOK
    <2>3. QED
      BY <2>1, <2>2 DEF Filled, Taken, Buffers
  <1>5. CASE ArriveFull
    <2>1. PICK t \in Nat, b \in Buffers : t = tile[0] /\ b = Buf(t)
      BY Types, Sizes, Halves DEF IInv
    <2>2. /\ pc[0] = "arrive" /\ HoldsBuffer /\ pc'[0] \in {"wait", "done"} /\ t < NumTiles
          /\ \A w \in Consumers : tile'[w] = tile[w]
      <3>1. pc[0] = "arrive" /\ pc'[0] \in {"wait", "done"} /\ tile' = [tile EXCEPT ![0] = @ + 1]
        BY <1>5, Sizes DEF ArriveFull, NextTile, At, IInv, TypeOK
      <3>2. HoldsBuffer /\ t <= NumTiles /\ t # NumTiles
        BY <2>1, <3>1, Types, Sizes DEF HoldsBuffer, IInv, Control
      <3>3. \A w \in Consumers : tile'[w] = tile[w]
        BY <3>1, Sizes DEF IInv, TypeOK
      <3>4. QED
        BY <2>1, <3>1, <3>2, <3>3, Sizes
    <2>3. Filling(b) = t
      BY <2>1, <2>2, Held DEF IInv
    <2>4. \E s \in Strips : Issued(Filling(b), s)
      <3>1. strip = NumStrips /\ 0 \in Strips /\ 0 < NumStrips
        BY <2>2, Sizes DEF IInv, Control, Strips
      <3>2. QED
        BY <2>1, <2>2, <2>3, <3>1 DEF Issued, Linked
    <2>5. /\ full'[b] = Arrived(full[b], 1)
          /\ \A c \in Buffers : c # b => full'[c] = full[c]
      BY <1>5, <2>1 DEF ArriveFull, IInv, TypeOK
    <2>6. CASE full[b].pending = 1
      <3>1. full'[b].phase = full[b].phase + 1
        BY <2>5, <2>6 DEF Arrived
      <3>2. Pipeline!Fill
        BY <2>2, <2>3, <2>4, <2>5, <3>1, FillStep
      <3>3. QED
        BY <3>2 DEF Pipeline!Next
    <2>7. CASE full[b].pending # 1
      <3>1. \A c \in Buffers : full'[c].phase = full[c].phase
        BY <2>5, <2>7 DEF Arrived
      <3>2. QED
        BY <2>2, <3>1 DEF Filled, Taken, Buffers
    <2>8. QED
      BY <2>6, <2>7
  <1>6. CASE Sync
    <2>1. /\ pc[0] = "sync" /\ pc'[0] = "wait" /\ tile' = tile /\ full' = full /\ tile[0] = 0
      BY <1>6, Sizes DEF Sync, IInv, Control
    <2>2. \A b \in Buffers : full[b].phase \in Nat /\ 2 * full[b].phase + b <= 1
      BY <2>1, Types DEF IInv, Order, Filling
    <2>3. full[0].phase = 0 /\ full[1].phase = 0
      BY <2>2 DEF Buffers
    <2>4. QED
      BY <2>1, <2>3 DEF Filled, Taken
  <1>7. CASE Engine
    <2>1. PICK t \in Tiles, s \in Strips : CopyLands(t, s) \/ LinkArrives(t, s)
      BY <1>7 DEF Engine
    <2>2. CASE CopyLands(t, s)
      BY <1>1, <2>2 DEF CopyLands
    <2>3. CASE LinkArrives(t, s)
      <3>1. PICK b \in Buffers : b = Buf(t)
        BY Halves DEF Tiles
      <3>2. /\ << t, s >> \in links /\ pc' = pc /\ tile' = tile
            /\ full'[b] = Arrived(full[b], 1)
            /\ \A c \in Buffers : c # b => full'[c] = full[c]
        BY <2>3, <3>1 DEF LinkArrives, IInv, TypeOK
      <3>3. pc[0] \notin {"init", "sync"}
        BY <3>2 DEF IInv, Control
      <3>4. Filling(b) = t /\ Issued(t, s) /\ t < NumTiles
        BY <3>1, <3>2, Sizes DEF IInv, Memory, Issued, Tiles
      <3>5. CASE full[b].pending = 1
        <4>1. full'[b].phase = full[b].phase + 1
          BY <3>2, <3>5 DEF Arrived
        <4>2. Pipeline!Fill
          BY <3>2, <3>3, <3>4, <4>1, FillStep
        <4>3. QED
          BY <4>2 DEF Pipeline!Next
      <3>6. CASE full[b].pending # 1
        <4>1. \A c \in Buffers : full'[c].phase = full[c].phase
          BY <3>2, <3>6 DEF Arrived
        <4>2. QED
          BY <3>2, <4>1 DEF Filled, Taken, Buffers
      <3>7. QED
        BY <3>5, <3>6
    <2>4. QED
      BY <2>1, <2>2, <2>3
  <1>8. ASSUME NEW w \in Consumers, WaitFull(w) \/ LoadStrip(w) \/ StoreStrip(w)
        PROVE  Filled' = Filled /\ Taken' = Taken
    BY <1>1, <1>8, Sizes DEF WaitFull, LoadStrip, StoreStrip, At, IInv, TypeOK
  <1>9. ASSUME NEW w \in Consumers, ArriveEmpty(w) PROVE Pipeline!Next
    BY <1>9, TakeStep DEF Pipeline!Next
  <1>10. CASE UNCHANGED vars
    BY <1>1, <1>10 DEF vars
  <1>11. QED
    BY <1>2, <1>3, <1>4, <1>5, <1>6, <1>7, <1>8, <1>9, <1>10 DEF Next, Producer, Consumer

\* The block is a pipeline of two buffers: tiles become available in order, each
\* consumer takes each of them in order, and none is filled while a consumer still
\* has to take the tile that was there before.
THEOREM Implements == Spec => ImplementsPipeline
  <1>1. Init => Pipeline!Init
    BY Sizes DEF Init, Pipeline!Init
  <1>2. QED
    BY <1>1, PipelineStep, Invariance, PTL DEF Spec, ImplementsPipeline, Pipeline!Spec
===============================================================================
