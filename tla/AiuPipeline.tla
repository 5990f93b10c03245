----------------------------- MODULE AiuPipeline ------------------------------
(***************************************************************************)
(* A block of aiu_pipeline_transpose_kernel of transpose.hg.  Warp 0       *)
(* copies the tiles of the block's row of the matrix, one after the other, *)
(* into two buffers of shared memory; each other warp transposes one strip *)
(* of every tile.  Per buffer, one awbarrier tells that it is full and one *)
(* that it is empty: a warp waits for the end of a phase, of which it can  *)
(* only see the parity.                                                    *)
(*                                                                         *)
(* A warp is one process: lane 0 waits and arrives for it, and the loads   *)
(* of a strip are collective.  The strip's content is the number of the    *)
(* tile it comes from.                                                     *)
(***************************************************************************)
EXTENDS Awbarrier

CONSTANTS
  NumStrips,   \* N_WARPS, the strips of a tile and the consumers
  NumTiles     \* n_col_tiles

SizesAssumption ==
  /\ NumStrips \in Nat /\ NumStrips > 0
  /\ NumTiles \in Nat /\ NumTiles > 0

ASSUME PipelineAssumption == SizesAssumption

Strips    == 0 .. NumStrips - 1
Consumers == 1 .. NumStrips
Warps     == 0 .. NumStrips
Tiles     == 0 .. NumTiles - 1
Buffers   == 0 .. 1

Garbage == -1   \* of memory nothing was copied to

VARIABLES
  pc,
  tile,        \* the loop variable t of each warp
  strip,       \* the loop variable strip of the producer
  full, empty, \* the barriers of each buffer
  copies,      \* the copies in flight, as << tile, strip >>
  links,       \* the copies whose arrival at their full barrier is due
  tsm_buf,     \* the content of each strip of each buffer
  frag,        \* the strip that each consumer has loaded
  output       \* what was stored in the place of each strip of each tile

vars == << pc, tile, strip, full, empty, copies, links, tsm_buf, frag, output >>

Buf(t) == t % 2

\* The first wait would wait for a consumer.
EmptyParityOfRound(t) == (t \div 2) % 2

EmptyParity(t) == ((t \div 2) + 1) % 2

FullParity(t) == (t \div 2) % 2

\* awbar.test_wait.parity: the phase of that parity has ended.
Passed(bar, parity) == bar.phase % 2 # parity

Init ==
  /\ pc = [w \in Warps |-> IF w = 0 THEN "init" ELSE "sync"]
  /\ tile = [w \in Warps |-> 0]
  /\ strip = 0
  /\ \E garbage \in [phase : 0 .. 1, pending : 0 .. 1] :
       /\ full = [b \in Buffers |-> garbage]
       /\ empty = [b \in Buffers |-> garbage]
  /\ copies = {}
  /\ links = {}
  /\ tsm_buf = [b \in Buffers |-> [s \in Strips |-> Garbage]]
  /\ frag = [w \in Consumers |-> Garbage]
  /\ output = [t \in Tiles |-> [s \in Strips |-> Garbage]]

At(w, here, there) == pc[w] = here /\ pc' = [pc EXCEPT ![w] = there]

\* The warp goes to the next tile.
NextTile(w, here) ==
  /\ At(w, here, IF tile[w] + 1 < NumTiles THEN "wait" ELSE "done")
  /\ tile' = [tile EXCEPT ![w] = @ + 1]

\* One arrival empties the buffer.
InitBarriersForOne ==
  /\ At(0, "init", "sync")
  /\ full' = [b \in Buffers |-> [phase |-> 0, pending |-> 1]]
  /\ empty' = [b \in Buffers |-> [phase |-> 0, pending |-> 1]]
  /\ UNCHANGED << tile, strip, copies, links, tsm_buf, frag, output >>

InitBarriers ==
  /\ At(0, "init", "sync")
  /\ full' = [b \in Buffers |-> [phase |-> 0, pending |-> 1]]
  /\ empty' = [b \in Buffers |-> [phase |-> 0, pending |-> NumStrips]]
  /\ UNCHANGED << tile, strip, copies, links, tsm_buf, frag, output >>

Sync ==
  /\ \A w \in Warps : pc[w] = "sync"
  /\ pc' = [w \in Warps |-> "wait"]
  /\ UNCHANGED << tile, strip, full, empty, copies, links, tsm_buf, frag, output >>

-------------------------------------------------------------------------------
(* The producer                                                            *)

\* Without the wait.
CopyAtOnce ==
  /\ At(0, "wait", "copy")
  /\ strip' = 0
  /\ UNCHANGED << tile, full, empty, copies, links, tsm_buf, frag, output >>

WaitEmpty ==
  /\ At(0, "wait", "copy")
  /\ Passed(empty[Buf(tile[0])], EmptyParity(tile[0]))
  /\ strip' = 0
  /\ UNCHANGED << tile, full, empty, copies, links, tsm_buf, frag, output >>

CopyStrip ==
  /\ At(0, "copy", "link")
  /\ copies' = copies \cup {<< tile[0], strip >>}
  /\ UNCHANGED << tile, strip, full, empty, links, tsm_buf, frag, output >>

\* The arrival is not added to those that are due.
LinkUncounted ==
  /\ At(0, "link", IF strip + 1 < NumStrips THEN "copy" ELSE "arrive")
  /\ links' = links \cup {<< tile[0], strip >>}
  /\ strip' = strip + 1
  /\ UNCHANGED << tile, full, empty, copies, tsm_buf, frag, output >>

\* One strip too many.
LinkInclusive ==
  /\ At(0, "link", IF strip < NumStrips THEN "copy" ELSE "arrive")
  /\ full' = [full EXCEPT ![Buf(tile[0])] = Expecting(@)]
  /\ links' = links \cup {<< tile[0], strip >>}
  /\ strip' = strip + 1
  /\ UNCHANGED << tile, empty, copies, tsm_buf, frag, output >>

\* The last strip is copied outside of the loop that links.
LinkAllButLast ==
  /\ At(0, "link", IF strip + 1 < NumStrips THEN "copy" ELSE "arrive")
  /\ IF strip + 1 < NumStrips
     THEN /\ full' = [full EXCEPT ![Buf(tile[0])] = Expecting(@)]
          /\ links' = links \cup {<< tile[0], strip >>}
     ELSE UNCHANGED << full, links >>
  /\ strip' = strip + 1
  /\ UNCHANGED << tile, empty, copies, tsm_buf, frag, output >>

LinkStrip ==
  /\ At(0, "link", IF strip + 1 < NumStrips THEN "copy" ELSE "arrive")
  /\ full' = [full EXCEPT ![Buf(tile[0])] = Expecting(@)]
  /\ links' = links \cup {<< tile[0], strip >>}
  /\ strip' = strip + 1
  /\ UNCHANGED << tile, empty, copies, tsm_buf, frag, output >>

ArriveFull ==
  /\ NextTile(0, "arrive")
  /\ full' = [full EXCEPT ![Buf(tile[0])] = Arrived(@, 1)]
  /\ UNCHANGED << strip, empty, copies, links, tsm_buf, frag, output >>

Producer == InitBarriers \/ WaitEmpty \/ CopyStrip \/ LinkStrip \/ ArriveFull

-------------------------------------------------------------------------------
(* The copy engine                                                         *)

CopyLands(t, s) ==
  /\ << t, s >> \in copies
  /\ copies' = copies \ {<< t, s >>}
  /\ tsm_buf' = [tsm_buf EXCEPT ![Buf(t)][s] = t]
  /\ UNCHANGED << pc, tile, strip, full, empty, links, frag, output >>

\* A copy that was issued no later than << t, s >>.
Prior(c, t, s) == c[1] < t \/ (c[1] = t /\ c[2] <= s)

LinkArrives(t, s) ==
  /\ << t, s >> \in links
  /\ \A c \in copies : ~ Prior(c, t, s)
  /\ links' = links \ {<< t, s >>}
  /\ full' = [full EXCEPT ![Buf(t)] = Arrived(@, 1)]
  /\ UNCHANGED << pc, tile, strip, empty, copies, tsm_buf, frag, output >>

Engine == \E t \in Tiles, s \in Strips : CopyLands(t, s) \/ LinkArrives(t, s)

-------------------------------------------------------------------------------
(* The consumers                                                           *)

WaitFull(w) ==
  /\ At(w, "wait", "load")
  /\ Passed(full[Buf(tile[w])], FullParity(tile[w]))
  /\ UNCHANGED << tile, strip, full, empty, copies, links, tsm_buf, frag, output >>

LoadStrip(w) ==
  /\ At(w, "load", "store")
  /\ frag' = [frag EXCEPT ![w] = tsm_buf[Buf(tile[w])][w - 1]]
  /\ UNCHANGED << tile, strip, full, empty, copies, links, tsm_buf, output >>

StoreStrip(w) ==
  /\ At(w, "store", "arrive")
  /\ output' = [output EXCEPT ![tile[w]][w - 1] = frag[w]]
  /\ UNCHANGED << tile, strip, full, empty, copies, links, tsm_buf, frag >>

ArriveEmpty(w) ==
  /\ NextTile(w, "arrive")
  /\ empty' = [empty EXCEPT ![Buf(tile[w])] = Arrived(@, NumStrips)]
  /\ UNCHANGED << strip, full, copies, links, tsm_buf, frag, output >>

Consumer(w) == WaitFull(w) \/ LoadStrip(w) \/ StoreStrip(w) \/ ArriveEmpty(w)

-------------------------------------------------------------------------------

Next == Producer \/ Sync \/ Engine \/ \E w \in Consumers : Consumer(w)

\* The device runs the warps of a block, and ends the copies.
Spec ==
  /\ Init /\ [][Next]_vars
  /\ WF_vars(Producer) /\ WF_vars(Sync) /\ WF_vars(Engine)
  /\ \A w \in Consumers : WF_vars(Consumer(w))

-------------------------------------------------------------------------------
(* Properties                                                              *)

Bar == [phase : Nat, pending : Nat]

\* The variables have their types, and every loop stays within its bounds.
TypeOK ==
  /\ pc \in [Warps -> {"init", "sync", "wait", "copy", "link", "load", "store", "arrive", "done"}]
  /\ tile \in [Warps -> 0 .. NumTiles]
  /\ strip \in 0 .. NumStrips
  /\ full \in [Buffers -> Bar]
  /\ empty \in [Buffers -> Bar]
  /\ copies \subseteq Tiles \X Strips
  /\ links \subseteq Tiles \X Strips
  /\ tsm_buf \in [Buffers -> [Strips -> Tiles \cup {Garbage}]]
  /\ frag \in [Consumers -> Tiles \cup {Garbage}]
  /\ output \in [Tiles -> [Strips -> Tiles \cup {Garbage}]]

\* While a consumer reads its strip, the strip is all there, it is that of the
\* consumer's own tile, and no copy is on its way to the same memory.
StripHeldWhileRead ==
  \A w \in Consumers : pc[w] = "load" =>
    /\ tsm_buf[Buf(tile[w])][w - 1] = tile[w]
    /\ \A c \in copies : c[2] = w - 1 => Buf(c[1]) # Buf(tile[w])

\* What a consumer has passed is stored in its place, and nothing else ever is.
OutputTransposed ==
  \A t \in Tiles, w \in Consumers :
    output[t][w - 1] = IF \/ t < tile[w]
                          \/ t = tile[w] /\ pc[w] = "arrive"
                       THEN t ELSE Garbage

\* A waiting warp is never more than one phase behind the barrier it waits for,
\* so that the parity tells it all: it is let through if and only if its buffer is
\* full, or empty, for this round.
ParityUnambiguous ==
  /\ \A w \in Consumers : pc[w] = "wait" =>
       LET t == tile[w] IN Passed(full[Buf(t)], FullParity(t)) <=> full[Buf(t)].phase > t \div 2
  /\ pc[0] = "wait" =>
       LET t == tile[0] IN Passed(empty[Buf(t)], EmptyParity(t)) <=> empty[Buf(t)].phase >= t \div 2

\* When the warps have ended, so have the copies and their arrivals: none reaches
\* the shared memory of a later block.
NothingOutlivesBlock ==
  (\A w \in Warps : pc[w] = "done") => copies = {} /\ links = {}

\* The kernel ends.
Terminates == <>(\A w \in Warps : pc[w] = "done")

\* The kernel is a pipeline of two buffers: a tile is available once its full
\* barrier has ended its phase, and a consumer is done with it once it has arrived
\* at the empty barrier.
Pipeline == INSTANCE TilePipeline WITH
  filled <- IF pc[0] \in {"init", "sync"} THEN 0 ELSE full[0].phase + full[1].phase,
  taken <- [w \in Consumers |-> tile[w]]

ImplementsPipeline == Pipeline!Spec
===============================================================================
