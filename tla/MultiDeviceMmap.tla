---------------------------- MODULE MultiDeviceMmap ----------------------------
(***************************************************************************)
(* multi_device_mmap.cpp and its caller mmap_multidevice.cpp: a buffer is  *)
(* one range of virtual addresses in equal stripes, each backed by memory  *)
(* of one device.  main allocates three buffers, runs a kernel over them   *)
(* and frees them.  Every call to the driver may fail; a failure while     *)
(* allocating undoes what was done and is returned, and main then exits.   *)
(*                                                                         *)
(* External: physical memory lives while it has a handle or a mapping; a   *)
(* range is unmapped and freed with the size it was reserved with; whether *)
(* a range that is only partly mapped can be unmapped is left open.  Of    *)
(* two granularities the smaller divides the larger: they are powers of 2. *)
(*                                                                         *)
(* main is [pc, buf, idx, total, va_bytes, exit, backing, granularity,     *)
(* partial]: the buffer and stripe it is at, the size of the buffer, the   *)
(* global g_va_bytes, the devices that back a buffer, each device's        *)
(* granularity, and that open choice.  res is [va, mapped, access,         *)
(* handles, stuck]: per buffer the size reserved (0: none), the device     *)
(* behind each mapped stripe and the devices with access; the handles      *)
(* held; and (history) whether a release failed.                           *)
(***************************************************************************)
EXTENDS HostRuntime, FiniteSets, Functions

CONSTANTS
  NumDevices,
  Granularities,  \* what a device may ask for
  Bytes           \* what main asks for

SizesAssumption ==
  /\ NumDevices \in Nat \ {0} /\ Granularities \subseteq Nat \ {0} /\ Bytes \in Nat \ {0}
  /\ \A g, h \in Granularities : g <= h => h % g = 0

Device  == 0..NumDevices - 1
Primary == 0
Buffer  == 1..3    \* g_d_x, g_d_y, g_d_out

CeilDiv(a, b) == (a + b - 1) \div b

align_up(value, step) == CeilDiv(value, step) * step

Greatest(S) == CHOOSE x \in S : \A y \in S : x >= y

Backings == UNION { [1..k -> Device] : k \in 1..NumDevices }

\* The primary device, then its peers in order.
IsBacking(devices) ==
  /\ devices[1] = Primary
  /\ \A i \in 1..Len(devices) - 1 : devices[i] < devices[i + 1]

Init ==
  /\ \E backing \in Backings,
        granularity \in [Device -> Granularities], partial \in BOOLEAN :
       /\ IsBacking(backing)
       /\ main = [pc |-> "query", buf |-> 1, idx |-> 0, total |-> 0, va_bytes |-> 0,
                  exit |-> "none", backing |-> backing, granularity |-> granularity,
                  partial |-> partial]
  /\ res = [va |-> [b \in Buffer |-> 0], mapped |-> [b \in Buffer |-> << >>],
            access |-> [b \in Buffer |-> {}], handles |-> << >>,
            stuck |-> FALSE]
  /\ thread = << >> /\ stream = << >>

Stripes    == Len(main.backing)
StripeSize == main.total \div Stripes
Buf        == main.buf

\* query_max_min_granularity of the backing devices, then the mapping device.
MinGranularity == Greatest({ main.granularity[d] : d \in Range(main.backing) \cup {Primary} })

\* Rounded to what one stripe needs.
TotalSizeOfStripe == align_up(Bytes, MinGranularity)

TotalSize == align_up(Bytes, Stripes * MinGranularity)

At(label) == Running /\ main.pc = label /\ UNCHANGED << thread, stream >>

Goto(label) == main' = [main EXCEPT !.pc = label]

\* multi_device_mmap_alloc returns an error, on which main exits.
Failed == main' = [main EXCEPT !.exit = "error"]

-------------------------------------------------------------------------------
(* multi_device_mmap_alloc                                                 *)

Query ==
  /\ At("query")
  /\ \/ Failed
     \/ main' = [main EXCEPT !.pc = "reserve", !.idx = 0, !.total = TotalSize,
                             !.va_bytes = IF Buf = 1 THEN TotalSize ELSE @]
  /\ UNCHANGED res

Reserve ==
  /\ At("reserve")
  /\ \/ Failed /\ UNCHANGED res
     \/ Goto("create") /\ res' = [res EXCEPT !.va[Buf] = main.total]

Create ==
  /\ At("create")
  /\ \/ Goto("undo") /\ UNCHANGED res
     \/ Goto("map") /\ res' = [res EXCEPT !.handles = Append(@, main.backing[main.idx + 1])]

\* One stripe too many.
NextStripeInclusive ==
  main' = IF main.idx + 1 <= Stripes THEN [main EXCEPT !.idx = @ + 1, !.pc = "create"]
                                     ELSE [main EXCEPT !.pc = "access"]

NextStripe ==
  main' = IF main.idx + 1 < Stripes THEN [main EXCEPT !.idx = @ + 1, !.pc = "create"]
                                    ELSE [main EXCEPT !.pc = "access"]

Mapped == [i \in DOMAIN res.mapped[Buf] \cup {main.idx} |->
             IF i = main.idx THEN main.backing[i + 1] ELSE res.mapped[Buf][i]]

OneHandleLess == SubSeq(res.handles, 1, Len(res.handles) - 1)

\* The handle is released only after a mapping that succeeded.
MapAndReleaseOnSuccess ==
  /\ At("map")
  /\ \/ Goto("undo") /\ UNCHANGED res
     \/ NextStripe /\ res' = [res EXCEPT !.mapped[Buf] = Mapped, !.handles = OneHandleLess]
     \/ Goto("undo") /\ res' = [res EXCEPT !.mapped[Buf] = Mapped, !.stuck = TRUE]

\* Map the stripe and release its handle, whether it was mapped or not; the
\* stripe is done if both succeed.
MapAndRelease ==
  /\ At("map")
  /\ \E map, release \in BOOLEAN :
       /\ IF map /\ release THEN NextStripe ELSE Goto("undo")
       /\ res' = [res EXCEPT !.mapped[Buf] = IF map THEN Mapped ELSE @,
                             !.handles = IF release THEN OneHandleLess ELSE @,
                             !.stuck = ~ release]

SetAccess ==
  /\ At("access")
  /\ \/ Goto("undo") /\ UNCHANGED res
     \/ /\ res' = [res EXCEPT !.access[Buf] = {Primary}]
        /\ main' = IF Buf < 3 THEN [main EXCEPT !.buf = @ + 1, !.pc = "query"]
                              ELSE [main EXCEPT !.pc = "use"]

-------------------------------------------------------------------------------
(* multi_device_mmap_free, of the error path and of cleanup                *)

WholeRange(size) == size = res.va[Buf] /\ (main.partial \/ DOMAIN res.mapped[Buf] = 0..Stripes - 1)

Unmap(from, size, next) ==
  /\ At(from)
  /\ \/ Failed /\ UNCHANGED res
     \/ /\ WholeRange(size)
        /\ res' = [res EXCEPT !.mapped[Buf] = << >>, !.access[Buf] = {}]
        /\ Goto(next)

UndoUnmap == Unmap("undo", main.total, "undo_free")

AddressFree(size) == size = res.va[Buf] /\ res' = [res EXCEPT !.va[Buf] = 0]

\* Return the allocation's error, whatever the free returned.
UndoFree ==
  /\ At("undo_free")
  /\ AddressFree(main.total) \/ UNCHANGED res
  /\ Failed

-------------------------------------------------------------------------------
(* main                                                                    *)

\* Copies, the kernel, and the check of the result.
UseBuffers ==
  /\ At("use")
  /\ \/ Failed
     \/ main' = [main EXCEPT !.pc = "cleanup", !.buf = 1]
  /\ UNCHANGED res

CleanupUnmap == Unmap("cleanup", main.va_bytes, "cleanup_free")

CleanupFree ==
  /\ At("cleanup_free")
  /\ \/ Failed /\ UNCHANGED res
     \/ /\ AddressFree(main.va_bytes)
        /\ main' = IF Buf < 3 THEN [main EXCEPT !.buf = @ + 1, !.pc = "cleanup"]
                              ELSE [main EXCEPT !.exit = "success"]

Next ==
  \/ Query \/ Reserve \/ Create \/ MapAndRelease \/ SetAccess
  \/ UndoUnmap \/ UndoFree \/ UseBuffers \/ CleanupUnmap \/ CleanupFree

\* Nothing keeps main from its next call.
Spec == Init /\ [][Next]_machine /\ WF_machine(Next)
-------------------------------------------------------------------------------
TypeOK ==
  /\ main \in [pc : {"query", "reserve", "create", "map", "access", "undo", "undo_free", "use",
                     "cleanup", "cleanup_free"},
               buf : Buffer, idx : Nat, total : Nat, va_bytes : Nat,
               exit : {"none", "success", "error"}, backing : Backings,
               granularity : [Device -> Granularities], partial : BOOLEAN]
  /\ main.idx < Stripes
  /\ res \in [va : [Buffer -> Nat],
              mapped : [Buffer -> UNION { [S -> Device] : S \in SUBSET (0..Stripes - 1) }],
              access : [Buffer -> SUBSET Device], handles : Seq(Device), stuck : BOOLEAN]

\* Before main uses the buffers each is whole: its stripes tile the range, each
\* on its device and of a size that every device can map, the range holds what
\* was asked for and is of the one size that cleanup frees all with, and the
\* using device has access to it.
BuffersWhole ==
  main.pc = "use" =>
    \A b \in Buffer :
      /\ DOMAIN res.mapped[b] = 0..Stripes - 1
      /\ \A i \in 0..Stripes - 1 : res.mapped[b][i] = main.backing[i + 1]
      /\ Stripes * StripeSize = res.va[b] /\ res.va[b] = main.va_bytes
      /\ res.va[b] >= Bytes
      /\ \A d \in Range(main.backing) : StripeSize % main.granularity[d] = 0
      /\ Primary \in res.access[b]

NothingIn(b) == res.va[b] = 0 /\ DOMAIN res.mapped[b] = {}

\* Whatever call failed, no memory keeps a handle unless its release failed; and
\* when main succeeds nothing is left.
NothingLeaks ==
  /\ main.exit # "none" /\ ~ res.stuck => res.handles = << >>
  /\ main.exit = "success" => res.handles = << >> /\ \A b \in Buffer : NothingIn(b)

\* main ends.
Terminates == <>(main.exit # "none")
===============================================================================
