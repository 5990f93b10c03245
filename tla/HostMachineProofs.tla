--------------------------- MODULE HostMachineProofs ---------------------------
(***************************************************************************)
(* The properties of HostPrograms, for every value of its constants.       *)
(*                                                                         *)
(* Each machine has an inductive invariant, proved here, one after the     *)
(* other; that of CtxManagement is the one of its own module of proofs.    *)
(* HostPrograms keeps the invariant of the machine that runs, which is the *)
(* same throughout.                                                        *)
(*                                                                         *)
(* What carries the arguments:                                             *)
(*   MultiDeviceMmap: the buffers before the one at hand are whole, it is  *)
(*     mapped as far as the index, and the size of a stripe is a multiple  *)
(*     of every granularity because the greatest of them is.               *)
(*   ManagedStreams: a task that was taken is held by one thread, or its   *)
(*     product is there, or it is on its way behind the attachment of its  *)
(*     memory, on one stream.                                              *)
(*   SlicedDispatch: slices are disjoint, so a worker finds in its own     *)
(*     what it left there; the root passes the gathering last.             *)
(*   JpegBatches: what was decoded, with the batch, is what can be read of *)
(*     the files passed.                                                   *)
(*   DeviceChoice: a line and a system leave one choice, so two searches   *)
(*     end with the same device.                                           *)
(*   StreamProgram: the calls that have taken effect are closed under the  *)
(*     order that the program enforces, since a call waits for those it    *)
(*     follows directly, which have waited for others.  So all stores to a *)
(*     buffer are made in program order, and what the buffer holds is the  *)
(*     latest of those made.                                               *)
(***************************************************************************)
EXTENDS HostPrograms, FiniteSetTheorems, SequenceTheorems, WellFoundedInduction,
        NaturalsInduction, TLAPS
-------------------------------------------------------------------------------
\* A finite, nonempty set of a function's values has a greatest.
LEMMA GreatestExists ==
  ASSUME NEW n \in Nat, NEW f \in [0..n - 1 -> Nat],
         NEW D \in SUBSET (0..n - 1), D # {}
  PROVE  LET S == { f[d] : d \in D } IN
           Mmap!Greatest(S) \in S /\ \A y \in S : Mmap!Greatest(S) >= y
  <1> DEFINE HasMax(E) == \E x \in E : \A y \in E : f[x] >= f[y]
             C == { m \in Nat : \E E \in SUBSET (0..n - 1) :
                      E \subseteq 0..m - 1 /\ E # {} /\ ~ HasMax(E) }
  <1>1. C = {}
    <2> SUFFICES ASSUME C # {} PROVE FALSE
      OBVIOUS
    <2>1. PICK m \in C : \A y \in C : ~ (<< y, m >> \in OpToRel(<, Nat))
      <3>1. C \subseteq Nat
        OBVIOUS
      <3> HIDE DEF C
      <3> QED BY <3>1, WFMin, NatLessThanWellFounded, Zenon
    <2>2. m \in Nat /\ \A y \in C : ~ (y < m)
      BY <2>1 DEF OpToRel
    <2>3. PICK E \in SUBSET (0..n - 1) : E \subseteq 0..m - 1 /\ E # {} /\ ~ HasMax(E)
      OBVIOUS
    <2>4. m # 0
      <3>1. PICK e \in E : TRUE
        BY <2>3
      <3> HIDE DEF HasMax, C
      <3> QED BY <2>3, <3>1
    <2>5. m - 1 \in Nat /\ m - 1 \notin C
      <3> HIDE DEF C
      <3> QED BY <2>2, <2>4
    <2>6. m - 1 \in E
      <3>1. E \subseteq 0..(m - 1) - 1 => m - 1 \in C
        BY <2>3, <2>5
      <3>2. PICK e \in E : e \notin 0..(m - 1) - 1
        BY <2>5, <3>1
      <3>3. e = m - 1
        BY <2>2, <2>3, <3>2
      <3> QED BY <3>2, <3>3
    <2> DEFINE F == E \ {m - 1}
    <2>7. F \in SUBSET (0..n - 1) /\ F \subseteq 0..(m - 1) - 1
      <3>1. F \in SUBSET (0..n - 1)
        BY <2>3
      <3>2. \A y \in F : y \in 0..m - 1 /\ y # m - 1
        BY <2>3
      <3>3. \A y \in F : y \in 0..(m - 1) - 1
        <4> HIDE DEF HasMax, C, F
        <4> QED BY <2>2, <3>2
      <3> QED BY <3>1, <3>3
    <2>8. \A y \in E : f[y] \in Nat
      BY <2>3
    <2>9. CASE F = {}
      <3>1. \A y \in E : y = m - 1
        BY <2>9
      <3>2. \A y \in E : f[m - 1] >= f[y]
        <4>1. f[m - 1] \in Nat
          BY <2>6, <2>8
        <4>2. f[m - 1] >= f[m - 1]
          BY <4>1
        <4> QED BY <3>1, <4>2
      <3> QED BY <2>3, <2>6, <3>2
    <2>10. CASE F # {}
      <3>1. HasMax(F)
        BY <2>5, <2>7, <2>10
      <3>2. PICK x \in F : \A y \in F : f[x] >= f[y]
        BY <3>1
      <3>3. \A y \in E : y = m - 1 \/ f[x] >= f[y]
        BY <3>2
      <3>4. CASE f[x] >= f[m - 1]
        <4>1. \A y \in E : f[x] >= f[y]
          BY <3>3, <3>4
        <4> QED BY <2>3, <3>2, <4>1
      <3>5. CASE f[m - 1] >= f[x]
        <4>1. \A y \in E : f[m - 1] >= f[y]
          <5> SUFFICES ASSUME NEW y \in E PROVE f[m - 1] >= f[y]
            OBVIOUS
          <5>1. f[y] \in Nat /\ f[m - 1] \in Nat /\ f[x] \in Nat
            BY <2>6, <2>8, <3>2
          <5> HIDE DEF HasMax, C
          <5> QED BY <3>3, <3>5, <5>1
        <4> QED BY <2>3, <2>6, <4>1
      <3> QED BY <2>6, <2>8, <3>2, <3>4, <3>5
    <2> QED BY <2>9, <2>10
  <1>2. HasMax(D)
    <2>1. n \notin C
      BY <1>1
    <2> QED BY <2>1
  <1> DEFINE S == { f[d] : d \in D }
  <1>3. \E x \in S : \A y \in S : x >= y
    BY <1>2
  <1> QED BY <1>3 DEF Mmap!Greatest

\* What is rounded up to a step is a multiple of it that is no smaller.
LEMMA AlignUp ==
  ASSUME NEW value \in Nat \ {0}, NEW step \in Nat \ {0}
  PROVE  /\ Mmap!align_up(value, step) >= value
         /\ Mmap!CeilDiv(value, step) \in Nat
         /\ Mmap!align_up(value, step) \in Nat \ {0}
  <1>1. Mmap!CeilDiv(value, step) \in Nat /\ Mmap!CeilDiv(value, step) * step >= value
    BY DEF Mmap!CeilDiv
  <1>2. Mmap!CeilDiv(value, step) * step \in Nat
    BY <1>1
  <1> QED BY <1>1, <1>2 DEF Mmap!align_up

\* A multiple divided by its factor, and modulo it.
LEMMA DivTimes == ASSUME NEW n \in Nat \ {0}, NEW x \in Nat PROVE (n * x) \div n = x
  OBVIOUS

\* The same of the remainder.
LEMMA TimesMod == ASSUME NEW n \in Nat \ {0}, NEW x \in Nat PROVE (x * n) % n = 0
  OBVIOUS

\* A multiple of a multiple is a multiple.
LEMMA MultipleOfMultiple ==
  ASSUME NEW q \in Nat, NEW h \in Nat, NEW g \in Nat \ {0}, h % g = 0
  PROVE  (q * h) % g = 0
  <1>1. h = (h \div g) * g /\ h \div g \in Nat
    OBVIOUS
  <1>2. q * h = (q * (h \div g)) * g /\ q * (h \div g) \in Nat
    BY <1>1
  <1> QED BY <1>2, TimesMod
-------------------------------------------------------------------------------
(* MultiDeviceMmap                                                         *)

\* A buffer as the allocation leaves it, and how far the one at hand has come.
WholeBuffer(b) ==
  /\ DOMAIN res.mapped[b] = 0..Mmap!Stripes - 1
  /\ \A i \in 0..Mmap!Stripes - 1 : res.mapped[b][i] = main.backing[i + 1]
  /\ res.va[b] = Mmap!TotalSize
  /\ Mmap!Primary \in res.access[b]

MappedUpTo(n) ==
  /\ res.va[Mmap!Buf] = Mmap!TotalSize
  /\ DOMAIN res.mapped[Mmap!Buf] = 0..n - 1
  /\ \A i \in 0..n - 1 : res.mapped[Mmap!Buf][i] = main.backing[i + 1]

Allocating == {"query", "reserve", "create", "map", "access"}

Sizes ==
  /\ main.va_bytes = Mmap!TotalSize \/ (main.pc = "query" /\ Mmap!Buf = 1)
  /\ main.pc \in {"reserve", "create", "map", "access", "use"} => main.total = Mmap!TotalSize

Progressed ==
  /\ main.pc \in Allocating =>
       \A b \in Mmap!Buffer : /\ b < Mmap!Buf => WholeBuffer(b)
                              /\ b > Mmap!Buf => DOMAIN res.mapped[b] = {}
  /\ main.pc \in {"query", "reserve"} => DOMAIN res.mapped[Mmap!Buf] = {}
  /\ main.pc = "reserve" => main.idx = 0
  /\ main.pc \in {"create", "map"} => MappedUpTo(main.idx)
  /\ main.pc = "access" => MappedUpTo(Mmap!Stripes)
  /\ main.pc = "use" => \A b \in Mmap!Buffer : WholeBuffer(b)

CleanedUp ==
  /\ main.pc \in {"cleanup", "cleanup_free"} =>
       \A b \in Mmap!Buffer : b < Mmap!Buf => Mmap!NothingIn(b)
  /\ main.pc = "cleanup_free" => DOMAIN res.mapped[Mmap!Buf] = {}
  /\ main.exit = "success" => /\ main.pc = "cleanup_free"
                              /\ \A b \in Mmap!Buffer : Mmap!NothingIn(b)

\* A handle is held between the creation of a stripe's memory and its mapping.
HandlesHeld ==
  /\ main.pc = "map" => Len(res.handles) = 1 /\ main.exit = "none"
  /\ main.pc \in {"undo", "undo_free"} => res.stuck \/ res.handles = << >>
  /\ main.pc \notin {"map", "undo", "undo_free"} => res.handles = << >>
  /\ main.pc \notin {"undo", "undo_free"} => ~ res.stuck

Label == {"query", "reserve", "create", "map", "access", "undo", "undo_free", "use", "cleanup",
          "cleanup_free"}

MmapMain == [pc : Label, buf : Mmap!Buffer, idx : Nat, total : Nat, va_bytes : Nat,
             exit : {"none", "success", "error"}, backing : Mmap!Backings,
             granularity : [Mmap!Device -> Granularities], partial : BOOLEAN]

Maps == UNION { [S -> Mmap!Device] : S \in SUBSET (0..Mmap!Stripes - 1) }

MmapInv == Mmap!TypeOK /\ Sizes /\ Progressed /\ CleanedUp /\ HandlesHeld

\* What the sizes are: a stripe is a multiple of every device's granularity.
LEMMA MmapSizes ==
  ASSUME Mmap!SizesAssumption, Mmap!TypeOK
  PROVE  /\ Mmap!Stripes \in Nat \ {0}
         /\ \A i \in 0..Mmap!Stripes - 1 : main.backing[i + 1] \in Mmap!Device
         /\ Mmap!TotalSize \in Nat \ {0} /\ Mmap!TotalSize >= Bytes
         /\ Mmap!Stripes * (Mmap!TotalSize \div Mmap!Stripes) = Mmap!TotalSize
         /\ \A d \in Mmap!Range(main.backing) :
              (Mmap!TotalSize \div Mmap!Stripes) % main.granularity[d] = 0
  <1>1. /\ NumDevices \in Nat \ {0} /\ Bytes \in Nat \ {0}
        /\ Granularities \subseteq Nat \ {0}
        /\ \A g, h \in Granularities : g <= h => h % g = 0
    BY DEF Mmap!SizesAssumption
  <1>2. PICK k \in 1..NumDevices : main.backing \in [1..k -> Mmap!Device]
    BY DEF Mmap!TypeOK, Mmap!Backings
  <1>3. Mmap!Stripes = k /\ k \in Nat \ {0}
    <2>1. k \in Nat \ {0}
      BY <1>1, <1>2
    <2> QED BY <1>2, <2>1, LenProperties DEF Mmap!Stripes
  <1>4. \A i \in 0..Mmap!Stripes - 1 : main.backing[i + 1] \in Mmap!Device
    BY <1>2, <1>3
  <1> DEFINE D == Mmap!Range(main.backing) \cup {Mmap!Primary}
             gran == main.granularity
  <1>5. D \in SUBSET (0..NumDevices - 1) /\ D # {} /\ Mmap!Range(main.backing) \subseteq D
    BY <1>1, <1>2 DEF Mmap!Range, Mmap!Primary, Mmap!Device
  <1>6. gran \in [0..NumDevices - 1 -> Granularities] /\ gran \in [0..NumDevices - 1 -> Nat]
    BY <1>1 DEF Mmap!TypeOK, Mmap!Device
  <1> DEFINE G == Mmap!MinGranularity
  <1>7. G \in { gran[d] : d \in D } /\ \A y \in { gran[d] : d \in D } : G >= y
    <2> HIDE DEF D, gran
    <2>1. LET S == { gran[d] : d \in D } IN
            Mmap!Greatest(S) \in S /\ \A y \in S : Mmap!Greatest(S) >= y
      BY <1>1, <1>5, <1>6, GreatestExists
    <2> QED BY <2>1 DEF Mmap!MinGranularity, D, gran
  <1>8. G \in Granularities /\ G \in Nat \ {0}
    BY <1>1, <1>5, <1>6, <1>7
  <1>9. \A d \in D : gran[d] \in Nat \ {0} /\ G % gran[d] = 0
    <2> SUFFICES ASSUME NEW d \in D PROVE gran[d] \in Nat \ {0} /\ G % gran[d] = 0
      OBVIOUS
    <2>1. gran[d] \in Granularities
      BY <1>5, <1>6
    <2>2. G >= gran[d]
      BY <1>7
    <2> HIDE DEF G, D, gran
    <2> QED BY <1>1, <1>8, <2>1, <2>2
  <1> DEFINE q == Mmap!CeilDiv(Bytes, k * G)
  <1>10. k * G \in Nat \ {0}
    BY <1>3, <1>8
  <1>11. /\ q \in Nat /\ Mmap!TotalSize = q * (k * G)
         /\ Mmap!TotalSize \in Nat \ {0} /\ Mmap!TotalSize >= Bytes
    <2> HIDE DEF G
    <2> QED BY <1>1, <1>3, <1>10, AlignUp DEF Mmap!TotalSize, Mmap!align_up, G
  <1>12. q * G \in Nat /\ Mmap!TotalSize = k * (q * G)
    BY <1>3, <1>8, <1>11
  <1>13. Mmap!TotalSize \div Mmap!Stripes = q * G
    BY <1>3, <1>12, DivTimes
  <1>14. \A d \in D : (q * G) % gran[d] = 0
    <2> HIDE DEF G, D, gran, q
    <2> QED BY <1>8, <1>9, <1>11, MultipleOfMultiple
  <1> QED BY <1>3, <1>4, <1>5, <1>11, <1>12, <1>13, <1>14

\* No step changes what backs the buffers.
LEMMA MmapFrame ==
  ASSUME main'.backing = main.backing, main'.granularity = main.granularity
  PROVE  Mmap!Stripes' = Mmap!Stripes /\ Mmap!TotalSize' = Mmap!TotalSize
  BY DEF Mmap!Stripes, Mmap!TotalSize, Mmap!MinGranularity

\* A step of main to another label that leaves its locals.
LEMMA MmapGoto ==
  ASSUME Mmap!TypeOK, NEW label \in Label, Mmap!Goto(label)
  PROVE  /\ main' \in MmapMain
         /\ main'.pc = label /\ main'.buf = main.buf /\ main'.idx = main.idx
         /\ main'.total = main.total /\ main'.va_bytes = main.va_bytes
         /\ main'.exit = main.exit
         /\ main'.backing = main.backing /\ main'.granularity = main.granularity
         /\ Mmap!Stripes' = Mmap!Stripes /\ Mmap!TotalSize' = Mmap!TotalSize
         /\ Mmap!Buf' = Mmap!Buf
  <1>1. /\ main' \in MmapMain
        /\ main'.pc = label /\ main'.buf = main.buf /\ main'.idx = main.idx
        /\ main'.total = main.total /\ main'.va_bytes = main.va_bytes
        /\ main'.exit = main.exit
        /\ main'.backing = main.backing /\ main'.granularity = main.granularity
    BY DEF Mmap!TypeOK, MmapMain, Label, Mmap!Goto
  <1> QED BY <1>1, MmapFrame DEF Mmap!Buf

\* No buffer has anything before the first is allocated.
LEMMA MmapInit == ASSUME Mmap!SizesAssumption, Mmap!Init PROVE MmapInv
  <1>1. PICK backing \in Mmap!Backings, granularity \in [Mmap!Device -> Granularities],
             partial \in BOOLEAN :
          main = [pc |-> "query", buf |-> 1, idx |-> 0, total |-> 0, va_bytes |-> 0,
                  exit |-> "none", backing |-> backing, granularity |-> granularity,
                  partial |-> partial]
    BY DEF Mmap!Init
  <1>2. res = [va |-> [b \in Mmap!Buffer |-> 0], mapped |-> [b \in Mmap!Buffer |-> << >>],
               access |-> [b \in Mmap!Buffer |-> {}], handles |-> << >>, stuck |-> FALSE]
    BY DEF Mmap!Init
  <1>3. Mmap!Stripes \in Nat \ {0}
    <2>1. NumDevices \in Nat \ {0}
      BY DEF Mmap!SizesAssumption
    <2>2. PICK k \in 1..NumDevices : backing \in [1..k -> Mmap!Device]
      BY DEF Mmap!Backings
    <2>3. k \in Nat \ {0}
      BY <2>1
    <2> QED BY <1>1, <2>2, <2>3, LenProperties DEF Mmap!Stripes
  <1>4. DOMAIN << >> = {} /\ << >> \in [{} -> Mmap!Device]
    BY EmptySeq, LenProperties
  <1>5. Mmap!TypeOK
    <2>1. << >> \in Maps
      BY <1>4 DEF Maps
    <2>2. << >> \in Seq(Mmap!Device)
      OBVIOUS
    <2>3. main.idx < Mmap!Stripes
      BY <1>1, <1>3
    <2>4. [b \in Mmap!Buffer |-> << >>] \in [Mmap!Buffer -> Maps]
      BY <2>1
    <2>5. 1 \in Mmap!Buffer
      BY DEF Mmap!Buffer
    <2> QED BY <1>1, <1>2, <2>2, <2>3, <2>4, <2>5 DEF Mmap!TypeOK, Maps
  <1>6. Sizes
    BY <1>1 DEF Sizes, Mmap!Buf
  <1>7. Progressed
    <2>1. \A b \in Mmap!Buffer : res.mapped[b] = << >> /\ ~ (b < 1)
      BY <1>2 DEF Mmap!Buffer
    <2>2. Mmap!Buf = 1 /\ 1 \in Mmap!Buffer
      BY <1>1 DEF Mmap!Buf, Mmap!Buffer
    <2> QED BY <1>1, <1>4, <2>1, <2>2 DEF Progressed
  <1>8. CleanedUp
    BY <1>1 DEF CleanedUp
  <1>9. HandlesHeld
    BY <1>1, <1>2 DEF HandlesHeld
  <1> QED BY <1>5, <1>6, <1>7, <1>8, <1>9 DEF MmapInv

\* main ends with an error where nothing is held.
LEMMA MmapFailed ==
  ASSUME MmapInv, Mmap!Running, Mmap!Failed, UNCHANGED res, main.pc # "map"
  PROVE  MmapInv'
  <1>1. /\ main' \in MmapMain
        /\ main'.pc = main.pc /\ main'.buf = main.buf /\ main'.idx = main.idx
        /\ main'.total = main.total /\ main'.va_bytes = main.va_bytes /\ main'.exit = "error"
        /\ main'.backing = main.backing /\ main'.granularity = main.granularity
    BY DEF MmapInv, Mmap!TypeOK, MmapMain, Label, Mmap!Failed
  <1>2. Mmap!Stripes' = Mmap!Stripes /\ Mmap!TotalSize' = Mmap!TotalSize
        /\ Mmap!Buf' = Mmap!Buf
    BY <1>1, MmapFrame DEF Mmap!Buf
  <1>3. Mmap!TypeOK'
    BY <1>1, <1>2 DEF MmapInv, Mmap!TypeOK, MmapMain, Label
  <1>4. Sizes'
    BY <1>1, <1>2 DEF MmapInv, Sizes
  <1>5. /\ \A b \in Mmap!Buffer : WholeBuffer(b)' <=> WholeBuffer(b)
        /\ \A n : MappedUpTo(n)' <=> MappedUpTo(n)
    BY <1>1, <1>2 DEF WholeBuffer, MappedUpTo
  <1>6. Progressed'
    BY <1>1, <1>2, <1>5 DEF MmapInv, Progressed
  <1>7. CleanedUp'
    BY <1>1, <1>2 DEF MmapInv, CleanedUp, Mmap!NothingIn
  <1>8. HandlesHeld'
    BY <1>1 DEF MmapInv, HandlesHeld
  <1> QED BY <1>3, <1>4, <1>6, <1>7, <1>8 DEF MmapInv

\* The granularities are asked for: the size of a buffer is fixed.
LEMMA MmapQuery == ASSUME Mmap!SizesAssumption, MmapInv, Mmap!Query PROVE MmapInv'
  <1>1. CASE Mmap!Failed
    BY <1>1, MmapFailed DEF Mmap!Query, Mmap!At
  <1>2. CASE main' = [main EXCEPT !.pc = "reserve", !.idx = 0, !.total = Mmap!TotalSize,
                        !.va_bytes = IF Mmap!Buf = 1 THEN Mmap!TotalSize ELSE @]
    <2>1. /\ main.pc = "query" /\ main.exit = "none" /\ UNCHANGED res
          /\ Mmap!Stripes \in Nat \ {0} /\ Mmap!TotalSize \in Nat
      BY MmapSizes DEF Mmap!Query, Mmap!At, Mmap!Running, MmapInv
    <2>2. /\ main' \in MmapMain
          /\ main'.pc = "reserve" /\ main'.buf = main.buf /\ main'.idx = 0
          /\ main'.total = Mmap!TotalSize
          /\ main'.va_bytes = IF Mmap!Buf = 1 THEN Mmap!TotalSize ELSE main.va_bytes
          /\ main'.exit = main.exit
          /\ main'.backing = main.backing /\ main'.granularity = main.granularity
      BY <1>2, <2>1 DEF MmapInv, Mmap!TypeOK, MmapMain, Label
    <2>3. Mmap!Stripes' = Mmap!Stripes /\ Mmap!TotalSize' = Mmap!TotalSize
          /\ Mmap!Buf' = Mmap!Buf
      BY <2>2, MmapFrame DEF Mmap!Buf
    <2>4. Mmap!TypeOK'
      BY <2>1, <2>2, <2>3 DEF MmapInv, Mmap!TypeOK, MmapMain, Label
    <2>5. Sizes'
      BY <2>1, <2>2, <2>3 DEF MmapInv, Sizes
    <2>6. \A b \in Mmap!Buffer : WholeBuffer(b)' <=> WholeBuffer(b)
      BY <2>1, <2>2, <2>3 DEF WholeBuffer
    <2>7. Progressed'
      BY <2>1, <2>2, <2>3, <2>6 DEF MmapInv, Progressed, Allocating
    <2>8. CleanedUp'
      BY <2>1, <2>2 DEF CleanedUp
    <2>9. HandlesHeld'
      BY <2>1, <2>2 DEF MmapInv, HandlesHeld
    <2> QED BY <2>4, <2>5, <2>7, <2>8, <2>9 DEF MmapInv
  <1> QED BY <1>1, <1>2 DEF Mmap!Query

\* Addresses for the whole buffer are reserved, or the allocation fails.
LEMMA MmapReserve == ASSUME Mmap!SizesAssumption, MmapInv, Mmap!Reserve PROVE MmapInv'
  <1>1. CASE Mmap!Failed /\ UNCHANGED res
    BY <1>1, MmapFailed DEF Mmap!Reserve, Mmap!At
  <1>2. CASE Mmap!Goto("create") /\ res' = [res EXCEPT !.va[Mmap!Buf] = main.total]
    <2>1. /\ main.pc = "reserve" /\ main.exit = "none"
          /\ Mmap!Buf \in Mmap!Buffer
          /\ Mmap!TotalSize \in Nat /\ main.total = Mmap!TotalSize
      BY MmapSizes DEF Mmap!Reserve, Mmap!At, Mmap!Running, MmapInv, Mmap!TypeOK, Mmap!Buf, Sizes
    <2>2. /\ main' \in MmapMain
          /\ main'.pc = "create" /\ main'.buf = main.buf /\ main'.idx = main.idx
          /\ main'.total = main.total /\ main'.va_bytes = main.va_bytes
          /\ main'.exit = main.exit
          /\ main'.backing = main.backing /\ main'.granularity = main.granularity
          /\ Mmap!Stripes' = Mmap!Stripes /\ Mmap!TotalSize' = Mmap!TotalSize
          /\ Mmap!Buf' = Mmap!Buf
      BY <1>2, MmapGoto DEF MmapInv, Label
    <2>4. /\ res'.va = [res.va EXCEPT ![Mmap!Buf] = Mmap!TotalSize]
          /\ res'.mapped = res.mapped /\ res'.access = res.access
          /\ res'.handles = res.handles /\ res'.stuck = res.stuck
          /\ res'.va[Mmap!Buf] = Mmap!TotalSize
          /\ \A b \in Mmap!Buffer : b # Mmap!Buf => res'.va[b] = res.va[b]
      BY <1>2, <2>1 DEF MmapInv, Mmap!TypeOK
    <2>5. Mmap!TypeOK'
      <3>1. res'.va \in [Mmap!Buffer -> Nat]
        BY <2>1, <2>4 DEF MmapInv, Mmap!TypeOK
      <3>2. res' \in [va : [Mmap!Buffer -> Nat], mapped : [Mmap!Buffer -> Maps],
                     access : [Mmap!Buffer -> SUBSET Mmap!Device], handles : Seq(Mmap!Device),
                     stuck : BOOLEAN]
        BY <1>2, <2>4, <3>1 DEF MmapInv, Mmap!TypeOK, Maps
      <3> QED BY <2>2, <3>2 DEF MmapInv, Mmap!TypeOK, MmapMain, Label, Maps
    <2>6. Sizes'
      BY <2>1, <2>2 DEF MmapInv, Sizes
    <2>7. \A b \in Mmap!Buffer : b < Mmap!Buf /\ WholeBuffer(b) => WholeBuffer(b)'
      <3>1. \A b \in Mmap!Buffer : b < Mmap!Buf => b # Mmap!Buf
        BY <2>1 DEF Mmap!Buffer
      <3> QED BY <2>2, <2>4, <3>1 DEF WholeBuffer
    <2>8. MappedUpTo(main.idx)'
      <3>1. main.idx = 0 /\ DOMAIN res.mapped[Mmap!Buf] = {} /\ 0..0 - 1 = {}
        BY <2>1 DEF MmapInv, Progressed
      <3> QED BY <2>2, <2>4, <3>1 DEF MappedUpTo
    <2>9. Progressed'
      BY <2>1, <2>2, <2>4, <2>7, <2>8 DEF MmapInv, Progressed, Allocating
    <2>10. CleanedUp'
      BY <2>1, <2>2 DEF CleanedUp
    <2>11. HandlesHeld'
      BY <2>1, <2>2, <2>4 DEF MmapInv, HandlesHeld
    <2> QED BY <2>5, <2>6, <2>9, <2>10, <2>11 DEF MmapInv
  <1> QED BY <1>1, <1>2 DEF Mmap!Reserve

\* The memory of the next stripe is created, and its handle held.
LEMMA MmapCreate == ASSUME Mmap!SizesAssumption, MmapInv, Mmap!Create PROVE MmapInv'
  <1> DEFINE device == main.backing[main.idx + 1]
  <1>1. /\ main.pc = "create" /\ main.exit = "none" /\ Mmap!Buf \in Mmap!Buffer
        /\ Mmap!Stripes \in Nat \ {0} /\ main.idx \in 0..Mmap!Stripes - 1
        /\ device \in Mmap!Device
        /\ res.handles = << >> /\ ~ res.stuck
    <2>1. main.idx \in 0..Mmap!Stripes - 1
      BY MmapSizes DEF MmapInv, Mmap!TypeOK
    <2> QED BY <2>1, MmapSizes
            DEF Mmap!Create, Mmap!At, Mmap!Running, MmapInv, Mmap!TypeOK, Mmap!Buf, HandlesHeld
  <1>2. PICK label \in {"undo", "map"} :
          /\ Mmap!Goto(label)
          /\ label = "undo" => UNCHANGED res
          /\ label = "map" => res' = [res EXCEPT !.handles = Append(@, device)]
    BY DEF Mmap!Create
  <1>3. /\ main' \in MmapMain
        /\ main'.pc = label /\ main'.buf = main.buf /\ main'.idx = main.idx
        /\ main'.total = main.total /\ main'.va_bytes = main.va_bytes
        /\ main'.exit = main.exit
        /\ main'.backing = main.backing /\ main'.granularity = main.granularity
        /\ Mmap!Stripes' = Mmap!Stripes /\ Mmap!TotalSize' = Mmap!TotalSize
        /\ Mmap!Buf' = Mmap!Buf
    BY <1>2, MmapGoto DEF MmapInv, Label
  <1>4. /\ res'.va = res.va /\ res'.mapped = res.mapped /\ res'.access = res.access
        /\ res'.stuck = res.stuck
        /\ label = "undo" => res'.handles = << >>
        /\ label = "map" => res'.handles = Append(<< >>, device)
    BY <1>1, <1>2 DEF MmapInv, Mmap!TypeOK
  <1>5. res'.handles \in Seq(Mmap!Device) /\ (label = "map" => Len(res'.handles) = 1)
    <2>1. << >> \in Seq(Mmap!Device) /\ Len(<< >>) = 0
      BY EmptySeq
    <2>2. CASE label = "undo"
      BY <1>4, <2>1, <2>2
    <2>3. CASE label = "map"
      <3>1. /\ Append(<< >>, device) \in Seq(Mmap!Device)
            /\ Len(Append(<< >>, device)) = Len(<< >>) + 1
        BY <1>1, <2>1, AppendProperties
      <3>2. Len(Append(<< >>, device)) = 1
        BY <2>1, <3>1
      <3>3. res'.handles = Append(<< >>, device)
        BY <1>4, <2>3
      <3> HIDE DEF device
      <3> QED BY <3>1, <3>2, <3>3, Zenon
    <2> QED BY <2>2, <2>3
  <1>6. Mmap!TypeOK'
    BY <1>2, <1>3, <1>4, <1>5 DEF MmapInv, Mmap!TypeOK, MmapMain, Label
  <1>7. Sizes'
    BY <1>1, <1>2, <1>3 DEF MmapInv, Sizes
  <1>8. (\A b \in Mmap!Buffer : WholeBuffer(b)' <=> WholeBuffer(b))
        /\ MappedUpTo(main.idx)' = MappedUpTo(main.idx)
    BY <1>3, <1>4 DEF WholeBuffer, MappedUpTo
  <1>9. Progressed'
    BY <1>1, <1>2, <1>3, <1>4, <1>8 DEF MmapInv, Progressed, Allocating
  <1>10. CleanedUp'
    BY <1>1, <1>2, <1>3 DEF CleanedUp
  <1>11. HandlesHeld'
    BY <1>1, <1>2, <1>3, <1>4, <1>5 DEF HandlesHeld
  <1> QED BY <1>6, <1>7, <1>9, <1>10, <1>11 DEF MmapInv

\* One more stripe is mapped.
LEMMA MmapMapped ==
  ASSUME Mmap!SizesAssumption, MmapInv, main.pc = "map"
  PROVE  /\ Mmap!Mapped \in Maps
         /\ DOMAIN Mmap!Mapped = 0..(main.idx + 1) - 1
         /\ \A i \in 0..(main.idx + 1) - 1 : Mmap!Mapped[i] = main.backing[i + 1]
  <1>1. /\ Mmap!Stripes \in Nat \ {0} /\ main.idx \in 0..Mmap!Stripes - 1
        /\ \A i \in 0..Mmap!Stripes - 1 : main.backing[i + 1] \in Mmap!Device
    BY MmapSizes DEF MmapInv, Mmap!TypeOK
  <1>2. MappedUpTo(main.idx)
    BY DEF MmapInv, Progressed
  <1>3. DOMAIN Mmap!Mapped = 0..(main.idx + 1) - 1
    BY <1>1, <1>2 DEF Mmap!Mapped, MappedUpTo
  <1>4. \A i \in 0..(main.idx + 1) - 1 : Mmap!Mapped[i] = main.backing[i + 1]
    BY <1>1, <1>2 DEF Mmap!Mapped, MappedUpTo
  <1>5. Mmap!Mapped \in [0..(main.idx + 1) - 1 -> Mmap!Device]
    <2>1. \A i \in 0..(main.idx + 1) - 1 : Mmap!Mapped[i] \in Mmap!Device
      BY <1>1, <1>4
    <2>2. Mmap!Mapped = [i \in DOMAIN Mmap!Mapped |-> Mmap!Mapped[i]]
      BY DEF Mmap!Mapped
    <2> QED BY <1>3, <2>1, <2>2
  <1>6. 0..(main.idx + 1) - 1 \in SUBSET (0..Mmap!Stripes - 1)
    BY <1>1
  <1> QED BY <1>3, <1>4, <1>5, <1>6 DEF Maps

\* The next stripe is mapped, and its handle released, or the undoing begins.
LEMMA MmapMap == ASSUME Mmap!SizesAssumption, MmapInv, Mmap!MapAndRelease PROVE MmapInv'
  <1>1. /\ main.pc = "map" /\ main.exit = "none" /\ Mmap!Buf \in Mmap!Buffer
        /\ Mmap!Stripes \in Nat \ {0} /\ main.idx \in 0..Mmap!Stripes - 1
        /\ Len(res.handles) = 1 /\ res.handles \in Seq(Mmap!Device) /\ ~ res.stuck
    <2>1. main.idx \in 0..Mmap!Stripes - 1
      BY MmapSizes DEF MmapInv, Mmap!TypeOK
    <2> QED BY <2>1, MmapSizes
            DEF Mmap!MapAndRelease, Mmap!At, Mmap!Running, MmapInv, Mmap!TypeOK, Mmap!Buf,
                HandlesHeld
  <1>2. PICK map \in BOOLEAN, release \in BOOLEAN :
          /\ IF map /\ release THEN Mmap!NextStripe ELSE Mmap!Goto("undo")
          /\ res' = [res EXCEPT !.mapped[Mmap!Buf] = IF map THEN Mmap!Mapped ELSE @,
                               !.handles = IF release THEN Mmap!OneHandleLess ELSE @,
                               !.stuck = ~ release]
    BY DEF Mmap!MapAndRelease
  <1>3. Mmap!OneHandleLess = << >> /\ << >> \in Seq(Mmap!Device)
    <2>1. Mmap!OneHandleLess = SubSeq(res.handles, 1, 0)
      BY <1>1 DEF Mmap!OneHandleLess
    <2>2. SubSeq(res.handles, 1, 0) = << >>
      BY <1>1, SubSeqEmpty
    <2> QED BY <2>1, <2>2
  <1> DEFINE mapped == IF map THEN Mmap!Mapped ELSE res.mapped[Mmap!Buf]
  <1>4. mapped \in Maps
    BY <1>1, MmapMapped DEF MmapInv, Mmap!TypeOK, Maps
  <1>5. /\ res'.va = res.va /\ res'.access = res.access /\ res'.stuck = ~ release
        /\ res'.mapped = [res.mapped EXCEPT ![Mmap!Buf] = mapped]
        /\ res'.handles = IF release THEN << >> ELSE res.handles
        /\ res'.handles \in Seq(Mmap!Device)
    BY <1>1, <1>2, <1>3 DEF MmapInv, Mmap!TypeOK
  <1>6. /\ res'.mapped \in [Mmap!Buffer -> Maps] /\ res'.mapped[Mmap!Buf] = mapped
        /\ \A b \in Mmap!Buffer : b # Mmap!Buf => res'.mapped[b] = res.mapped[b]
    <2>1. res.mapped \in [Mmap!Buffer -> Maps]
      BY DEF MmapInv, Mmap!TypeOK, Maps
    <2> HIDE DEF mapped
    <2> QED BY <1>1, <1>4, <1>5, <2>1
  <1>7. res' \in [va : [Mmap!Buffer -> Nat], mapped : [Mmap!Buffer -> Maps],
                 access : [Mmap!Buffer -> SUBSET Mmap!Device], handles : Seq(Mmap!Device),
                 stuck : BOOLEAN]
    <2> HIDE DEF mapped
    <2> QED BY <1>2, <1>5, <1>6 DEF MmapInv, Mmap!TypeOK, Maps
  <1>8. CASE map /\ release
    <2>1. Mmap!NextStripe
      BY <1>2, <1>8
    <2>2. /\ main' \in MmapMain
          /\ main'.buf = main.buf /\ main'.total = main.total
          /\ main'.va_bytes = main.va_bytes /\ main'.exit = main.exit
          /\ main'.backing = main.backing /\ main'.granularity = main.granularity
          /\ \/ /\ main.idx + 1 < Mmap!Stripes
                /\ main'.pc = "create" /\ main'.idx = main.idx + 1
             \/ /\ main.idx + 1 = Mmap!Stripes
                /\ main'.pc = "access" /\ main'.idx = main.idx
      <3>1. CASE main.idx + 1 < Mmap!Stripes
        <4>1. main' = [main EXCEPT !.idx = main.idx + 1, !.pc = "create"]
          BY <2>1, <3>1 DEF Mmap!NextStripe
        <4>2. main.idx + 1 \in Nat
          BY <1>1
        <4> QED BY <3>1, <4>1, <4>2 DEF MmapInv, Mmap!TypeOK, MmapMain, Label
      <3>2. CASE ~ (main.idx + 1 < Mmap!Stripes)
        <4>1. main' = [main EXCEPT !.pc = "access"]
          BY <2>1, <3>2 DEF Mmap!NextStripe
        <4>2. main.idx + 1 = Mmap!Stripes
          BY <1>1, <3>2
        <4> QED BY <4>1, <4>2 DEF MmapInv, Mmap!TypeOK, MmapMain, Label
      <3> QED BY <3>1, <3>2
    <2>3. Mmap!Stripes' = Mmap!Stripes /\ Mmap!TotalSize' = Mmap!TotalSize
          /\ Mmap!Buf' = Mmap!Buf
      BY <2>2, MmapFrame DEF Mmap!Buf
    <2>4. Mmap!TypeOK'
      <3>1. main'.idx < Mmap!Stripes'
        BY <1>1, <2>2, <2>3
      <3> QED BY <1>7, <2>2, <2>3, <3>1 DEF MmapInv, Mmap!TypeOK, MmapMain, Label, Maps
    <2>5. Sizes'
      BY <1>1, <2>2, <2>3 DEF MmapInv, Sizes
    <2>6. \A b \in Mmap!Buffer : b < Mmap!Buf /\ WholeBuffer(b) => WholeBuffer(b)'
      <3>1. \A b \in Mmap!Buffer : b < Mmap!Buf => b # Mmap!Buf
        BY <1>1 DEF Mmap!Buffer
      <3> QED BY <1>5, <1>6, <2>2, <2>3, <3>1 DEF WholeBuffer
    <2>7. \A b \in Mmap!Buffer : b > Mmap!Buf => res'.mapped[b] = res.mapped[b]
      <3>1. \A b \in Mmap!Buffer : b > Mmap!Buf => b # Mmap!Buf
        BY <1>1 DEF Mmap!Buffer
      <3> QED BY <1>6, <3>1
    <2>8. ASSUME NEW n, n = main.idx + 1 PROVE MappedUpTo(n)'
      <3>1. res.va[Mmap!Buf] = Mmap!TotalSize
        BY <1>1 DEF MmapInv, Progressed, MappedUpTo
      <3>2. main'.backing = main.backing /\ res'.mapped[Mmap!Buf'] = Mmap!Mapped
            /\ res'.va[Mmap!Buf'] = Mmap!TotalSize'
        BY <1>5, <1>6, <1>8, <2>2, <2>3, <3>1
      <3>3. DOMAIN Mmap!Mapped = 0..n - 1
            /\ \A i \in 0..n - 1 : Mmap!Mapped[i] = main.backing[i + 1]
        BY <1>1, <2>8, MmapMapped
      <3> QED BY <3>2, <3>3 DEF MappedUpTo
    <2>9. Progressed'
      BY <1>1, <2>2, <2>3, <2>6, <2>7, <2>8 DEF MmapInv, Progressed, Allocating
    <2>10. CleanedUp'
      BY <1>1, <2>2 DEF CleanedUp
    <2>11. HandlesHeld'
      BY <1>5, <1>8, <2>2 DEF HandlesHeld
    <2> QED BY <2>4, <2>5, <2>9, <2>10, <2>11 DEF MmapInv
  <1>9. CASE ~ (map /\ release)
    <2>1. /\ main' \in MmapMain
          /\ main'.pc = "undo" /\ main'.buf = main.buf /\ main'.idx = main.idx
          /\ main'.total = main.total /\ main'.va_bytes = main.va_bytes
          /\ main'.exit = main.exit
          /\ main'.backing = main.backing /\ main'.granularity = main.granularity
          /\ Mmap!Stripes' = Mmap!Stripes /\ Mmap!TotalSize' = Mmap!TotalSize
          /\ Mmap!Buf' = Mmap!Buf
      BY <1>2, <1>9, MmapGoto DEF MmapInv, Label
    <2>2. Mmap!TypeOK'
      BY <1>7, <2>1 DEF MmapInv, Mmap!TypeOK, MmapMain, Label, Maps
    <2>3. Sizes'
      BY <1>1, <2>1 DEF MmapInv, Sizes
    <2>4. Progressed'
      BY <2>1 DEF Progressed, Allocating
    <2>5. CleanedUp'
      BY <1>1, <2>1 DEF CleanedUp
    <2>6. HandlesHeld'
      BY <1>5, <2>1 DEF HandlesHeld
    <2> QED BY <2>2, <2>3, <2>4, <2>5, <2>6 DEF MmapInv
  <1> QED BY <1>8, <1>9

\* The buffer at hand is whole, and the next begins or both are used.
LEMMA MmapAccess == ASSUME Mmap!SizesAssumption, MmapInv, Mmap!SetAccess PROVE MmapInv'
  <1>1. /\ main.pc = "access" /\ main.exit = "none" /\ Mmap!Buf \in Mmap!Buffer
        /\ Mmap!Primary \in Mmap!Device /\ MappedUpTo(Mmap!Stripes)
        /\ res.handles = << >> /\ ~ res.stuck
    BY DEF Mmap!SetAccess, Mmap!At, Mmap!Running, MmapInv, Mmap!TypeOK, Mmap!Buf, HandlesHeld,
           Progressed, Mmap!Primary, Mmap!Device, Mmap!SizesAssumption
  <1>2. CASE Mmap!Goto("undo") /\ UNCHANGED res
    <2>1. /\ main' \in MmapMain
          /\ main'.pc = "undo" /\ main'.buf = main.buf /\ main'.idx = main.idx
          /\ main'.total = main.total /\ main'.va_bytes = main.va_bytes
          /\ main'.exit = main.exit
          /\ main'.backing = main.backing /\ main'.granularity = main.granularity
          /\ Mmap!Stripes' = Mmap!Stripes /\ Mmap!TotalSize' = Mmap!TotalSize
          /\ Mmap!Buf' = Mmap!Buf
      BY <1>2, MmapGoto DEF MmapInv, Label
    <2>2. Mmap!TypeOK'
      BY <1>2, <2>1 DEF MmapInv, Mmap!TypeOK, MmapMain, Label
    <2>3. Sizes'
      BY <1>1, <2>1 DEF MmapInv, Sizes
    <2>4. Progressed'
      BY <2>1 DEF Progressed, Allocating
    <2>5. CleanedUp'
      BY <1>1, <2>1 DEF CleanedUp
    <2>6. HandlesHeld'
      BY <1>1, <1>2, <2>1 DEF HandlesHeld
    <2> QED BY <2>2, <2>3, <2>4, <2>5, <2>6 DEF MmapInv
  <1>3. CASE /\ res' = [res EXCEPT !.access[Mmap!Buf] = {Mmap!Primary}]
             /\ main' = IF Mmap!Buf < 3 THEN [main EXCEPT !.buf = @ + 1, !.pc = "query"]
                                        ELSE [main EXCEPT !.pc = "use"]
    <2>1. /\ main' \in MmapMain
          /\ main'.total = main.total /\ main'.idx = main.idx
          /\ main'.va_bytes = main.va_bytes /\ main'.exit = main.exit
          /\ main'.backing = main.backing /\ main'.granularity = main.granularity
          /\ \/ Mmap!Buf < 3 /\ main'.pc = "query" /\ main'.buf = Mmap!Buf + 1
             \/ Mmap!Buf = 3 /\ main'.pc = "use" /\ main'.buf = Mmap!Buf
      <3>1. CASE Mmap!Buf < 3
        <4>1. main' = [main EXCEPT !.buf = Mmap!Buf + 1, !.pc = "query"]
          BY <1>3, <3>1 DEF Mmap!Buf
        <4>2. Mmap!Buf + 1 \in Mmap!Buffer
          BY <1>1, <3>1 DEF Mmap!Buffer
        <4> QED BY <3>1, <4>1, <4>2 DEF MmapInv, Mmap!TypeOK, MmapMain, Label
      <3>2. CASE ~ (Mmap!Buf < 3)
        <4>1. main' = [main EXCEPT !.pc = "use"]
          BY <1>3, <3>2
        <4>2. Mmap!Buf = 3
          BY <1>1, <3>2 DEF Mmap!Buffer
        <4> QED BY <4>1, <4>2 DEF MmapInv, Mmap!TypeOK, MmapMain, Label, Mmap!Buf
      <3> QED BY <3>1, <3>2
    <2>2. Mmap!Stripes' = Mmap!Stripes /\ Mmap!TotalSize' = Mmap!TotalSize
      BY <2>1, MmapFrame
    <2>3. /\ res'.va = res.va /\ res'.mapped = res.mapped
          /\ res'.handles = res.handles /\ res'.stuck = res.stuck
          /\ res'.access = [res.access EXCEPT ![Mmap!Buf] = {Mmap!Primary}]
      BY <1>1, <1>3 DEF MmapInv, Mmap!TypeOK
    <2>4. /\ res'.access \in [Mmap!Buffer -> SUBSET Mmap!Device]
          /\ res'.access[Mmap!Buf] = {Mmap!Primary}
          /\ \A b \in Mmap!Buffer : b # Mmap!Buf => res'.access[b] = res.access[b]
      BY <1>1, <2>3 DEF MmapInv, Mmap!TypeOK
    <2>5. res' \in [va : [Mmap!Buffer -> Nat], mapped : [Mmap!Buffer -> Maps],
                   access : [Mmap!Buffer -> SUBSET Mmap!Device], handles : Seq(Mmap!Device),
                   stuck : BOOLEAN]
      BY <1>3, <2>3, <2>4 DEF MmapInv, Mmap!TypeOK, Maps
    <2>6. Mmap!TypeOK'
      BY <2>1, <2>2, <2>5 DEF MmapInv, Mmap!TypeOK, MmapMain, Label, Maps
    <2>7. Sizes'
      BY <1>1, <2>1, <2>2 DEF MmapInv, Sizes
    <2>8. \A b \in Mmap!Buffer : b <= Mmap!Buf => WholeBuffer(b)'
      <3>2. ASSUME NEW b \in Mmap!Buffer, b = Mmap!Buf PROVE WholeBuffer(b)'
        BY <1>1, <2>1, <2>2, <2>3, <2>4, <3>2 DEF WholeBuffer, MappedUpTo
      <3>3. ASSUME NEW b \in Mmap!Buffer, b < Mmap!Buf PROVE WholeBuffer(b)'
        <4>1. WholeBuffer(b) /\ b # Mmap!Buf
          BY <1>1, <3>3 DEF MmapInv, Progressed, Allocating, Mmap!Buffer
        <4> QED BY <2>1, <2>2, <2>3, <2>4, <4>1 DEF WholeBuffer
      <3>4. \A b \in Mmap!Buffer : b <= Mmap!Buf => b = Mmap!Buf \/ b < Mmap!Buf
        BY <1>1 DEF Mmap!Buffer
      <3> QED BY <3>2, <3>3, <3>4
    <2>9. ASSUME Mmap!Buf < 3, main'.pc = "query", main'.buf = Mmap!Buf + 1
          PROVE  Progressed'
      <3>1. \A b \in Mmap!Buffer : /\ b < Mmap!Buf' => b <= Mmap!Buf
                                   /\ b >= Mmap!Buf' => b > Mmap!Buf
        BY <1>1, <2>9 DEF Mmap!Buf, Mmap!Buffer
      <3>2. \A b \in Mmap!Buffer : b > Mmap!Buf => DOMAIN res'.mapped[b] = {}
        BY <1>1, <2>3 DEF MmapInv, Progressed, Allocating
      <3>3. Mmap!Buf' \in Mmap!Buffer /\ Mmap!Buf' >= Mmap!Buf'
            /\ \A b \in Mmap!Buffer : b > Mmap!Buf' => b >= Mmap!Buf'
        BY <1>1, <2>9 DEF Mmap!Buf, Mmap!Buffer
      <3> QED BY <2>8, <2>9, <3>1, <3>2, <3>3 DEF Progressed, Allocating
    <2>10. ASSUME Mmap!Buf = 3, main'.pc = "use", main'.buf = Mmap!Buf
           PROVE  Progressed'
      <3>1. \A b \in Mmap!Buffer : b <= Mmap!Buf
        BY <2>10 DEF Mmap!Buffer
      <3> QED BY <2>8, <2>10, <3>1 DEF Progressed, Allocating
    <2>11. CleanedUp'
      BY <1>1, <2>1 DEF CleanedUp
    <2>12. HandlesHeld'
      BY <1>1, <2>1, <2>3 DEF HandlesHeld
    <2> QED BY <2>1, <2>6, <2>7, <2>9, <2>10, <2>11, <2>12 DEF MmapInv
  <1> QED BY <1>2, <1>3 DEF Mmap!SetAccess

\* The range of a buffer is unmapped; Goto's label is reached.
LEMMA MmapUnmapped ==
  ASSUME MmapInv, res' = [res EXCEPT !.mapped[Mmap!Buf] = << >>, !.access[Mmap!Buf] = {}]
  PROVE  /\ Mmap!Buf \in Mmap!Buffer
         /\ res' \in [va : [Mmap!Buffer -> Nat], mapped : [Mmap!Buffer -> Maps],
                      access : [Mmap!Buffer -> SUBSET Mmap!Device], handles : Seq(Mmap!Device),
                      stuck : BOOLEAN]
         /\ res'.va = res.va /\ res'.handles = res.handles /\ res'.stuck = res.stuck
         /\ DOMAIN res'.mapped[Mmap!Buf] = {}
         /\ \A b \in Mmap!Buffer : b # Mmap!Buf => res'.mapped[b] = res.mapped[b]
  <1>1. << >> \in Maps /\ DOMAIN << >> = {}
    <2>1. DOMAIN << >> = {} /\ << >> \in [{} -> Mmap!Device]
      BY EmptySeq, LenProperties
    <2> QED BY <2>1 DEF Maps
  <1>2. Mmap!Buf \in Mmap!Buffer /\ res.mapped \in [Mmap!Buffer -> Maps]
        /\ res.access \in [Mmap!Buffer -> SUBSET Mmap!Device]
    BY DEF MmapInv, Mmap!TypeOK, Mmap!Buf, Maps
  <1>3. /\ res'.va = res.va /\ res'.handles = res.handles /\ res'.stuck = res.stuck
        /\ res'.mapped = [res.mapped EXCEPT ![Mmap!Buf] = << >>]
        /\ res'.access = [res.access EXCEPT ![Mmap!Buf] = {}]
    BY DEF MmapInv, Mmap!TypeOK
  <1>4. /\ res'.mapped \in [Mmap!Buffer -> Maps]
        /\ res'.mapped[Mmap!Buf] = << >>
        /\ \A b \in Mmap!Buffer : b # Mmap!Buf => res'.mapped[b] = res.mapped[b]
    BY <1>1, <1>2, <1>3
  <1>5. res'.access \in [Mmap!Buffer -> SUBSET Mmap!Device]
    BY <1>2, <1>3
  <1> QED BY <1>1, <1>2, <1>3, <1>4, <1>5 DEF MmapInv, Mmap!TypeOK, Maps

\* The undoing unmaps what the buffer at hand has mapped.
LEMMA MmapUndoUnmap == ASSUME Mmap!SizesAssumption, MmapInv, Mmap!UndoUnmap PROVE MmapInv'
  <1>1. main.pc = "undo" /\ main.exit = "none"
    BY DEF Mmap!UndoUnmap, Mmap!Unmap, Mmap!At, Mmap!Running
  <1>2. CASE Mmap!Failed /\ UNCHANGED res
    BY <1>1, <1>2, MmapFailed DEF Mmap!Running
  <1>3. CASE /\ res' = [res EXCEPT !.mapped[Mmap!Buf] = << >>, !.access[Mmap!Buf] = {}]
             /\ Mmap!Goto("undo_free")
    <2>1. /\ main' \in MmapMain
          /\ main'.pc = "undo_free" /\ main'.buf = main.buf /\ main'.idx = main.idx
          /\ main'.total = main.total /\ main'.va_bytes = main.va_bytes
          /\ main'.exit = main.exit
          /\ main'.backing = main.backing /\ main'.granularity = main.granularity
          /\ Mmap!Stripes' = Mmap!Stripes /\ Mmap!TotalSize' = Mmap!TotalSize
          /\ Mmap!Buf' = Mmap!Buf
      BY <1>3, MmapGoto DEF MmapInv, Label
    <2>2. /\ res' \in [va : [Mmap!Buffer -> Nat], mapped : [Mmap!Buffer -> Maps],
                       access : [Mmap!Buffer -> SUBSET Mmap!Device], handles : Seq(Mmap!Device),
                       stuck : BOOLEAN]
          /\ res'.handles = res.handles /\ res'.stuck = res.stuck
      BY <1>3, MmapUnmapped
    <2>3. Mmap!TypeOK'
      BY <2>1, <2>2 DEF MmapInv, Mmap!TypeOK, MmapMain, Label, Maps
    <2>4. Sizes'
      BY <1>1, <2>1 DEF MmapInv, Sizes
    <2>5. Progressed'
      BY <2>1 DEF Progressed, Allocating
    <2>6. CleanedUp'
      BY <1>1, <2>1 DEF CleanedUp
    <2>7. HandlesHeld'
      BY <1>1, <2>1, <2>2 DEF MmapInv, HandlesHeld
    <2> QED BY <2>3, <2>4, <2>5, <2>6, <2>7 DEF MmapInv
  <1> QED BY <1>2, <1>3 DEF Mmap!UndoUnmap, Mmap!Unmap

\* What is reserved for a buffer is returned.
LEMMA MmapAddressFreed ==
  ASSUME MmapInv, NEW size, Mmap!AddressFree(size)
  PROVE  /\ Mmap!Buf \in Mmap!Buffer
         /\ res' \in [va : [Mmap!Buffer -> Nat], mapped : [Mmap!Buffer -> Maps],
                      access : [Mmap!Buffer -> SUBSET Mmap!Device], handles : Seq(Mmap!Device),
                      stuck : BOOLEAN]
         /\ res'.mapped = res.mapped /\ res'.handles = res.handles /\ res'.stuck = res.stuck
         /\ res'.va[Mmap!Buf] = 0
         /\ \A b \in Mmap!Buffer : b # Mmap!Buf => res'.va[b] = res.va[b]
  <1>1. Mmap!Buf \in Mmap!Buffer /\ res.va \in [Mmap!Buffer -> Nat]
    BY DEF MmapInv, Mmap!TypeOK, Mmap!Buf
  <1>2. /\ res'.mapped = res.mapped /\ res'.handles = res.handles /\ res'.stuck = res.stuck
        /\ res'.access = res.access /\ res'.va = [res.va EXCEPT ![Mmap!Buf] = 0]
        /\ res' = [res EXCEPT !.va[Mmap!Buf] = 0]
    BY DEF MmapInv, Mmap!TypeOK, Mmap!AddressFree
  <1>3. /\ res'.va \in [Mmap!Buffer -> Nat] /\ res'.va[Mmap!Buf] = 0
        /\ \A b \in Mmap!Buffer : b # Mmap!Buf => res'.va[b] = res.va[b]
    BY <1>1, <1>2
  <1> QED BY <1>1, <1>2, <1>3 DEF MmapInv, Mmap!TypeOK, Maps

\* The undoing frees the addresses, and the program fails.
LEMMA MmapUndoFree == ASSUME Mmap!SizesAssumption, MmapInv, Mmap!UndoFree PROVE MmapInv'
  <1>1. main.pc = "undo_free" /\ main.exit = "none" /\ Mmap!Failed
    BY DEF Mmap!UndoFree, Mmap!At, Mmap!Running
  <1>2. CASE UNCHANGED res
    BY <1>1, <1>2, MmapFailed DEF Mmap!Running
  <1>3. CASE Mmap!AddressFree(main.total)
    <2>1. /\ main' \in MmapMain
          /\ main'.pc = "undo_free" /\ main'.exit = "error" /\ main'.buf = main.buf
          /\ main'.va_bytes = main.va_bytes /\ main'.total = main.total
          /\ main'.idx = main.idx
          /\ main'.backing = main.backing /\ main'.granularity = main.granularity
      BY <1>1 DEF MmapInv, Mmap!TypeOK, MmapMain, Label, Mmap!Failed
    <2>2. Mmap!Stripes' = Mmap!Stripes /\ Mmap!TotalSize' = Mmap!TotalSize
      BY <2>1, MmapFrame
    <2>3. Mmap!TypeOK'
      BY <1>3, <2>1, <2>2, MmapAddressFreed DEF MmapInv, Mmap!TypeOK, MmapMain, Label, Maps
    <2>4. Sizes'
      BY <1>1, <2>1, <2>2 DEF MmapInv, Sizes
    <2>5. Progressed'
      BY <2>1 DEF Progressed, Allocating
    <2>6. CleanedUp'
      BY <2>1 DEF CleanedUp
    <2>7. HandlesHeld'
      BY <1>1, <1>3, <2>1, MmapAddressFreed DEF MmapInv, HandlesHeld
    <2> QED BY <2>3, <2>4, <2>5, <2>6, <2>7 DEF MmapInv
  <1> QED BY <1>2, <1>3 DEF Mmap!UndoFree

\* The buffers are used, and the cleanup begins with the first.
LEMMA MmapUse == ASSUME Mmap!SizesAssumption, MmapInv, Mmap!UseBuffers PROVE MmapInv'
  <1>1. main.pc = "use" /\ main.exit = "none" /\ UNCHANGED res
    BY DEF Mmap!UseBuffers, Mmap!At, Mmap!Running
  <1>2. CASE Mmap!Failed
    BY <1>1, <1>2, MmapFailed DEF Mmap!Running
  <1>3. CASE main' = [main EXCEPT !.pc = "cleanup", !.buf = 1]
    <2>1. /\ main' \in MmapMain
          /\ main'.pc = "cleanup" /\ main'.exit = main.exit /\ main'.buf = 1
          /\ main'.va_bytes = main.va_bytes /\ main'.total = main.total
          /\ main'.idx = main.idx
          /\ main'.backing = main.backing /\ main'.granularity = main.granularity
      <3>1. 1 \in Mmap!Buffer
        BY DEF Mmap!Buffer
      <3> QED BY <1>3, <3>1 DEF MmapInv, Mmap!TypeOK, MmapMain, Label
    <2>2. Mmap!Stripes' = Mmap!Stripes /\ Mmap!TotalSize' = Mmap!TotalSize
      BY <2>1, MmapFrame
    <2>3. Mmap!TypeOK'
      BY <1>1, <2>1, <2>2 DEF MmapInv, Mmap!TypeOK, MmapMain, Label
    <2>4. Sizes'
      BY <1>1, <2>1, <2>2 DEF MmapInv, Sizes
    <2>5. Progressed'
      BY <2>1 DEF Progressed, Allocating
    <2>6. CleanedUp'
      <3>1. \A b \in Mmap!Buffer : ~ (b < Mmap!Buf')
        BY <2>1 DEF Mmap!Buf, Mmap!Buffer
      <3> QED BY <1>1, <2>1, <3>1 DEF CleanedUp
    <2>7. HandlesHeld'
      BY <1>1, <2>1 DEF MmapInv, HandlesHeld
    <2> QED BY <2>3, <2>4, <2>5, <2>6, <2>7 DEF MmapInv
  <1> QED BY <1>2, <1>3 DEF Mmap!UseBuffers

\* The cleanup unmaps a buffer.
LEMMA MmapCleanupUnmap == ASSUME Mmap!SizesAssumption, MmapInv, Mmap!CleanupUnmap PROVE MmapInv'
  <1>1. main.pc = "cleanup" /\ main.exit = "none"
    BY DEF Mmap!CleanupUnmap, Mmap!Unmap, Mmap!At, Mmap!Running
  <1>2. CASE Mmap!Failed /\ UNCHANGED res
    BY <1>1, <1>2, MmapFailed DEF Mmap!Running
  <1>3. CASE /\ res' = [res EXCEPT !.mapped[Mmap!Buf] = << >>, !.access[Mmap!Buf] = {}]
             /\ Mmap!Goto("cleanup_free")
    <2>1. /\ main' \in MmapMain
          /\ main'.pc = "cleanup_free" /\ main'.buf = main.buf /\ main'.idx = main.idx
          /\ main'.total = main.total /\ main'.va_bytes = main.va_bytes
          /\ main'.exit = main.exit
          /\ main'.backing = main.backing /\ main'.granularity = main.granularity
          /\ Mmap!Stripes' = Mmap!Stripes /\ Mmap!TotalSize' = Mmap!TotalSize
          /\ Mmap!Buf' = Mmap!Buf
      BY <1>3, MmapGoto DEF MmapInv, Label
    <2>2. /\ res' \in [va : [Mmap!Buffer -> Nat], mapped : [Mmap!Buffer -> Maps],
                       access : [Mmap!Buffer -> SUBSET Mmap!Device], handles : Seq(Mmap!Device),
                       stuck : BOOLEAN]
          /\ res'.va = res.va /\ res'.handles = res.handles /\ res'.stuck = res.stuck
          /\ DOMAIN res'.mapped[Mmap!Buf] = {}
          /\ \A b \in Mmap!Buffer : b # Mmap!Buf => res'.mapped[b] = res.mapped[b]
          /\ Mmap!Buf \in Mmap!Buffer
      BY <1>3, MmapUnmapped
    <2>3. Mmap!TypeOK'
      BY <2>1, <2>2 DEF MmapInv, Mmap!TypeOK, MmapMain, Label, Maps
    <2>4. Sizes'
      BY <1>1, <2>1 DEF MmapInv, Sizes
    <2>5. Progressed'
      BY <2>1 DEF Progressed, Allocating
    <2>6. CleanedUp'
      <3>1. \A b \in Mmap!Buffer : b < Mmap!Buf => b # Mmap!Buf /\ Mmap!NothingIn(b)
        BY <1>1, <2>2 DEF MmapInv, CleanedUp, Mmap!Buffer
      <3>2. \A b \in Mmap!Buffer : b < Mmap!Buf => Mmap!NothingIn(b)'
        BY <2>2, <3>1 DEF Mmap!NothingIn
      <3> QED BY <1>1, <2>1, <2>2, <3>2 DEF CleanedUp
    <2>7. HandlesHeld'
      BY <1>1, <2>1, <2>2 DEF MmapInv, HandlesHeld
    <2> QED BY <2>3, <2>4, <2>5, <2>6, <2>7 DEF MmapInv
  <1> QED BY <1>2, <1>3 DEF Mmap!CleanupUnmap, Mmap!Unmap

\* The cleanup frees its addresses, and comes to the next or ends.
LEMMA MmapCleanupFree == ASSUME Mmap!SizesAssumption, MmapInv, Mmap!CleanupFree PROVE MmapInv'
  <1>1. main.pc = "cleanup_free" /\ main.exit = "none" /\ Mmap!Buf \in Mmap!Buffer
    BY DEF Mmap!CleanupFree, Mmap!At, Mmap!Running, MmapInv, Mmap!TypeOK, Mmap!Buf
  <1>2. CASE Mmap!Failed /\ UNCHANGED res
    BY <1>1, <1>2, MmapFailed DEF Mmap!Running
  <1>3. CASE /\ Mmap!AddressFree(main.va_bytes)
             /\ main' = IF Mmap!Buf < 3 THEN [main EXCEPT !.buf = @ + 1, !.pc = "cleanup"]
                                        ELSE [main EXCEPT !.exit = "success"]
    <2>1. /\ main' \in MmapMain
          /\ main'.total = main.total /\ main'.idx = main.idx
          /\ main'.va_bytes = main.va_bytes
          /\ main'.backing = main.backing /\ main'.granularity = main.granularity
          /\ \/ Mmap!Buf < 3 /\ main'.pc = "cleanup" /\ main'.buf = Mmap!Buf + 1
                /\ main'.exit = "none"
             \/ Mmap!Buf = 3 /\ main'.pc = "cleanup_free" /\ main'.buf = Mmap!Buf
                /\ main'.exit = "success"
      <3>1. CASE Mmap!Buf < 3
        <4>1. main' = [main EXCEPT !.buf = Mmap!Buf + 1, !.pc = "cleanup"]
          BY <1>3, <3>1 DEF Mmap!Buf
        <4>2. Mmap!Buf + 1 \in Mmap!Buffer
          BY <1>1, <3>1 DEF Mmap!Buffer
        <4> QED BY <1>1, <3>1, <4>1, <4>2 DEF MmapInv, Mmap!TypeOK, MmapMain, Label
      <3>2. CASE ~ (Mmap!Buf < 3)
        <4>1. main' = [main EXCEPT !.exit = "success"]
          BY <1>3, <3>2
        <4>2. Mmap!Buf = 3
          BY <1>1, <3>2 DEF Mmap!Buffer
        <4> QED BY <1>1, <4>1, <4>2 DEF MmapInv, Mmap!TypeOK, MmapMain, Label, Mmap!Buf
      <3> QED BY <3>1, <3>2
    <2>2. Mmap!Stripes' = Mmap!Stripes /\ Mmap!TotalSize' = Mmap!TotalSize
      BY <2>1, MmapFrame
    <2>3. /\ res' \in [va : [Mmap!Buffer -> Nat], mapped : [Mmap!Buffer -> Maps],
                       access : [Mmap!Buffer -> SUBSET Mmap!Device], handles : Seq(Mmap!Device),
                       stuck : BOOLEAN]
          /\ res'.mapped = res.mapped /\ res'.handles = res.handles /\ res'.stuck = res.stuck
          /\ res'.va[Mmap!Buf] = 0
          /\ \A b \in Mmap!Buffer : b # Mmap!Buf => res'.va[b] = res.va[b]
      BY <1>3, MmapAddressFreed
    <2>4. Mmap!TypeOK'
      BY <2>1, <2>2, <2>3 DEF MmapInv, Mmap!TypeOK, MmapMain, Label, Maps
    <2>5. Sizes'
      BY <1>1, <2>1, <2>2 DEF MmapInv, Sizes
    <2>6. Progressed'
      BY <2>1 DEF Progressed, Allocating
    <2>7. \A b \in Mmap!Buffer : b <= Mmap!Buf => Mmap!NothingIn(b)'
      <3>1. ASSUME NEW b \in Mmap!Buffer, b = Mmap!Buf PROVE Mmap!NothingIn(b)'
        BY <1>1, <2>3, <3>1 DEF MmapInv, CleanedUp, Mmap!NothingIn
      <3>2. ASSUME NEW b \in Mmap!Buffer, b < Mmap!Buf PROVE Mmap!NothingIn(b)'
        <4>1. Mmap!NothingIn(b) /\ b # Mmap!Buf
          BY <1>1, <3>2 DEF MmapInv, CleanedUp, Mmap!Buffer
        <4> QED BY <2>3, <4>1 DEF Mmap!NothingIn
      <3>3. \A b \in Mmap!Buffer : b <= Mmap!Buf => b = Mmap!Buf \/ b < Mmap!Buf
        BY <1>1 DEF Mmap!Buffer
      <3> QED BY <3>1, <3>2, <3>3
    <2>8. ASSUME Mmap!Buf < 3, main'.pc = "cleanup", main'.buf = Mmap!Buf + 1,
                 main'.exit = "none"
          PROVE  CleanedUp'
      <3>1. \A b \in Mmap!Buffer : b < Mmap!Buf' => b <= Mmap!Buf
        BY <1>1, <2>8 DEF Mmap!Buf, Mmap!Buffer
      <3> QED BY <2>7, <2>8, <3>1 DEF CleanedUp
    <2>9. ASSUME Mmap!Buf = 3, main'.pc = "cleanup_free", main'.buf = Mmap!Buf
          PROVE  CleanedUp'
      <3>1. \A b \in Mmap!Buffer : b <= Mmap!Buf
        BY <2>9 DEF Mmap!Buffer
      <3>2. \A b \in Mmap!Buffer : Mmap!NothingIn(b)'
        BY <2>7, <3>1
      <3>3. DOMAIN res'.mapped[Mmap!Buf'] = {}
        BY <1>1, <2>3, <2>9 DEF MmapInv, CleanedUp, Mmap!Buf
      <3> QED BY <2>9, <3>2, <3>3 DEF CleanedUp
    <2>10. HandlesHeld'
      BY <1>1, <2>1, <2>3 DEF MmapInv, HandlesHeld
    <2> QED BY <2>1, <2>4, <2>5, <2>6, <2>8, <2>9, <2>10 DEF MmapInv
  <1> QED BY <1>2, <1>3 DEF Mmap!CleanupFree

\* Every step keeps the invariant.
LEMMA MmapStep ==
  ASSUME Mmap!SizesAssumption, MmapInv, [Mmap!Next]_Mmap!machine
  PROVE  MmapInv'
  <1>1. CASE Mmap!Query
    BY <1>1, MmapQuery
  <1>2. CASE Mmap!Reserve
    BY <1>2, MmapReserve
  <1>3. CASE Mmap!Create
    BY <1>3, MmapCreate
  <1>4. CASE Mmap!MapAndRelease
    BY <1>4, MmapMap
  <1>5. CASE Mmap!SetAccess
    BY <1>5, MmapAccess
  <1>6. CASE Mmap!UndoUnmap
    BY <1>6, MmapUndoUnmap
  <1>7. CASE Mmap!UndoFree
    BY <1>7, MmapUndoFree
  <1>8. CASE Mmap!UseBuffers
    BY <1>8, MmapUse
  <1>9. CASE Mmap!CleanupUnmap
    BY <1>9, MmapCleanupUnmap
  <1>10. CASE Mmap!CleanupFree
    BY <1>10, MmapCleanupFree
  <1>11. CASE UNCHANGED Mmap!machine
    <2>1. UNCHANGED << main, res >>
      BY <1>11 DEF Mmap!machine
    <2>2. /\ Mmap!Stripes' = Mmap!Stripes /\ Mmap!TotalSize' = Mmap!TotalSize
          /\ Mmap!Buf' = Mmap!Buf
      BY <2>1, MmapFrame DEF Mmap!Buf
    <2>3. Mmap!TypeOK'
      BY <2>1, <2>2 DEF MmapInv, Mmap!TypeOK
    <2>4. /\ \A b : WholeBuffer(b)' <=> WholeBuffer(b)
          /\ \A b : Mmap!NothingIn(b)' <=> Mmap!NothingIn(b)
          /\ \A n : MappedUpTo(n)' <=> MappedUpTo(n)
      BY <2>1, <2>2 DEF WholeBuffer, MappedUpTo, Mmap!NothingIn
    <2>5. Sizes' /\ HandlesHeld'
      BY <2>1, <2>2 DEF MmapInv, Sizes, HandlesHeld
    <2>6. Progressed'
      BY <2>1, <2>2, <2>4 DEF MmapInv, Progressed
    <2>7. CleanedUp'
      BY <2>1, <2>2, <2>4 DEF MmapInv, CleanedUp
    <2> QED BY <2>3, <2>5, <2>6, <2>7 DEF MmapInv
  <1> QED BY <1>1, <1>2, <1>3, <1>4, <1>5, <1>6, <1>7, <1>8, <1>9, <1>10, <1>11 DEF Mmap!Next

\* What the invariant says of every state.
LEMMA MmapConclusions ==
  ASSUME Mmap!SizesAssumption, MmapInv
  PROVE  Mmap!TypeOK /\ Mmap!BuffersWhole /\ Mmap!NothingLeaks
  <1>1. Mmap!BuffersWhole
    <2> SUFFICES ASSUME main.pc = "use", NEW b \in Mmap!Buffer
                 PROVE  /\ DOMAIN res.mapped[b] = 0..Mmap!Stripes - 1
                        /\ \A i \in 0..Mmap!Stripes - 1 : res.mapped[b][i] = main.backing[i + 1]
                        /\ Mmap!Stripes * Mmap!StripeSize = res.va[b] /\ res.va[b] = main.va_bytes
                        /\ res.va[b] >= Bytes
                        /\ \A d \in Mmap!Range(main.backing) :
                             Mmap!StripeSize % main.granularity[d] = 0
                        /\ Mmap!Primary \in res.access[b]
      BY DEF Mmap!BuffersWhole
    <2>1. WholeBuffer(b)
      BY DEF MmapInv, Progressed
    <2>2. main.va_bytes = Mmap!TotalSize /\ main.total = Mmap!TotalSize
      BY DEF MmapInv, Sizes
    <2>3. Mmap!StripeSize = Mmap!TotalSize \div Mmap!Stripes
      BY <2>2 DEF Mmap!StripeSize
    <2> QED BY <2>1, <2>2, <2>3, MmapSizes DEF MmapInv, WholeBuffer
  <1>2. Mmap!NothingLeaks
    BY DEF MmapInv, HandlesHeld, CleanedUp, Mmap!NothingLeaks
  <1> QED BY <1>1, <1>2 DEF MmapInv
-------------------------------------------------------------------------------
(* ManagedStreams                                                          *)

\* A task is taken once the loop has come past it, and held by a thread until the
\* thread has computed or launched it.
Taken(t) == main.pc = "loop" => t < main.at

HeldBy(w, t) == thread[w].pc # "idle" /\ thread[w].task = t

Held(t) == \E w \in Managed!Thread : HeldBy(w, t)

Launched(t) ==
  \E s \in Managed!Stream : \E i \in 1..Len(stream[s]) :
    stream[s][i].op = "gemv" /\ stream[s][i].task = t

AttachPending(t) == \E i \in 1..Len(stream[0]) : stream[0][i].task = t

\* The task a thread holds is its alone and not computed; once the thread waits for
\* it, the task's memory is the host's or an attachment to the host is on its way.
HoldsAlone(w) ==
  /\ main.pc = "loop" /\ thread[w].task \in Managed!Task /\ Taken(thread[w].task)
  /\ thread[w].pc = "launch" <=> thread[w].task \notin main.small
  /\ res.out[thread[w].task] = "zero"
  /\ \A v \in Managed!Thread : v # w => ~ HeldBy(v, thread[w].task)
  /\ thread[w].pc = "sync" =>
       res.owner[thread[w].task] = Managed!Host \/ AttachPending(thread[w].task)

Holding == \A w \in Managed!Thread : thread[w].pc # "idle" => HoldsAlone(w)

\* A task that was taken and is not held has its product, or gets it from a stream.
Outputs ==
  \A t \in Managed!Task :
    /\ ~ Taken(t) => res.out[t] = "zero"
    /\ Taken(t) /\ ~ Held(t) =>
         \/ res.out[t] = "product"
         \/ res.out[t] = "zero" /\ t \notin main.small /\ Launched(t)

\* Stream 0 attaches the tasks that threads wait for; the stream of a thread has,
\* for each task, the attachment and then the product, in pairs but for the first.
HostCall(o) ==
  /\ o.op = "attach" /\ o.owner = Managed!Host
  /\ \E w \in Managed!Thread : thread[w].pc = "sync" /\ thread[w].task = o.task

DeviceCall(s, i) ==
  LET o == stream[s][i] IN
  /\ o.owner = s /\ Taken(o.task) /\ ~ Held(o.task) /\ o.task \notin main.small
  /\ res.out[o.task] = "zero"
  /\ o.op = "attach" => i < Len(stream[s]) /\ stream[s][i + 1] = Managed!Gemv(o.task, s)
  /\ o.op = "gemv" => /\ i = 1 => res.owner[o.task] = s
                      /\ i # 1 => stream[s][i - 1] = Managed!Attach(o.task, s)

Queues ==
  /\ \A i \in 1..Len(stream[0]) : HostCall(stream[0][i])
  /\ \A s \in Managed!Stream \ {0} : \A i \in 1..Len(stream[s]) : DeviceCall(s, i)

\* No two calls are the same, and no two streams work on the same task.
Apart ==
  \A s, r \in Managed!Stream : \A i \in 1..Len(stream[s]) : \A j \in 1..Len(stream[r]) :
    stream[s][i].task = stream[r][j].task =>
      r = s /\ (stream[s][i].op = stream[r][j].op => i = j)

Phases ==
  /\ main.pc = "loop" => main.at \in 1..NumTasks + 1
  /\ main.pc = "wait" => main.at > NumTasks
  /\ main.pc = "destroy" => /\ main.at \in Managed!Stream
                            /\ \A s \in Managed!Stream : s >= main.at => s \in res.streams
  /\ main.pc \in {"loop", "wait"} => res.streams = Managed!Stream
  /\ main.pc \in {"destroy", "free"} => Managed!Idle \/ main.fault
  /\ main.pc = "free" => main.at \in Managed!Task
  /\ res.live = Managed!Task \/ (main.pc = "free" /\ Managed!Idle)
  /\ main.exit = "success" => main.pc = "free" /\ Managed!Idle

ManagedInv == Managed!TypeOK /\ Holding /\ Outputs /\ Queues /\ Apart /\ Phases

Op == [op : {"attach", "gemv"}, task : Managed!Task, owner : Managed!Owner]
-------------------------------------------------------------------------------
\* What the types say of tasks, streams and the calls in them.
LEMMA ManagedTypes ==
  ASSUME Managed!SizesAssumption, Managed!TypeOK
  PROVE  /\ NumTasks \in Nat \ {0} /\ NumThreads \in Nat \ {0}
         /\ Managed!Task \subseteq Nat \ {0} /\ 0 \in Managed!Stream
         /\ Managed!Stream \subseteq Nat
         /\ \A w \in Managed!Thread : Managed!Slot(w) \in Managed!Stream \ {0}
         /\ \A s \in Managed!Stream : stream[s] \in Seq(Op) /\ Len(stream[s]) \in Nat
         /\ \A s \in Managed!Stream : \A i \in 1..Len(stream[s]) : stream[s][i] \in Op
  <1>1. NumTasks \in Nat \ {0} /\ NumThreads \in Nat \ {0}
    BY DEF Managed!SizesAssumption
  <1>2. \A s \in Managed!Stream : stream[s] \in Seq(Op)
    BY DEF Managed!TypeOK, Op
  <1>3. \A s \in Managed!Stream : /\ Len(stream[s]) \in Nat
                                  /\ \A i \in 1..Len(stream[s]) : stream[s][i] \in Op
    BY <1>2, LenProperties, ElementOfSeq
  <1> QED BY <1>1, <1>2, <1>3 DEF Managed!Task, Managed!Stream, Managed!Thread, Managed!Slot

\* Two calls for one task are on one stream, and different.
LEMMA ApartAt ==
  ASSUME Apart, NEW s \in Managed!Stream, NEW r \in Managed!Stream,
         NEW i \in 1..Len(stream[s]), NEW j \in 1..Len(stream[r]),
         stream[s][i].task = stream[r][j].task
  PROVE  r = s /\ (stream[s][i].op = stream[r][j].op => i = j)
  BY DEF Apart

\* No task is taken, and no stream has a call, before the loop.
LEMMA ManagedInit == ASSUME Managed!SizesAssumption, Managed!Init PROVE ManagedInv
  <1>1. NumTasks \in Nat \ {0} /\ NumThreads \in Nat \ {0}
    BY DEF Managed!SizesAssumption
  <1>2. PICK small \in SUBSET Managed!Task, managed \in BOOLEAN :
          main = [pc |-> "loop", at |-> 1, exit |-> IF managed THEN "none" ELSE "skipped",
                  small |-> small, managed |-> managed, fault |-> FALSE]
    BY DEF Managed!Init
  <1>3. /\ thread = [w \in Managed!Thread |-> [pc |-> "idle", task |-> 0]]
        /\ stream = [s \in Managed!Stream |-> << >>]
        /\ res = [owner |-> [t \in Managed!Task |-> Managed!Global],
                  out |-> [t \in Managed!Task |-> "zero"],
                  live |-> Managed!Task, streams |-> Managed!Stream]
    BY DEF Managed!Init
  <1>4. \A s \in Managed!Stream : stream[s] = << >> /\ Len(stream[s]) = 0
    BY <1>3, EmptySeq
  <1>5. 0 \in Managed!Stream
    BY <1>1 DEF Managed!Stream
  <1>6. Managed!TypeOK
    <2>1. << >> \in Seq(Op)
      BY EmptySeq
    <2>2. stream \in [Managed!Stream -> Seq(Op)]
      BY <1>3, <2>1
    <2>3. main.exit \in {"none", "success", "error", "skipped"}
      BY <1>2
    <2> QED BY <1>2, <1>3, <2>2, <2>3 DEF Managed!TypeOK, Managed!Owner, Op
  <1>7. Holding
    BY <1>3 DEF Holding
  <1>8. Outputs
    <2>1. \A t \in Managed!Task : t >= 1
      BY DEF Managed!Task
    <2> QED BY <1>2, <1>3, <2>1 DEF Outputs, Taken, Managed!Task
  <1>9. Queues /\ Apart
    BY <1>4, <1>5 DEF Queues, Apart
  <1>10. Phases
    BY <1>1, <1>2, <1>3 DEF Phases
  <1> QED BY <1>6, <1>7, <1>8, <1>9, <1>10 DEF ManagedInv

\* A sequence without its first, with one more, and with two more elements.
LEMMA TailOf ==
  ASSUME NEW S, NEW seq \in Seq(S), seq # << >>
  PROVE  /\ Head(seq) = seq[1] /\ 1 \in 1..Len(seq)
         /\ Tail(seq) \in Seq(S) /\ Len(Tail(seq)) = Len(seq) - 1
         /\ \A i \in 1..Len(Tail(seq)) : i + 1 \in 1..Len(seq) /\ Tail(seq)[i] = seq[i + 1]
  <1>1. Len(seq) \in Nat \ {0}
    BY EmptySeq, LenProperties
  <1> QED BY <1>1, HeadTailProperties

LEMMA AppendOf ==
  ASSUME NEW S, NEW seq \in Seq(S), NEW e \in S
  PROVE  /\ Append(seq, e) \in Seq(S) /\ Len(Append(seq, e)) = Len(seq) + 1
         /\ \A i \in 1..Len(seq) : Append(seq, e)[i] = seq[i]
         /\ Append(seq, e)[Len(seq) + 1] = e
  BY AppendProperties, LenProperties

LEMMA PairOf ==
  ASSUME NEW S, NEW seq \in Seq(S), NEW d \in S, NEW e \in S
  PROVE  /\ seq \o << d, e >> \in Seq(S) /\ Len(seq \o << d, e >>) = Len(seq) + 2
         /\ \A i \in 1..Len(seq) : (seq \o << d, e >>)[i] = seq[i]
         /\ (seq \o << d, e >>)[Len(seq) + 1] = d
         /\ (seq \o << d, e >>)[Len(seq) + 2] = e
  <1>1. << d, e >> \in Seq(S) /\ Len(<< d, e >>) = 2 /\ << d, e >>[1] = d /\ << d, e >>[2] = e
    OBVIOUS
  <1> QED BY <1>1, ConcatProperties, LenProperties

\* An idle thread takes the next task.
LEMMA ManagedTake ==
  ASSUME Managed!SizesAssumption, ManagedInv, NEW w \in Managed!Thread, Managed!TakeTask(w)
  PROVE  ManagedInv'
  <1> DEFINE t == main.at
  <1>1. /\ main.exit = "none" /\ thread[w].pc = "idle" /\ main.pc = "loop"
        /\ t \in Managed!Task /\ t \in Nat /\ UNCHANGED << stream, res >>
    BY ManagedTypes
       DEF Managed!TakeTask, Managed!At, Managed!Running, ManagedInv, Phases, Managed!Task
  <1>2. /\ main' = [main EXCEPT !.at = t + 1]
        /\ main'.pc = "loop" /\ main'.at = t + 1 /\ main'.exit = main.exit
        /\ main'.small = main.small /\ main'.fault = main.fault
        /\ main'.managed = main.managed
    BY <1>1 DEF Managed!TakeTask, ManagedInv, Managed!TypeOK
  <1>3. /\ thread' \in [Managed!Thread -> [pc : {"idle", "attach", "sync", "launch"},
                                           task : Managed!Task \cup {0}]]
        /\ thread'[w].pc \in {"attach", "launch"} /\ thread'[w].task = t
        /\ thread'[w].pc = "launch" <=> t \notin main.small
        /\ \A v \in Managed!Thread : v # w => thread'[v] = thread[v]
    <2>1. thread' = [thread EXCEPT ![w] =
                       [pc |-> IF t \in main.small THEN "attach" ELSE "launch", task |-> t]]
      BY DEF Managed!TakeTask
    <2> QED BY <1>1, <2>1 DEF ManagedInv, Managed!TypeOK
  <1>4. Managed!TypeOK'
    <2>1. t + 1 \in Nat
      BY <1>1
    <2> QED BY <1>1, <1>2, <1>3, <2>1 DEF ManagedInv, Managed!TypeOK
  <1>5. /\ \A u \in Managed!Task : Taken(u)' <=> Taken(u) \/ u = t
        /\ ~ Taken(t)
    BY <1>1, <1>2, ManagedTypes DEF Taken, ManagedInv
  <1>6. \A v \in Managed!Thread, u \in Managed!Task :
          HeldBy(v, u)' <=> HeldBy(v, u) \/ (v = w /\ u = t)
    BY <1>1, <1>3 DEF HeldBy
  <1>7. \A v \in Managed!Thread : ~ HeldBy(v, t)
    BY <1>5 DEF ManagedInv, Holding, HoldsAlone, HeldBy
  <1>8. \A u \in Managed!Task : Held(u)' <=> Held(u) \/ u = t
    BY <1>6 DEF Held
  <1>9. Holding'
    <2> SUFFICES ASSUME NEW v \in Managed!Thread, thread'[v].pc # "idle" PROVE HoldsAlone(v)'
      BY DEF Holding
    <2>1. \A u : AttachPending(u)' <=> AttachPending(u)
      BY <1>1 DEF AttachPending
    <2>2. CASE v = w
      <3>1. res.out[t] = "zero"
        BY <1>1, <1>5 DEF ManagedInv, Outputs
      <3> QED BY <1>1, <1>2, <1>3, <1>5, <1>6, <1>7, <2>2, <3>1 DEF HoldsAlone
    <2>3. CASE v # w
      <3>1. HoldsAlone(v) /\ thread'[v] = thread[v]
        BY <1>3, <2>3 DEF ManagedInv, Holding
      <3>2. thread[v].task # t
        BY <1>5, <3>1 DEF HoldsAlone
      <3> QED BY <1>1, <1>2, <1>5, <1>6, <2>1, <3>1, <3>2 DEF HoldsAlone
    <2> QED BY <2>2, <2>3
  <1>10. Outputs'
    <2>1. \A u : Launched(u)' <=> Launched(u)
      BY <1>1 DEF Launched
    <2> QED BY <1>1, <1>2, <1>5, <1>8, <2>1 DEF ManagedInv, Outputs
  <1>11. Queues'
    <2>1. ASSUME NEW i \in 1..Len(stream[0]) PROVE HostCall(stream[0][i])'
      <3>1. HostCall(stream[0][i])
        BY DEF ManagedInv, Queues
      <3>2. \A v \in Managed!Thread : thread[v].pc = "sync" => thread'[v] = thread[v]
        BY <1>1, <1>3
      <3> QED BY <1>1, <3>1, <3>2 DEF HostCall
    <2>2. ASSUME NEW s \in Managed!Stream \ {0}, NEW i \in 1..Len(stream[s])
          PROVE  DeviceCall(s, i)'
      <3>1. DeviceCall(s, i)
        BY DEF ManagedInv, Queues
      <3>2. stream[s][i].task \in Managed!Task /\ stream[s][i].task # t
        BY <1>5, <3>1, ManagedTypes DEF ManagedInv, DeviceCall, Op
      <3> QED BY <1>1, <1>2, <1>5, <1>8, <3>1, <3>2 DEF DeviceCall
    <2> QED BY <1>1, <2>1, <2>2 DEF Queues
  <1>12. Apart'
    BY <1>1 DEF ManagedInv, Apart
  <1>13. Phases'
    BY <1>1, <1>2, ManagedTypes DEF ManagedInv, Phases, Managed!Task, Managed!Idle
  <1> QED BY <1>4, <1>9, <1>10, <1>11, <1>12, <1>13 DEF ManagedInv

\* A step of thread w only, that neither takes nor gives up a task.
LEMMA ManagedGoto ==
  ASSUME ManagedInv, NEW w \in Managed!Thread, NEW label \in {"idle", "sync"},
         Managed!Goto(w, label)
  PROVE  /\ thread' \in [Managed!Thread -> [pc : {"idle", "attach", "sync", "launch"},
                                            task : Managed!Task \cup {0}]]
         /\ thread'[w].pc = label /\ thread'[w].task = thread[w].task
         /\ \A v \in Managed!Thread : v # w => thread'[v] = thread[v]
  <1> DEFINE Type == [Managed!Thread -> [pc : {"idle", "attach", "sync", "launch"},
                                         task : Managed!Task \cup {0}]]
  <1>1. thread \in Type /\ thread' = [thread EXCEPT ![w].pc = label]
    BY DEF Managed!Goto, ManagedInv, Managed!TypeOK
  <1>2. /\ thread'[w].pc = label /\ thread'[w].task = thread[w].task
        /\ \A v \in Managed!Thread : v # w => thread'[v] = thread[v]
    BY <1>1
  <1>3. thread' \in Type
    BY <1>1
  <1> QED BY <1>2, <1>3

\* No stream has a call for a task that a thread holds and does not wait for.
LEMMA HeldNotCalled ==
  ASSUME Managed!SizesAssumption, ManagedInv, NEW w \in Managed!Thread,
         thread[w].pc \in {"attach", "launch"}, NEW s \in Managed!Stream,
         NEW i \in 1..Len(stream[s])
  PROVE  stream[s][i].task # thread[w].task
  <1>1. HeldBy(w, thread[w].task) /\ HoldsAlone(w)
    BY DEF HeldBy, ManagedInv, Holding
  <1>2. CASE s = 0
    <2>1. PICK v \in Managed!Thread : thread[v].pc = "sync" /\ thread[v].task = stream[s][i].task
      BY <1>2 DEF ManagedInv, Queues, HostCall
    <2>2. HeldBy(v, stream[s][i].task) /\ v # w
      BY <2>1 DEF HeldBy
    <2> QED BY <1>1, <2>2 DEF HoldsAlone
  <1>3. CASE s # 0
    <2>1. ~ Held(stream[s][i].task)
      BY <1>3 DEF ManagedInv, Queues, DeviceCall
    <2> QED BY <1>1, <2>1 DEF Held
  <1> QED BY <1>2, <1>3

\* A thread with a small task gives stream 0 the attachment to the host.
LEMMA ManagedAttach ==
  ASSUME Managed!SizesAssumption, ManagedInv, NEW w \in Managed!Thread, Managed!AttachHost(w)
  PROVE  ManagedInv'
  <1> DEFINE t == thread[w].task
             o == Managed!Attach(t, Managed!Host)
             n == Len(stream[0])
  <1>1. /\ main.exit = "none" /\ thread[w].pc = "attach" /\ UNCHANGED << main, res >>
        /\ HoldsAlone(w) /\ t \in Managed!Task
    BY DEF Managed!AttachHost, Managed!At, Managed!Running, ManagedInv, Holding, HoldsAlone
  <1>2. /\ thread' \in [Managed!Thread -> [pc : {"idle", "attach", "sync", "launch"},
                                           task : Managed!Task \cup {0}]]
        /\ thread'[w].pc = "sync" /\ thread'[w].task = t
        /\ \A v \in Managed!Thread : v # w => thread'[v] = thread[v]
    BY ManagedGoto DEF Managed!AttachHost
  <1>3. o \in Op /\ o.op = "attach" /\ o.task = t /\ o.owner = Managed!Host
    BY <1>1 DEF Managed!Attach, Op, Managed!Owner
  <1>4. /\ 0 \in Managed!Stream /\ stream[0] \in Seq(Op) /\ n \in Nat
        /\ stream \in [Managed!Stream -> Seq(Op)]
    BY ManagedTypes DEF ManagedInv, Managed!TypeOK, Op
  <1>5. /\ stream' = [stream EXCEPT ![0] = Append(stream[0], o)]
        /\ stream' \in [Managed!Stream -> Seq(Op)]
        /\ stream'[0] = Append(stream[0], o)
        /\ \A s \in Managed!Stream \ {0} : stream'[s] = stream[s]
    <2>1. stream' = [stream EXCEPT ![0] = Append(stream[0], o)]
      BY <1>4 DEF Managed!AttachHost, Managed!Enqueued
    <2>2. Append(stream[0], o) \in Seq(Op)
      BY <1>3, <1>4, AppendOf
    <2> HIDE DEF o
    <2> QED BY <1>4, <2>1, <2>2
  <1>6. /\ Len(stream'[0]) = n + 1 /\ stream'[0][n + 1] = o
        /\ \A i \in 1..n : stream'[0][i] = stream[0][i]
    BY <1>3, <1>4, <1>5, AppendOf
  <1> HIDE DEF o
  <1>7. Managed!TypeOK'
    BY <1>1, <1>2, <1>5 DEF ManagedInv, Managed!TypeOK, Op
  <1>8. \A v \in Managed!Thread : \A u : HeldBy(v, u)' <=> HeldBy(v, u)
    BY <1>1, <1>2 DEF HeldBy
  <1>9. \A u : Held(u)' <=> Held(u)
    BY <1>8 DEF Held
  <1>10. \A u : Taken(u)' <=> Taken(u)
    BY <1>1 DEF Taken
  <1>11. \A u : Launched(u)' <=> Launched(u)
    <2>1. \A i \in 1..n + 1 : stream'[0][i].op # "gemv"
      <3>1. \A i \in 1..n : stream[0][i].op # "gemv"
        BY DEF ManagedInv, Queues, HostCall
      <3>2. \A i \in 1..n + 1 : i \in 1..n \/ i = n + 1
        BY <1>4
      <3> QED BY <1>3, <1>6, <3>1, <3>2
    <2>2. \A i \in 1..n : stream[0][i].op # "gemv"
      BY DEF ManagedInv, Queues, HostCall
    <2> QED BY <1>5, <1>6, <2>1, <2>2 DEF Launched
  <1>12. \A u : AttachPending(u) => AttachPending(u)'
    <2>1. \A i \in 1..n : i \in 1..n + 1
      BY <1>4
    <2> QED BY <1>6, <2>1 DEF AttachPending
  <1>13. AttachPending(t)'
    <2>1. n + 1 \in 1..n + 1
      BY <1>4
    <2>2. ASSUME NEW u, u = t PROVE AttachPending(u)'
      BY <1>3, <1>6, <2>1, <2>2 DEF AttachPending
    <2> QED BY <1>2, <2>2
  <1>14. Holding'
    <2> SUFFICES ASSUME NEW v \in Managed!Thread, thread'[v].pc # "idle" PROVE HoldsAlone(v)'
      BY DEF Holding
    <2>1. CASE v = w
      <3>1. ASSUME NEW u, u = t PROVE AttachPending(u)'
        BY <1>2, <1>13, <3>1
      <3> QED BY <1>1, <1>2, <1>8, <1>10, <1>13, <2>1 DEF HoldsAlone
    <2>2. CASE v # w
      <3>1. HoldsAlone(v) /\ thread'[v] = thread[v]
        BY <1>2, <2>2 DEF ManagedInv, Holding
      <3> QED BY <1>1, <1>8, <1>10, <1>12, <3>1 DEF HoldsAlone
    <2> QED BY <2>1, <2>2
  <1>15. Outputs'
    BY <1>1, <1>9, <1>10, <1>11 DEF ManagedInv, Outputs
  <1>16. Queues'
    <2>1. \A e : HostCall(e) => HostCall(e)'
      <3>1. \A v \in Managed!Thread : thread[v].pc = "sync" => thread'[v] = thread[v]
        BY <1>1, <1>2
      <3> QED BY <3>1 DEF HostCall
    <2>2. ASSUME NEW e, e = o PROVE HostCall(e)'
      BY <1>2, <1>3, <2>2 DEF HostCall
    <2>3. ASSUME NEW i \in 1..Len(stream'[0]), NEW e, e = stream'[0][i] PROVE HostCall(e)'
      <3>1. i \in 1..n \/ i = n + 1
        BY <1>4, <1>6
      <3>2. \A j \in 1..n : HostCall(stream[0][j])
        BY DEF ManagedInv, Queues
      <3> QED BY <1>6, <2>1, <2>2, <2>3, <3>1, <3>2
    <2>4. ASSUME NEW s \in Managed!Stream \ {0}, NEW i \in 1..Len(stream'[s])
          PROVE  DeviceCall(s, i)'
      <3>1. DeviceCall(s, i) /\ stream'[s] = stream[s]
        BY <1>5 DEF ManagedInv, Queues
      <3> QED BY <1>1, <1>9, <1>10, <3>1 DEF DeviceCall
    <2> QED BY <2>3, <2>4 DEF Queues
  <1>17. Apart'
    <2>1. \A s \in Managed!Stream : \A i \in 1..Len(stream[s]) : stream[s][i].task # t
      BY <1>1, HeldNotCalled
    <2>2. \A i \in 1..Len(stream'[0]) : i \in 1..n \/ (i = n + 1 /\ stream'[0][i].task = t)
      BY <1>3, <1>4, <1>6
    <2> SUFFICES ASSUME NEW s \in Managed!Stream, NEW r \in Managed!Stream,
                        NEW i \in 1..Len(stream'[s]), NEW j \in 1..Len(stream'[r]),
                        stream'[s][i].task = stream'[r][j].task
                 PROVE  r = s /\ (stream'[s][i].op = stream'[r][j].op => i = j)
      BY DEF Apart
    <2>3. \/ i \in 1..Len(stream[s]) /\ stream'[s][i] = stream[s][i]
          \/ s = 0 /\ i = n + 1 /\ stream'[s][i].task = t
      BY <1>5, <1>6, <2>2
    <2>4. \/ j \in 1..Len(stream[r]) /\ stream'[r][j] = stream[r][j]
          \/ r = 0 /\ j = n + 1 /\ stream'[r][j].task = t
      BY <1>5, <1>6, <2>2
    <2>5. CASE i \in 1..Len(stream[s]) /\ stream'[s][i] = stream[s][i]
      <3>1. j \in 1..Len(stream[r]) /\ stream'[r][j] = stream[r][j]
        BY <2>1, <2>4, <2>5
      <3> QED BY <2>5, <3>1, ApartAt DEF ManagedInv
    <2>6. CASE s = 0 /\ i = n + 1 /\ stream'[s][i].task = t
      <3>1. r = 0 /\ j = n + 1
        BY <2>1, <2>4, <2>6
      <3> QED BY <2>6, <3>1
    <2> QED BY <2>3, <2>5, <2>6
  <1>18. Phases'
    BY <1>1 DEF ManagedInv, Phases, HoldsAlone
  <1> QED BY <1>7, <1>14, <1>15, <1>16, <1>17, <1>18 DEF ManagedInv

\* What a step that changes the result, or the owner, of one task alone leaves true.
LEMMA ResultStored ==
  ASSUME ManagedInv, NEW t \in Managed!Task, NEW v \in {"zero", "product", "garbage"},
         res' = [res EXCEPT !.out[t] = v]
  PROVE  /\ res'.out \in [Managed!Task -> {"zero", "product", "garbage"}]
         /\ res'.out[t] = v /\ \A u \in Managed!Task : u # t => res'.out[u] = res.out[u]
         /\ res'.owner = res.owner /\ res'.live = res.live /\ res'.streams = res.streams
         /\ res' \in [owner : [Managed!Task -> Managed!Owner],
                      out : [Managed!Task -> {"zero", "product", "garbage"}],
                      live : SUBSET Managed!Task, streams : SUBSET Managed!Stream]
  <1>1. /\ res'.out = [res.out EXCEPT ![t] = v]
        /\ res'.owner = res.owner /\ res'.live = res.live /\ res'.streams = res.streams
    BY DEF ManagedInv, Managed!TypeOK
  <1>2. res.out \in [Managed!Task -> {"zero", "product", "garbage"}]
    BY DEF ManagedInv, Managed!TypeOK
  <1>3. /\ res'.out \in [Managed!Task -> {"zero", "product", "garbage"}]
        /\ res'.out[t] = v /\ \A u \in Managed!Task : u # t => res'.out[u] = res.out[u]
    BY <1>1, <1>2
  <1> QED BY <1>1, <1>3 DEF ManagedInv, Managed!TypeOK

\* A thread whose attachment was waited for computes its task, and is idle.
LEMMA ManagedCompute ==
  ASSUME Managed!SizesAssumption, ManagedInv, NEW w \in Managed!Thread, Managed!ComputeOnHost(w)
  PROVE  ManagedInv'
  <1> DEFINE t == thread[w].task
  <1>1. /\ main.exit = "none" /\ thread[w].pc = "sync" /\ UNCHANGED << main, stream >>
        /\ stream[0] = << >> /\ HoldsAlone(w) /\ t \in Managed!Task /\ t \in main.small
    BY DEF Managed!ComputeOnHost, Managed!HostGemv, Managed!At, Managed!Running, ManagedInv,
           Holding, HoldsAlone
  <1>2. /\ thread' \in [Managed!Thread -> [pc : {"idle", "attach", "sync", "launch"},
                                           task : Managed!Task \cup {0}]]
        /\ thread'[w].pc = "idle" /\ thread'[w].task = thread[w].task
        /\ \A v \in Managed!Thread : v # w => thread'[v] = thread[v]
    BY ManagedGoto DEF Managed!ComputeOnHost, Managed!HostGemv
  <1>3. res.out[t] = "zero" /\ res.owner[t] = Managed!Host
    <2>1. Len(stream[0]) = 0
      BY <1>1, EmptySeq
    <2>2. \A u : ~ AttachPending(u)
      BY <2>1 DEF AttachPending
    <2> QED BY <1>1, <2>2 DEF HoldsAlone
  <1>4. res' = [res EXCEPT !.out[t] = "product"]
    BY <1>3 DEF Managed!ComputeOnHost, Managed!HostGemv
  <1>5. /\ res'.out[t] = "product"
        /\ \A u \in Managed!Task : u # t => res'.out[u] = res.out[u]
        /\ res'.owner = res.owner /\ res'.live = res.live /\ res'.streams = res.streams
        /\ res' \in [owner : [Managed!Task -> Managed!Owner],
                     out : [Managed!Task -> {"zero", "product", "garbage"}],
                     live : SUBSET Managed!Task, streams : SUBSET Managed!Stream]
    <2> HIDE DEF t
    <2> QED BY <1>1, <1>4, ResultStored
  <1>6. Managed!TypeOK'
    BY <1>1, <1>2, <1>5 DEF ManagedInv, Managed!TypeOK
  <1>7. \A v \in Managed!Thread : \A u : HeldBy(v, u)' <=> HeldBy(v, u) /\ v # w
    BY <1>1, <1>2 DEF HeldBy
  <1>8. \A u : Held(u)' <=> Held(u) /\ u # t
    <2>1. \A v \in Managed!Thread : v # w => ~ HeldBy(v, t)
      BY <1>1 DEF HoldsAlone
    <2>2. \A u : HeldBy(w, u) => u = t
      BY DEF HeldBy
    <2> HIDE DEF t
    <2> QED BY <1>7, <2>1, <2>2 DEF Held
  <1>9. \A u : Taken(u)' <=> Taken(u)
    BY <1>1 DEF Taken
  <1>10. (\A u : Launched(u)' <=> Launched(u)) /\ \A u : AttachPending(u)' <=> AttachPending(u)
    BY <1>1 DEF Launched, AttachPending
  <1>11. Holding'
    <2> SUFFICES ASSUME NEW v \in Managed!Thread, thread'[v].pc # "idle" PROVE HoldsAlone(v)'
      BY DEF Holding
    <2>1. v # w /\ thread'[v] = thread[v] /\ HoldsAlone(v)
      BY <1>2 DEF ManagedInv, Holding
    <2>2. thread[v].task # t
      <3>1. ~ HeldBy(v, t)
        BY <1>1, <2>1 DEF HoldsAlone
      <3> QED BY <2>1, <3>1 DEF HeldBy
    <2> HIDE DEF t
    <2> QED BY <1>1, <1>5, <1>7, <1>9, <1>10, <2>1, <2>2 DEF HoldsAlone
  <1>12. Outputs'
    <2>1. Taken(t)
      BY <1>1 DEF HoldsAlone
    <2> HIDE DEF t
    <2> QED BY <1>1, <1>5, <1>8, <1>9, <1>10, <2>1 DEF ManagedInv, Outputs
  <1>13. Queues'
    <2>1. ASSUME NEW i \in 1..Len(stream'[0]), NEW e, e = stream'[0][i] PROVE HostCall(e)'
      <3>1. Len(stream'[0]) = 0
        BY <1>1, EmptySeq
      <3> QED BY <3>1
    <2>2. ASSUME NEW s \in Managed!Stream \ {0}, NEW i \in 1..Len(stream'[s])
          PROVE  DeviceCall(s, i)'
      <3>1. DeviceCall(s, i)
        BY <1>1 DEF ManagedInv, Queues
      <3>2. stream[s][i].task \in Managed!Task /\ stream[s][i].task # t
        <4>1. ~ Held(stream[s][i].task) /\ Held(t)
          BY <1>1, <3>1 DEF DeviceCall, Held, HeldBy
        <4> QED BY <1>1, <4>1, ManagedTypes DEF ManagedInv, Op
      <3> HIDE DEF t
      <3> QED BY <1>1, <1>5, <1>8, <1>9, <3>1, <3>2 DEF DeviceCall
    <2> QED BY <2>1, <2>2 DEF Queues
  <1>14. Apart'
    BY <1>1 DEF ManagedInv, Apart
  <1>15. Phases'
    BY <1>1, <1>5 DEF ManagedInv, Phases, Managed!Idle
  <1> QED BY <1>6, <1>11, <1>12, <1>13, <1>14, <1>15 DEF ManagedInv

\* A thread gives its stream the attachment and the product of its task.
LEMMA ManagedLaunch ==
  ASSUME Managed!SizesAssumption, ManagedInv, NEW w \in Managed!Thread, Managed!LaunchOnDevice(w)
  PROVE  ManagedInv'
  <1>1. PICK s \in Managed!Stream \ {0}, t \in Managed!Task :
          s = Managed!Slot(w) /\ t = thread[w].task /\ HoldsAlone(w)
    BY ManagedTypes
       DEF Managed!LaunchOnDevice, Managed!At, ManagedInv, Holding, HoldsAlone
  <1> DEFINE a == Managed!Attach(t, s)
             g == Managed!Gemv(t, s)
             n == Len(stream[s])
  <1>2. /\ main.exit = "none" /\ thread[w].pc = "launch" /\ UNCHANGED << main, res >>
        /\ main.pc = "loop"
    BY <1>1 DEF Managed!LaunchOnDevice, Managed!At, Managed!Running, HoldsAlone
  <1>3. /\ thread' \in [Managed!Thread -> [pc : {"idle", "attach", "sync", "launch"},
                                           task : Managed!Task \cup {0}]]
        /\ thread'[w].pc = "idle" /\ thread'[w].task = t
        /\ \A v \in Managed!Thread : v # w => thread'[v] = thread[v]
    BY <1>1, ManagedGoto DEF Managed!LaunchOnDevice
  <1>4. /\ a \in Op /\ a.op = "attach" /\ a.task = t /\ a.owner = s
        /\ g \in Op /\ g.op = "gemv" /\ g.task = t /\ g.owner = s
    BY <1>1 DEF Managed!Attach, Managed!Gemv, Op, Managed!Owner
  <1>5. /\ stream[s] \in Seq(Op) /\ n \in Nat
        /\ stream \in [Managed!Stream -> Seq(Op)]
    BY ManagedTypes DEF ManagedInv, Managed!TypeOK, Op
  <1>6. /\ stream' \in [Managed!Stream -> Seq(Op)]
        /\ stream'[s] = stream[s] \o << a, g >>
        /\ \A r \in Managed!Stream : r # s => stream'[r] = stream[r]
    <2>1. stream' = [stream EXCEPT ![s] = stream[s] \o << a, g >>]
      BY <1>1, <1>5 DEF Managed!LaunchOnDevice
    <2> HIDE DEF a, g
    <2>2. stream[s] \o << a, g >> \in Seq(Op)
      BY <1>4, <1>5, PairOf
    <2> QED BY <1>5, <2>1, <2>2
  <1> HIDE DEF a, g
  <1>7. /\ Len(stream'[s]) = n + 2 /\ stream'[s][n + 1] = a /\ stream'[s][n + 2] = g
        /\ \A i \in 1..n : stream'[s][i] = stream[s][i]
    BY <1>4, <1>5, <1>6, PairOf
  <1>8. \A i \in 1..n + 2 : i \in 1..n \/ i = n + 1 \/ i = n + 2
    BY <1>5
  <1>9. Managed!TypeOK'
    BY <1>2, <1>3, <1>6 DEF ManagedInv, Managed!TypeOK, Op
  <1>10. \A v \in Managed!Thread : \A u : HeldBy(v, u)' <=> HeldBy(v, u) /\ v # w
    BY <1>2, <1>3 DEF HeldBy
  <1>11. \A u : Held(u)' <=> Held(u) /\ u # t
    <2>1. \A v \in Managed!Thread : v # w => ~ HeldBy(v, t)
      BY <1>1 DEF HoldsAlone
    <2>2. \A u : HeldBy(w, u) => u = t
      BY <1>1 DEF HeldBy
    <2> QED BY <1>10, <2>1, <2>2 DEF Held
  <1>12. \A u : Taken(u)' <=> Taken(u)
    BY <1>2 DEF Taken
  <1>13. \A u : AttachPending(u)' <=> AttachPending(u)
    <2>1. stream'[0] = stream[0]
      BY <1>1, <1>6, ManagedTypes DEF ManagedInv
    <2> QED BY <2>1 DEF AttachPending
  <1>14. (\A u : Launched(u) => Launched(u)') /\ Launched(t)'
    <2>1. 1..n \subseteq 1..n + 2 /\ n + 2 \in 1..n + 2
      BY <1>5
    <2>2. \A r \in Managed!Stream : \A i \in 1..Len(stream[r]) :
            i \in 1..Len(stream'[r]) /\ stream'[r][i] = stream[r][i]
      BY <1>6, <1>7, <2>1
    <2>3. \A u : Launched(u) => Launched(u)'
      BY <2>2 DEF Launched
    <2>4. Launched(t)'
      BY <1>1, <1>4, <1>7, <2>1 DEF Launched
    <2> QED BY <2>3, <2>4
  <1>15. Holding'
    <2> SUFFICES ASSUME NEW v \in Managed!Thread, thread'[v].pc # "idle" PROVE HoldsAlone(v)'
      BY DEF Holding
    <2>1. v # w /\ thread'[v] = thread[v] /\ HoldsAlone(v)
      BY <1>3 DEF ManagedInv, Holding
    <2> QED BY <1>2, <1>10, <1>12, <1>13, <2>1 DEF HoldsAlone
  <1>16. Outputs'
    <2>1. Taken(t) /\ res.out[t] = "zero" /\ t \notin main.small
      BY <1>1, <1>2 DEF HoldsAlone
    <2> QED BY <1>2, <1>11, <1>12, <1>14, <2>1 DEF ManagedInv, Outputs
  <1>17. \A r \in Managed!Stream : \A i \in 1..Len(stream[r]) : stream[r][i].task # t
    BY <1>1, <1>2, HeldNotCalled
  <1>18. Queues'
    <2>1. ASSUME NEW i \in 1..Len(stream'[0]), NEW e, e = stream'[0][i] PROVE HostCall(e)'
      <3>1. stream'[0] = stream[0]
        BY <1>1, <1>6, ManagedTypes DEF ManagedInv
      <3>2. HostCall(e)
        BY <2>1, <3>1 DEF ManagedInv, Queues
      <3>3. \A v \in Managed!Thread : thread[v].pc = "sync" => thread'[v] = thread[v]
        BY <1>2, <1>3
      <3> QED BY <3>2, <3>3 DEF HostCall
    <2>2. ASSUME NEW r \in Managed!Stream \ {0}, NEW i \in 1..Len(stream'[r])
          PROVE  DeviceCall(r, i)'
      <3>1. CASE r # s
        <4>1. DeviceCall(r, i) /\ stream'[r] = stream[r]
          BY <1>6, <3>1 DEF ManagedInv, Queues
        <4> QED BY <1>2, <1>11, <1>12, <4>1 DEF DeviceCall
      <3>2. CASE r = s /\ i \in 1..n
        <4>1. DeviceCall(s, i) /\ stream'[s][i] = stream[s][i]
          BY <1>7, <3>2 DEF ManagedInv, Queues
        <4>2. i < n => stream'[s][i + 1] = stream[s][i + 1]
          <5>1. i < n => i + 1 \in 1..n
            BY <1>5, <3>2
          <5> QED BY <1>7, <5>1
        <4>3. i # 1 => stream'[s][i - 1] = stream[s][i - 1]
          <5>1. i # 1 => i - 1 \in 1..n
            BY <1>5, <3>2
          <5> QED BY <1>7, <5>1
        <4>4. i < n => i < Len(stream'[s])
          BY <1>5, <1>7, <3>2
        <4> QED BY <1>2, <1>11, <1>12, <3>2, <4>1, <4>2, <4>3, <4>4 DEF DeviceCall
      <3>3. Taken(t) /\ res.out[t] = "zero" /\ t \notin main.small
        BY <1>1, <1>2 DEF HoldsAlone
      <3>4. CASE r = s /\ i = n + 1
        <4>1. /\ stream'[s][i] = a /\ i + 1 = n + 2 /\ stream'[s][i + 1] = g
              /\ i < Len(stream'[s])
          BY <1>5, <1>7, <3>4
        <4> QED BY <1>2, <1>4, <1>11, <1>12, <3>3, <3>4, <4>1 DEF DeviceCall, g
      <3>5. CASE r = s /\ i = n + 2
        <4>1. stream'[s][i] = g /\ i - 1 = n + 1 /\ stream'[s][i - 1] = a /\ i # 1
          BY <1>5, <1>7, <3>5
        <4> QED BY <1>2, <1>4, <1>11, <1>12, <3>3, <3>5, <4>1 DEF DeviceCall, a
      <3> QED BY <1>7, <1>8, <3>1, <3>2, <3>4, <3>5
    <2> QED BY <2>1, <2>2 DEF Queues
  <1>19. Apart'
    <2> SUFFICES ASSUME NEW q \in Managed!Stream, NEW r \in Managed!Stream,
                        NEW i \in 1..Len(stream'[q]), NEW j \in 1..Len(stream'[r]),
                        stream'[q][i].task = stream'[r][j].task
                 PROVE  r = q /\ (stream'[q][i].op = stream'[r][j].op => i = j)
      BY DEF Apart
    <2>1. \/ i \in 1..Len(stream[q]) /\ stream'[q][i] = stream[q][i]
          \/ q = s /\ i = n + 1 /\ stream'[q][i].task = t /\ stream'[q][i].op = "attach"
          \/ q = s /\ i = n + 2 /\ stream'[q][i].task = t /\ stream'[q][i].op = "gemv"
      BY <1>4, <1>6, <1>7, <1>8
    <2>2. \/ j \in 1..Len(stream[r]) /\ stream'[r][j] = stream[r][j]
          \/ r = s /\ j = n + 1 /\ stream'[r][j].task = t /\ stream'[r][j].op = "attach"
          \/ r = s /\ j = n + 2 /\ stream'[r][j].task = t /\ stream'[r][j].op = "gemv"
      BY <1>4, <1>6, <1>7, <1>8
    <2>3. CASE i \in 1..Len(stream[q]) /\ stream'[q][i] = stream[q][i]
      <3>1. j \in 1..Len(stream[r]) /\ stream'[r][j] = stream[r][j]
        BY <1>17, <2>2, <2>3
      <3> QED BY <2>3, <3>1, ApartAt DEF ManagedInv
    <2>4. CASE q = s /\ i \in {n + 1, n + 2} /\ stream'[q][i].task = t
      <3>1. stream'[r][j].task = t
        BY <2>4
      <3>2. r = s /\ j \in {n + 1, n + 2}
        BY <1>17, <2>2, <3>1
      <3> QED BY <1>4, <1>7, <2>4, <3>2
    <2> QED BY <2>1, <2>3, <2>4
  <1>20. Phases'
    BY <1>2 DEF ManagedInv, Phases
  <1> QED BY <1>9, <1>15, <1>16, <1>18, <1>19, <1>20 DEF ManagedInv

\* A stream loses its oldest call.
LEMMA ManagedPop ==
  ASSUME Managed!SizesAssumption, ManagedInv, NEW s \in Managed!Stream, stream[s] # << >>,
         stream' = Managed!Popped(s)
  PROVE  /\ stream' \in [Managed!Stream -> Seq(Op)]
         /\ 1 \in 1..Len(stream[s]) /\ Head(stream[s]) = stream[s][1] /\ stream[s][1] \in Op
         /\ \A r \in Managed!Stream : r # s => stream'[r] = stream[r]
         /\ Len(stream[s]) \in Nat /\ Len(stream'[s]) = Len(stream[s]) - 1
         /\ \A i \in 1..Len(stream'[s]) : /\ i + 1 \in 1..Len(stream[s])
                                          /\ stream'[s][i] = stream[s][i + 1]
         /\ \A i \in 1..Len(stream[s]) : i # 1 => /\ i - 1 \in 1..Len(stream'[s])
                                                  /\ stream'[s][i - 1] = stream[s][i]
         /\ Apart'
         /\ \A u : u # stream[s][1].task => /\ Launched(u)' <=> Launched(u)
                                            /\ AttachPending(u)' <=> AttachPending(u)
  <1>1. stream \in [Managed!Stream -> Seq(Op)] /\ stream[s] \in Seq(Op)
    BY DEF ManagedInv, Managed!TypeOK, Op
  <1>2. /\ Head(stream[s]) = stream[s][1] /\ 1 \in 1..Len(stream[s])
        /\ Tail(stream[s]) \in Seq(Op) /\ Len(Tail(stream[s])) = Len(stream[s]) - 1
        /\ \A i \in 1..Len(Tail(stream[s])) : /\ i + 1 \in 1..Len(stream[s])
                                              /\ Tail(stream[s])[i] = stream[s][i + 1]
    BY <1>1, TailOf
  <1>3. /\ stream' \in [Managed!Stream -> Seq(Op)]
        /\ stream'[s] = Tail(stream[s])
        /\ \A r \in Managed!Stream : r # s => stream'[r] = stream[r]
    BY <1>1, <1>2 DEF Managed!Popped
  <1>4. stream[s][1] \in Op /\ Len(stream[s]) \in Nat
    BY <1>2, ManagedTypes DEF ManagedInv
  <1>5. \A i \in 1..Len(stream[s]) : i # 1 => /\ i - 1 \in 1..Len(stream'[s])
                                              /\ stream'[s][i - 1] = stream[s][i]
    <2> SUFFICES ASSUME NEW i \in 1..Len(stream[s]), i # 1
                 PROVE  i - 1 \in 1..Len(stream'[s]) /\ stream'[s][i - 1] = stream[s][i]
      OBVIOUS
    <2>1. i - 1 \in 1..Len(Tail(stream[s])) /\ (i - 1) + 1 = i
      BY <1>2, <1>4
    <2> QED BY <1>2, <1>3, <2>1
  <1>6. \A r \in Managed!Stream : \A i \in 1..Len(stream'[r]) :
          \/ r # s /\ i \in 1..Len(stream[r]) /\ stream'[r][i] = stream[r][i]
          \/ r = s /\ i + 1 \in 1..Len(stream[r]) /\ stream'[r][i] = stream[r][i + 1]
    <2> SUFFICES ASSUME NEW r \in Managed!Stream, NEW i \in 1..Len(stream'[r])
                 PROVE  \/ r # s /\ i \in 1..Len(stream[r]) /\ stream'[r][i] = stream[r][i]
                        \/ r = s /\ i + 1 \in 1..Len(stream[r])
                           /\ stream'[r][i] = stream[r][i + 1]
      OBVIOUS
    <2>1. CASE r = s
      BY <1>2, <1>3, <2>1
    <2>2. CASE r # s
      BY <1>3, <2>2
    <2> QED BY <2>1, <2>2
  <1>7. Apart'
    <2> SUFFICES ASSUME NEW q \in Managed!Stream, NEW r \in Managed!Stream,
                        NEW i \in 1..Len(stream'[q]), NEW j \in 1..Len(stream'[r]),
                        stream'[q][i].task = stream'[r][j].task
                 PROVE  r = q /\ (stream'[q][i].op = stream'[r][j].op => i = j)
      BY DEF Apart
    <2>1. PICK k \in 1..Len(stream[q]) : /\ stream'[q][i] = stream[q][k]
                                         /\ k = IF q = s THEN i + 1 ELSE i
      BY <1>6
    <2>2. PICK l \in 1..Len(stream[r]) : /\ stream'[r][j] = stream[r][l]
                                         /\ l = IF r = s THEN j + 1 ELSE j
      BY <1>6
    <2>3. r = q /\ (stream[q][k].op = stream[r][l].op => k = l)
      <3>1. stream[q][k].task = stream[r][l].task
        BY <2>1, <2>2
      <3> QED BY <3>1, ApartAt DEF ManagedInv
    <2>4. k = l => i = j
      BY <2>1, <2>2, <2>3
    <2> QED BY <2>1, <2>2, <2>3, <2>4
  <1>8. ASSUME NEW u, u # stream[s][1].task
        PROVE  /\ Launched(u)' <=> Launched(u)
               /\ AttachPending(u)' <=> AttachPending(u)
    <2>1. ASSUME NEW r \in Managed!Stream, NEW i \in 1..Len(stream'[r])
          PROVE  \E k \in 1..Len(stream[r]) : stream'[r][i] = stream[r][k]
      BY <1>6
    <2>2. ASSUME NEW r \in Managed!Stream, NEW i \in 1..Len(stream[r]), stream[r][i].task = u
          PROVE  \E k \in 1..Len(stream'[r]) : stream'[r][k] = stream[r][i]
      <3>1. CASE r # s
        BY <1>3, <3>1
      <3>2. CASE r = s
        <4>1. i # 1
          BY <1>8, <2>2, <3>2
        <4> QED BY <1>5, <3>2, <4>1
      <3> QED BY <3>1, <3>2
    <2>3. 0 \in Managed!Stream
      BY ManagedTypes DEF ManagedInv
    <2>4. Launched(u)' <=> Launched(u)
      <3>1. Launched(u)' => Launched(u)
        BY <2>1 DEF Launched
      <3>2. ASSUME Launched(u) PROVE Launched(u)'
        <4>1. PICK r \in Managed!Stream :
                \E i \in 1..Len(stream[r]) : stream[r][i].op = "gemv" /\ stream[r][i].task = u
          BY <3>2 DEF Launched
        <4>2. PICK i \in 1..Len(stream[r]) : stream[r][i].op = "gemv" /\ stream[r][i].task = u
          BY <4>1
        <4>3. PICK k \in 1..Len(stream'[r]) : stream'[r][k] = stream[r][i]
          BY <2>2, <4>2
        <4> QED BY <4>2, <4>3 DEF Launched
      <3> QED BY <3>1, <3>2
    <2>5. AttachPending(u)' <=> AttachPending(u)
      <3>1. AttachPending(u)' => AttachPending(u)
        BY <2>1, <2>3 DEF AttachPending
      <3>2. ASSUME AttachPending(u) PROVE AttachPending(u)'
        <4>1. PICK i \in 1..Len(stream[0]) : stream[0][i].task = u
          BY <3>2 DEF AttachPending
        <4>2. PICK k \in 1..Len(stream'[0]) : stream'[0][k] = stream[0][i]
          BY <2>2, <2>3, <4>1
        <4> QED BY <4>1, <4>2 DEF AttachPending
      <3> QED BY <3>1, <3>2
    <2> QED BY <2>4, <2>5
  <1> QED BY <1>2, <1>3, <1>4, <1>5, <1>7, <1>8

\* The same of the owner.
LEMMA OwnerStored ==
  ASSUME ManagedInv, NEW t \in Managed!Task, NEW o \in Managed!Owner,
         res' = [res EXCEPT !.owner[t] = o]
  PROVE  /\ res'.owner[t] = o /\ \A u \in Managed!Task : u # t => res'.owner[u] = res.owner[u]
         /\ res'.out = res.out /\ res'.live = res.live /\ res'.streams = res.streams
         /\ res' \in [owner : [Managed!Task -> Managed!Owner],
                      out : [Managed!Task -> {"zero", "product", "garbage"}],
                      live : SUBSET Managed!Task, streams : SUBSET Managed!Stream]
  <1>1. /\ res'.owner = [res.owner EXCEPT ![t] = o]
        /\ res'.out = res.out /\ res'.live = res.live /\ res'.streams = res.streams
    BY DEF ManagedInv, Managed!TypeOK
  <1>2. res.owner \in [Managed!Task -> Managed!Owner]
    BY DEF ManagedInv, Managed!TypeOK
  <1>3. /\ res'.owner \in [Managed!Task -> Managed!Owner]
        /\ res'.owner[t] = o /\ \A u \in Managed!Task : u # t => res'.owner[u] = res.owner[u]
    BY <1>1, <1>2
  <1> QED BY <1>1, <1>3 DEF ManagedInv, Managed!TypeOK

\* Stream 0 attaches a task's memory to the host.
LEMMA ManagedHostRuns ==
  ASSUME Managed!SizesAssumption, ManagedInv, Managed!StreamRuns(0)
  PROVE  ManagedInv'
  <1>1. 0 \in Managed!Stream
    BY ManagedTypes DEF ManagedInv
  <1>2. /\ main.exit = "none" /\ ~ main.fault /\ stream[0] # << >>
        /\ stream' = Managed!Popped(0) /\ UNCHANGED << main, thread >>
    BY DEF Managed!StreamRuns, Managed!Running
  <1>3. PICK o \in Op : o = stream[0][1] /\ o = Head(stream[0]) /\ HostCall(o)
    BY <1>1, <1>2, ManagedPop DEF ManagedInv, Queues
  <1>4. PICK t \in Managed!Task : t = o.task
    BY DEF Op
  <1>5. PICK w \in Managed!Thread : thread[w].pc = "sync" /\ thread[w].task = t
    BY <1>3, <1>4 DEF HostCall
  <1>6. res' = [res EXCEPT !.owner[t] = Managed!Host] /\ Managed!Host \in Managed!Owner
    BY <1>3, <1>4 DEF Managed!StreamRuns, HostCall, Managed!Owner
  <1>7. /\ res'.owner[t] = Managed!Host
        /\ \A u \in Managed!Task : u # t => res'.owner[u] = res.owner[u]
        /\ res'.out = res.out /\ res'.live = res.live /\ res'.streams = res.streams
        /\ res' \in [owner : [Managed!Task -> Managed!Owner],
                     out : [Managed!Task -> {"zero", "product", "garbage"}],
                     live : SUBSET Managed!Task, streams : SUBSET Managed!Stream]
    BY <1>6, OwnerStored
  <1>8. /\ stream' \in [Managed!Stream -> Seq(Op)]
        /\ \A r \in Managed!Stream : r # 0 => stream'[r] = stream[r]
        /\ \A i \in 1..Len(stream'[0]) : /\ i + 1 \in 1..Len(stream[0])
                                         /\ stream'[0][i] = stream[0][i + 1]
        /\ Apart'
        /\ \A u : u # t => /\ Launched(u)' <=> Launched(u)
                           /\ AttachPending(u)' <=> AttachPending(u)
        /\ 1 \in 1..Len(stream[0])
    BY <1>1, <1>2, <1>3, <1>4, ManagedPop
  <1>9. Managed!TypeOK'
    BY <1>2, <1>7, <1>8 DEF ManagedInv, Managed!TypeOK, Op
  <1>10. /\ \A u : (Taken(u)' <=> Taken(u)) /\ (Held(u)' <=> Held(u))
         /\ \A v, u : HeldBy(v, u)' <=> HeldBy(v, u)
    BY <1>2 DEF Taken, Held, HeldBy
  <1>11. HoldsAlone(w) /\ Held(t)
    BY <1>5 DEF ManagedInv, Holding, Held, HeldBy
  <1>12. Holding'
    <2> SUFFICES ASSUME NEW v \in Managed!Thread, thread[v].pc # "idle" PROVE HoldsAlone(v)'
      BY <1>2 DEF Holding
    <2>1. HoldsAlone(v)
      BY DEF ManagedInv, Holding
    <2>2. thread[v].task = t \/ (thread[v].task \in Managed!Task /\ thread[v].task # t)
      BY <2>1 DEF HoldsAlone
    <2> QED BY <1>2, <1>7, <1>8, <1>10, <2>1, <2>2 DEF HoldsAlone
  <1>13. Outputs'
    BY <1>2, <1>7, <1>8, <1>10, <1>11 DEF ManagedInv, Outputs
  <1>14. Queues'
    <2>1. ASSUME NEW i \in 1..Len(stream'[0]), NEW e, e = stream'[0][i] PROVE HostCall(e)'
      <3>1. HostCall(e)
        BY <1>8, <2>1 DEF ManagedInv, Queues
      <3> QED BY <1>2, <3>1 DEF HostCall
    <2>2. ASSUME NEW s \in Managed!Stream \ {0}, NEW i \in 1..Len(stream'[s])
          PROVE  DeviceCall(s, i)'
      <3>1. DeviceCall(s, i) /\ stream'[s] = stream[s]
        BY <1>8 DEF ManagedInv, Queues
      <3>2. stream[s][i].task \in Managed!Task
        BY <3>1, ManagedTypes DEF ManagedInv, Op
      <3>3. stream[s][i].task # t
        BY <1>11, <3>1 DEF DeviceCall
      <3> QED BY <1>2, <1>7, <1>10, <3>1, <3>2, <3>3 DEF DeviceCall
    <2> QED BY <2>1, <2>2 DEF Queues
  <1>15. Phases'
    BY <1>1, <1>2, <1>7, <1>11 DEF ManagedInv, Phases, HoldsAlone
  <1> QED BY <1>8, <1>9, <1>12, <1>13, <1>14, <1>15 DEF ManagedInv

\* What the stream of a thread has left, once its oldest call is for no other task.
LEMMA CallsShifted ==
  ASSUME Managed!SizesAssumption, ManagedInv, NEW s \in Managed!Stream \ {0},
         stream[s] # << >>, stream' = Managed!Popped(s), UNCHANGED << main, thread >>,
         NEW t \in Managed!Task, t = stream[s][1].task,
         \A u \in Managed!Task : u # t =>
           res'.out[u] = res.out[u] /\ res'.owner[u] = res.owner[u],
         stream[s][1].op = "attach" => res'.out[t] = res.out[t] /\ res'.owner[t] = s
  PROVE  Queues'
  <1>1. /\ 1 \in 1..Len(stream[s]) /\ stream[s][1] \in Op /\ Len(stream[s]) \in Nat
        /\ \A r \in Managed!Stream : r # s => stream'[r] = stream[r]
        /\ Len(stream'[s]) = Len(stream[s]) - 1
        /\ \A i \in 1..Len(stream'[s]) : /\ i + 1 \in 1..Len(stream[s])
                                         /\ stream'[s][i] = stream[s][i + 1]
    BY ManagedPop
  <1>2. \A u : (Taken(u)' <=> Taken(u)) /\ (Held(u)' <=> Held(u))
    BY DEF Taken, Held, HeldBy
  <1>3. ASSUME NEW i \in 1..Len(stream'[0]), NEW e, e = stream'[0][i] PROVE HostCall(e)'
    <2>1. stream'[0] = stream[0]
      BY <1>1, ManagedTypes DEF ManagedInv
    <2>2. HostCall(e)
      BY <1>3, <2>1 DEF ManagedInv, Queues
    <2> QED BY <2>2 DEF HostCall
  <1>4. ASSUME NEW r \in Managed!Stream \ {0}, r # s, NEW i \in 1..Len(stream'[r])
        PROVE  DeviceCall(r, i)'
    <2>1. DeviceCall(r, i) /\ stream'[r] = stream[r] /\ i \in 1..Len(stream[r])
      BY <1>1, <1>4 DEF ManagedInv, Queues
    <2>2. stream[r][i].task \in Managed!Task
      BY <2>1, ManagedTypes DEF ManagedInv, Op
    <2>3. stream[r][i].task # t
      BY <1>1, <1>4, <2>1 DEF ManagedInv, Apart
    <2> QED BY <1>2, <2>1, <2>2, <2>3 DEF DeviceCall
  <1>5. ASSUME NEW i \in 1..Len(stream'[s])
        PROVE  DeviceCall(s, i)'
    <2> DEFINE o == stream[s][i + 1]
    <2>1. /\ i + 1 \in 1..Len(stream[s]) /\ stream'[s][i] = o /\ o \in Op
          /\ o.task \in Managed!Task /\ i \in Nat \ {0} /\ i + 1 # 1
      <3>1. i + 1 \in 1..Len(stream[s]) /\ stream'[s][i] = o
        BY <1>1
      <3>2. o \in Op
        BY <3>1, ManagedTypes DEF ManagedInv
      <3>3. i \in Nat \ {0} /\ i + 1 # 1
        BY <1>1
      <3> HIDE DEF o
      <3> QED BY <3>1, <3>2, <3>3 DEF Op
    <2>2. DeviceCall(s, i + 1)
      BY <2>1 DEF ManagedInv, Queues
    <2>3. o.op = "attach" => i < Len(stream'[s]) /\ stream'[s][i + 1] = Managed!Gemv(o.task, s)
      <3> SUFFICES ASSUME o.op = "attach"
                   PROVE  i < Len(stream'[s]) /\ stream'[s][i + 1] = Managed!Gemv(o.task, s)
        OBVIOUS
      <3>1. i + 1 < Len(stream[s]) /\ stream[s][(i + 1) + 1] = Managed!Gemv(o.task, s)
        BY <2>2 DEF DeviceCall
      <3>2. i + 1 \in 1..Len(stream'[s])
        BY <1>1, <2>1, <3>1
      <3> QED BY <1>1, <2>1, <3>1, <3>2
    <2>4. o.op = "gemv" => stream[s][(i + 1) - 1] = Managed!Attach(o.task, s)
      BY <2>1, <2>2 DEF DeviceCall
    <2>5. (i + 1) - 1 = i
      BY <2>1
    <2>6. i # 1 => stream'[s][i - 1] = stream[s][i]
      <3>1. i # 1 => i - 1 \in 1..Len(stream'[s]) /\ (i - 1) + 1 = i
        BY <1>1, <2>1
      <3> QED BY <1>1, <3>1
    <2>7. o.op = "gemv" => /\ i = 1 => res'.owner[o.task] = s
                           /\ i # 1 => stream'[s][i - 1] = Managed!Attach(o.task, s)
      <3>1. o.op = "gemv" /\ i = 1 => res'.owner[o.task] = s
        <4> SUFFICES ASSUME o.op = "gemv", i = 1 PROVE res'.owner[o.task] = s
          OBVIOUS
        <4>1. stream[s][1] = Managed!Attach(o.task, s)
          BY <2>4, <2>5
        <4>2. stream[s][1].op = "attach" /\ o.task = t
          BY <4>1 DEF Managed!Attach
        <4> QED BY <4>2
      <3> QED BY <2>4, <2>5, <2>6, <3>1
    <2>8. res'.out[o.task] = "zero"
      <3>1. CASE o.task # t
        BY <2>1, <2>2, <3>1 DEF DeviceCall
      <3>2. CASE o.task = t
        <4>1. o.op # stream[s][1].op
          BY <1>1, <2>1, <3>2 DEF ManagedInv, Apart
        <4>2. CASE o.op = "attach"
          <5>1. stream[s][(i + 1) + 1] = Managed!Gemv(t, s) /\ (i + 1) + 1 \in 1..Len(stream[s])
            BY <1>1, <2>1, <2>2, <3>2, <4>2 DEF DeviceCall
          <5>2. stream[s][(i + 1) + 1].op = "gemv" /\ stream[s][(i + 1) + 1].task = t
            BY <5>1 DEF Managed!Gemv
          <5>3. stream[s][1].op = "gemv" /\ (i + 1) + 1 # 1
            BY <1>1, <2>1, <4>1, <4>2 DEF Op
          <5> QED BY <1>1, <5>1, <5>2, <5>3 DEF ManagedInv, Apart
        <4>3. CASE o.op = "gemv"
          <5>1. stream[s][1].op = "attach"
            BY <1>1, <4>1, <4>3 DEF Op
          <5>2. res.out[o.task] = "zero"
            BY <2>2 DEF DeviceCall
          <5> QED BY <3>2, <5>1, <5>2
        <4> QED BY <2>1, <4>2, <4>3 DEF Op
      <3> QED BY <3>1, <3>2
    <2>9. o.owner = s /\ Taken(o.task) /\ ~ Held(o.task) /\ o.task \notin main.small
      BY <2>2 DEF DeviceCall
    <2> HIDE DEF o
    <2> QED BY <1>2, <2>1, <2>3, <2>7, <2>8, <2>9 DEF DeviceCall
  <1> QED BY <1>3, <1>4, <1>5 DEF Queues

\* The stream of a thread attaches a task's memory to itself, or computes its product.
LEMMA ManagedDeviceRuns ==
  ASSUME Managed!SizesAssumption, ManagedInv, NEW s \in Managed!Stream \ {0},
         Managed!StreamRuns(s)
  PROVE  ManagedInv'
  <1>1. /\ main.exit = "none" /\ ~ main.fault /\ stream[s] # << >>
        /\ stream' = Managed!Popped(s) /\ UNCHANGED << main, thread >>
    BY DEF Managed!StreamRuns, Managed!Running
  <1>2. PICK o \in Op : o = stream[s][1] /\ o = Head(stream[s]) /\ DeviceCall(s, 1)
    BY <1>1, ManagedPop DEF ManagedInv, Queues
  <1>3. PICK t \in Managed!Task : t = o.task
    BY DEF Op
  <1>4. /\ stream' \in [Managed!Stream -> Seq(Op)]
        /\ 1 \in 1..Len(stream[s]) /\ Len(stream[s]) \in Nat
        /\ Len(stream'[s]) = Len(stream[s]) - 1
        /\ \A i \in 1..Len(stream'[s]) : stream'[s][i] = stream[s][i + 1]
        /\ Apart'
        /\ \A u : u # t => /\ Launched(u)' <=> Launched(u)
                           /\ AttachPending(u)' <=> AttachPending(u)
    BY <1>1, <1>2, <1>3, ManagedPop
  <1>5. /\ Taken(t) /\ ~ Held(t) /\ t \notin main.small /\ res.out[t] = "zero" /\ o.owner = s
        /\ o.op = "gemv" => res.owner[t] = s
    BY <1>2, <1>3 DEF DeviceCall
  <1>6. /\ \A u : (Taken(u)' <=> Taken(u)) /\ (Held(u)' <=> Held(u))
        /\ \A v, u : HeldBy(v, u)' <=> HeldBy(v, u)
    BY <1>1 DEF Taken, Held, HeldBy
  <1>7. /\ \A u \in Managed!Task : u # t =>
             res'.out[u] = res.out[u] /\ res'.owner[u] = res.owner[u]
        /\ o.op = "attach" => res'.out[t] = res.out[t] /\ res'.owner[t] = s
        /\ o.op = "gemv" => res'.out[t] = "product"
        /\ res'.live = res.live /\ res'.streams = res.streams
        /\ res' \in [owner : [Managed!Task -> Managed!Owner],
                     out : [Managed!Task -> {"zero", "product", "garbage"}],
                     live : SUBSET Managed!Task, streams : SUBSET Managed!Stream]
    <2>1. CASE o.op = "attach"
      <3>1. res' = [res EXCEPT !.owner[t] = s] /\ s \in Managed!Owner
        BY <1>2, <1>3, <1>5, <2>1 DEF Managed!StreamRuns, Managed!Owner
      <3>2. /\ res'.owner[t] = s
            /\ \A u \in Managed!Task : u # t => res'.owner[u] = res.owner[u]
            /\ res'.out = res.out /\ res'.live = res.live /\ res'.streams = res.streams
            /\ res' \in [owner : [Managed!Task -> Managed!Owner],
                         out : [Managed!Task -> {"zero", "product", "garbage"}],
                         live : SUBSET Managed!Task, streams : SUBSET Managed!Stream]
        BY <3>1, OwnerStored
      <3> QED BY <2>1, <3>2
    <2>2. CASE o.op = "gemv"
      <3>1. res' = [res EXCEPT !.out[t] = "product"]
        BY <1>2, <1>3, <1>5, <2>2 DEF Managed!StreamRuns
      <3> QED BY <2>2, <3>1, ResultStored
    <2> QED BY <2>1, <2>2 DEF Op
  <1>8. Managed!TypeOK'
    BY <1>1, <1>4, <1>7 DEF ManagedInv, Managed!TypeOK, Op
  <1>9. Queues'
    BY <1>1, <1>2, <1>3, <1>7, CallsShifted
  <1>10. Holding'
    <2> SUFFICES ASSUME NEW v \in Managed!Thread, thread[v].pc # "idle" PROVE HoldsAlone(v)'
      BY <1>1 DEF Holding
    <2>1. HoldsAlone(v)
      BY DEF ManagedInv, Holding
    <2>2. HeldBy(v, thread[v].task)
      BY DEF HeldBy
    <2>3. thread[v].task \in Managed!Task /\ thread[v].task # t
      BY <1>5, <2>1, <2>2 DEF HoldsAlone, Held
    <2> QED BY <1>1, <1>4, <1>6, <1>7, <2>1, <2>3 DEF HoldsAlone
  <1>11. Outputs'
    <2>1. o.op = "attach" => Launched(t)'
      <3> SUFFICES ASSUME o.op = "attach" PROVE Launched(t)'
        OBVIOUS
      <3>1. 1 < Len(stream[s]) /\ stream[s][1 + 1] = Managed!Gemv(t, s)
        BY <1>2, <1>3 DEF DeviceCall
      <3>2. 1 \in 1..Len(stream'[s])
        BY <1>4, <3>1
      <3>3. stream'[s][1] = Managed!Gemv(t, s)
        BY <1>4, <3>1, <3>2
      <3> QED BY <3>2, <3>3 DEF Launched, Managed!Gemv
    <2> QED BY <1>1, <1>2, <1>4, <1>5, <1>6, <1>7, <2>1 DEF ManagedInv, Outputs, Op
  <1>12. Phases'
    <2>1. ~ Managed!Idle
      BY <1>1 DEF Managed!Idle
    <2> QED BY <1>1, <1>7, <2>1 DEF ManagedInv, Phases
  <1> QED BY <1>4, <1>8, <1>9, <1>10, <1>11, <1>12 DEF ManagedInv

\* What a step of main leaves true that takes no task, runs no call and stores no result.
LEMMA ManagedMainFrame ==
  ASSUME ManagedInv, UNCHANGED << thread, stream >>, main'.small = main.small,
         res'.out = res.out, res'.owner = res.owner,
         \A u \in Managed!Task : Taken(u)' <=> Taken(u),
         (\E w \in Managed!Thread : thread[w].pc # "idle") => main'.pc = "loop",
         Managed!Stream \subseteq Nat,
         \A s \in Managed!Stream : \A i \in 1..Len(stream[s]) : stream[s][i].task \in Managed!Task
  PROVE  Holding' /\ Outputs' /\ Queues' /\ Apart'
  <1>1. /\ \A v, u : HeldBy(v, u)' <=> HeldBy(v, u)
        /\ \A u : (Held(u)' <=> Held(u)) /\ (Launched(u)' <=> Launched(u))
        /\ \A u : AttachPending(u)' <=> AttachPending(u)
    BY DEF Held, HeldBy, Launched, AttachPending
  <1>2. Holding'
    BY <1>1 DEF ManagedInv, Holding, HoldsAlone
  <1>3. Outputs'
    BY <1>1 DEF ManagedInv, Outputs
  <1>4. Queues'
    <2>1. \A e : HostCall(e)' <=> HostCall(e)
      BY DEF HostCall
    <2>2. ASSUME NEW s \in Managed!Stream \ {0}, NEW i \in 1..Len(stream[s])
          PROVE  DeviceCall(s, i)'
      <3>1. DeviceCall(s, i) /\ stream[s][i].task \in Managed!Task
        BY DEF ManagedInv, Queues
      <3> QED BY <1>1, <3>1 DEF DeviceCall
    <2> QED BY <2>1, <2>2 DEF ManagedInv, Queues
  <1>5. Apart'
    <2>1. Apart /\ stream' = stream
      BY DEF ManagedInv
    <2> SUFFICES ASSUME NEW s \in Managed!Stream, NEW r \in Managed!Stream,
                        NEW i \in 1..Len(stream'[s]), NEW j \in 1..Len(stream'[r]),
                        stream'[s][i].task = stream'[r][j].task
                 PROVE  r = s /\ (stream'[s][i].op = stream'[r][j].op => i = j)
      BY DEF Apart
    <2>2. i \in 1..Len(stream[s]) /\ j \in 1..Len(stream[r])
      BY <2>1
    <2>3. stream[s][i].task = stream[r][j].task
      BY <2>1
    <2>4. r = s /\ (stream[s][i].op = stream[r][j].op => i = j)
      BY <2>1, <2>2, <2>3, ApartAt
    <2> QED BY <2>1, <2>4
  <1> QED BY <1>2, <1>3, <1>4, <1>5

\* The loop ends when no thread holds a task.
LEMMA ManagedLoopEnds ==
  ASSUME Managed!SizesAssumption, ManagedInv, Managed!LoopEnds
  PROVE  ManagedInv'
  <1>1. /\ main.exit = "none" /\ main.pc = "loop" /\ main.at > NumTasks
        /\ \A w \in Managed!Thread : thread[w].pc = "idle"
        /\ main' = [main EXCEPT !.pc = "wait"] /\ UNCHANGED << thread, stream, res >>
    BY DEF Managed!LoopEnds, Managed!Running
  <1>2. /\ main'.pc = "wait" /\ main'.at = main.at /\ main'.exit = main.exit
        /\ main'.small = main.small /\ main'.fault = main.fault
    BY <1>1 DEF ManagedInv, Managed!TypeOK
  <1>3. Managed!TypeOK'
    BY <1>1 DEF ManagedInv, Managed!TypeOK
  <1>4. \A u \in Managed!Task : Taken(u)' <=> Taken(u)
    <2>1. NumTasks \in Nat /\ main.at \in Nat
      BY ManagedTypes DEF ManagedInv, Managed!TypeOK
    <2>2. \A u \in Managed!Task : u \in 1..NumTasks
      BY DEF Managed!Task
    <2>3. \A u \in Managed!Task : u < main.at
      BY <1>1, <2>1, <2>2
    <2> QED BY <1>1, <1>2, <2>3 DEF Taken
  <1>5. Holding' /\ Outputs' /\ Queues' /\ Apart'
    BY <1>1, <1>2, <1>4, ManagedMainFrame, ManagedTypes DEF ManagedInv, Op
  <1>6. Phases'
    BY <1>1, <1>2 DEF ManagedInv, Phases, Managed!Idle
  <1> QED BY <1>3, <1>5, <1>6 DEF ManagedInv

\* main goes on when every stream is empty, or the device has failed.
LEMMA ManagedWait ==
  ASSUME Managed!SizesAssumption, ManagedInv, Managed!WaitForDevice
  PROVE  ManagedInv'
  <1>1. /\ main.exit = "none" /\ main.pc = "wait" /\ (Managed!Idle \/ main.fault)
        /\ main' = [main EXCEPT !.pc = "destroy", !.at = 0] /\ UNCHANGED << thread, stream, res >>
    BY DEF Managed!WaitForDevice, Managed!Running
  <1>2. /\ main'.pc = "destroy" /\ main'.at = 0 /\ main'.exit = main.exit
        /\ main'.small = main.small /\ main'.fault = main.fault
    BY <1>1 DEF ManagedInv, Managed!TypeOK
  <1>3. Managed!TypeOK'
    BY <1>1 DEF ManagedInv, Managed!TypeOK
  <1>4. \A u \in Managed!Task : Taken(u)' <=> Taken(u)
    BY <1>1, <1>2 DEF Taken
  <1>5. \A w \in Managed!Thread : thread[w].pc = "idle"
    BY <1>1 DEF ManagedInv, Holding, HoldsAlone
  <1>6. Holding' /\ Outputs' /\ Queues' /\ Apart'
    BY <1>1, <1>2, <1>4, <1>5, ManagedMainFrame, ManagedTypes DEF ManagedInv, Op
  <1>7. Phases'
    BY <1>1, <1>2, ManagedTypes DEF ManagedInv, Phases, Managed!Idle
  <1> QED BY <1>3, <1>6, <1>7 DEF ManagedInv

\* main destroys the streams, the last first.
LEMMA ManagedDestroy ==
  ASSUME Managed!SizesAssumption, ManagedInv, Managed!DestroyStream
  PROVE  ManagedInv'
  <1>1. /\ main.exit = "none" /\ main.pc = "destroy" /\ UNCHANGED << thread, stream >>
        /\ main.at \in Managed!Stream /\ main.at \in 0..NumThreads
        /\ NumThreads \in Nat /\ NumTasks \in Nat \ {0}
    BY ManagedTypes DEF Managed!DestroyStream, Managed!Running, ManagedInv, Phases, Managed!Stream
  <1>2. /\ res' = [res EXCEPT !.streams = res.streams \ {main.at}]
        /\ res'.streams = res.streams \ {main.at}
        /\ res'.owner = res.owner /\ res'.out = res.out /\ res'.live = res.live
    BY DEF Managed!DestroyStream, ManagedInv, Managed!TypeOK
  <1>3. /\ \/ main.at < NumThreads /\ main'.pc = "destroy" /\ main'.at = main.at + 1
           \/ main'.pc = "free" /\ main'.at = 1
        /\ main'.exit = main.exit /\ main'.small = main.small /\ main'.fault = main.fault
        /\ main' \in [pc : {"loop", "wait", "destroy", "free"}, at : Nat,
                      exit : {"none", "success", "error", "skipped"},
                      small : SUBSET Managed!Task, managed : BOOLEAN, fault : BOOLEAN]
    <2>1. CASE main.at < NumThreads
      <3>1. main' = [main EXCEPT !.at = main.at + 1] /\ main.at + 1 \in Nat
        BY <1>1, <2>1 DEF Managed!DestroyStream
      <3> QED BY <1>1, <2>1, <3>1 DEF ManagedInv, Managed!TypeOK
    <2>2. CASE ~ (main.at < NumThreads)
      <3>1. main' = [main EXCEPT !.at = 1, !.pc = "free"]
        BY <2>2 DEF Managed!DestroyStream
      <3> QED BY <1>1, <2>2, <3>1 DEF ManagedInv, Managed!TypeOK
    <2> QED BY <2>1, <2>2
  <1>4. Managed!TypeOK'
    BY <1>1, <1>2, <1>3 DEF ManagedInv, Managed!TypeOK
  <1>5. \A u \in Managed!Task : Taken(u)' <=> Taken(u)
    BY <1>1, <1>3 DEF Taken
  <1>6. \A w \in Managed!Thread : thread[w].pc = "idle"
    BY <1>1 DEF ManagedInv, Holding, HoldsAlone
  <1>7. Holding' /\ Outputs' /\ Queues' /\ Apart'
    BY <1>1, <1>2, <1>3, <1>5, <1>6, ManagedMainFrame, ManagedTypes DEF ManagedInv, Op
  <1>8. Phases'
    <2>1. Managed!Idle \/ main.fault
      BY <1>1 DEF ManagedInv, Phases
    <2>2. res.live = Managed!Task
      BY <1>1 DEF ManagedInv, Phases
    <2>3. \A s \in Managed!Stream : s \in Nat /\ (s >= main.at => s \in res.streams)
      BY <1>1, ManagedTypes DEF ManagedInv, Phases
    <2>4. Managed!Idle' <=> Managed!Idle
      BY <1>1 DEF Managed!Idle
    <2>5. 1 \in Managed!Task
      BY <1>1 DEF Managed!Task
    <2>6. CASE main.at < NumThreads /\ main'.pc = "destroy" /\ main'.at = main.at + 1
      <3>1. main.at + 1 \in Managed!Stream
        BY <1>1, <2>6 DEF Managed!Stream
      <3>2. \A s \in Managed!Stream : s >= main.at + 1 => s \in res'.streams
        BY <1>1, <1>2, <2>3
      <3> QED BY <1>1, <1>2, <1>3, <2>1, <2>2, <2>4, <2>6, <3>1, <3>2 DEF Phases
    <2>7. CASE main'.pc = "free" /\ main'.at = 1
      BY <1>1, <1>2, <1>3, <2>1, <2>2, <2>4, <2>5, <2>7 DEF Phases
    <2> QED BY <1>3, <2>6, <2>7
  <1> QED BY <1>4, <1>7, <1>8 DEF ManagedInv

\* main frees the tasks, and returns.
LEMMA ManagedFree ==
  ASSUME Managed!SizesAssumption, ManagedInv, Managed!FreeTask
  PROVE  ManagedInv'
  <1>1. /\ main.exit = "none" /\ main.pc = "free" /\ UNCHANGED << thread, stream >>
        /\ Managed!Idle /\ main.at \in Managed!Task
        /\ main.at \in 1..NumTasks /\ NumTasks \in Nat
    BY ManagedTypes
       DEF Managed!FreeTask, Managed!FreeUnsynchronised, Managed!Running, ManagedInv, Phases,
           Managed!Task
  <1>2. /\ res' = [res EXCEPT !.live = res.live \ {main.at}]
        /\ res'.streams = res.streams /\ res'.owner = res.owner /\ res'.out = res.out
    BY DEF Managed!FreeTask, Managed!FreeUnsynchronised, ManagedInv, Managed!TypeOK
  <1>3. /\ \/ main'.at \in Managed!Task /\ main'.exit = "none"
           \/ main'.at = main.at /\ main'.exit = "success"
        /\ main'.pc = "free" /\ main'.small = main.small
        /\ main' \in [pc : {"loop", "wait", "destroy", "free"}, at : Nat,
                      exit : {"none", "success", "error", "skipped"},
                      small : SUBSET Managed!Task, managed : BOOLEAN, fault : BOOLEAN]
    <2>1. CASE main.at < NumTasks
      <3>1. main' = [main EXCEPT !.at = main.at + 1] /\ main.at + 1 \in Nat
        BY <1>1, <2>1 DEF Managed!FreeTask, Managed!FreeUnsynchronised
      <3>2. main.at + 1 \in Managed!Task
        BY <1>1, <2>1 DEF Managed!Task
      <3> QED BY <1>1, <3>1, <3>2 DEF ManagedInv, Managed!TypeOK
    <2>2. CASE ~ (main.at < NumTasks)
      <3>1. main' = [main EXCEPT !.exit = "success"]
        BY <2>2 DEF Managed!FreeTask, Managed!FreeUnsynchronised
      <3> QED BY <1>1, <3>1 DEF ManagedInv, Managed!TypeOK
    <2> QED BY <2>1, <2>2
  <1>4. Managed!TypeOK'
    BY <1>1, <1>2, <1>3 DEF ManagedInv, Managed!TypeOK
  <1>5. \A u \in Managed!Task : Taken(u)' <=> Taken(u)
    BY <1>1, <1>3 DEF Taken
  <1>6. \A w \in Managed!Thread : thread[w].pc = "idle"
    BY <1>1 DEF ManagedInv, Holding, HoldsAlone
  <1>7. Holding' /\ Outputs' /\ Queues' /\ Apart'
    BY <1>1, <1>2, <1>3, <1>5, <1>6, ManagedMainFrame, ManagedTypes DEF ManagedInv, Op
  <1>8. Managed!Idle'
    BY <1>1 DEF Managed!Idle
  <1>9. Phases'
    BY <1>1, <1>3, <1>8 DEF Phases
  <1> QED BY <1>4, <1>7, <1>9 DEF ManagedInv

\* A call fails, or the device does.
LEMMA ManagedFails ==
  ASSUME Managed!SizesAssumption, ManagedInv, Managed!ApiFails \/ Managed!DeviceFaults
  PROVE  ManagedInv'
  <1>1. /\ main.exit = "none" /\ UNCHANGED << thread, stream, res >>
        /\ main' = [main EXCEPT !.exit = "error"] \/ main' = [main EXCEPT !.fault = TRUE]
    BY DEF Managed!ApiFails, Managed!DeviceFaults, Managed!Running
  <1>2. /\ main'.pc = main.pc /\ main'.at = main.at /\ main'.small = main.small
        /\ main'.exit # "success" /\ (main.fault => main'.fault)
        /\ main' \in [pc : {"loop", "wait", "destroy", "free"}, at : Nat,
                      exit : {"none", "success", "error", "skipped"},
                      small : SUBSET Managed!Task, managed : BOOLEAN, fault : BOOLEAN]
    <2>1. CASE main' = [main EXCEPT !.exit = "error"]
      BY <2>1 DEF ManagedInv, Managed!TypeOK
    <2>2. CASE main' = [main EXCEPT !.fault = TRUE]
      BY <1>1, <2>2 DEF ManagedInv, Managed!TypeOK
    <2> QED BY <1>1, <2>1, <2>2
  <1>3. Managed!TypeOK'
    BY <1>1, <1>2 DEF ManagedInv, Managed!TypeOK
  <1>4. \A u \in Managed!Task : Taken(u)' <=> Taken(u)
    BY <1>2 DEF Taken
  <1>5. (\E w \in Managed!Thread : thread[w].pc # "idle") => main'.pc = "loop"
    BY <1>2 DEF ManagedInv, Holding, HoldsAlone
  <1>6. Holding' /\ Outputs' /\ Queues' /\ Apart'
    BY <1>1, <1>2, <1>4, <1>5, ManagedMainFrame, ManagedTypes DEF ManagedInv, Op
  <1>7. Phases'
    BY <1>1, <1>2 DEF ManagedInv, Phases, Managed!Idle
  <1> QED BY <1>3, <1>6, <1>7 DEF ManagedInv

\* Every step keeps the invariant.
LEMMA ManagedStep ==
  ASSUME Managed!SizesAssumption, ManagedInv, [Managed!Next]_Managed!machine
  PROVE  ManagedInv'
  <1>1. ASSUME NEW w \in Managed!Thread, Managed!Worker(w) PROVE ManagedInv'
    BY <1>1, ManagedTake, ManagedAttach, ManagedCompute, ManagedLaunch DEF Managed!Worker
  <1>2. ASSUME NEW s \in Managed!Stream, Managed!StreamRuns(s) PROVE ManagedInv'
    BY <1>2, ManagedHostRuns, ManagedDeviceRuns
  <1>3. CASE Managed!LoopEnds
    BY <1>3, ManagedLoopEnds
  <1>4. CASE Managed!WaitForDevice
    BY <1>4, ManagedWait
  <1>5. CASE Managed!DestroyStream
    BY <1>5, ManagedDestroy
  <1>6. CASE Managed!FreeTask
    BY <1>6, ManagedFree
  <1>7. CASE Managed!FaultNoticed \/ Managed!ApiFails \/ Managed!DeviceFaults
    BY <1>7, ManagedFails DEF Managed!FaultNoticed
  <1>8. CASE UNCHANGED Managed!machine
    <2>1. UNCHANGED << main, thread, stream, res >>
      BY <1>8 DEF Managed!machine
    <2>2. Managed!TypeOK'
      BY <2>1 DEF ManagedInv, Managed!TypeOK
    <2>3. \A u \in Managed!Task : Taken(u)' <=> Taken(u)
      BY <2>1 DEF Taken
    <2>4. (\E w \in Managed!Thread : thread[w].pc # "idle") => main'.pc = "loop"
      BY <2>1 DEF ManagedInv, Holding, HoldsAlone
    <2>5. Holding' /\ Outputs' /\ Queues' /\ Apart'
      BY <2>1, <2>3, <2>4, ManagedMainFrame, ManagedTypes DEF ManagedInv, Op
    <2>6. Phases'
      BY <2>1 DEF ManagedInv, Phases, Managed!Idle
    <2> QED BY <2>2, <2>5, <2>6 DEF ManagedInv
  <1> QED BY <1>1, <1>2, <1>3, <1>4, <1>5, <1>6, <1>7, <1>8
          DEF Managed!Next, Managed!Progress, Managed!MainStep

\* What the invariant says of every state.
LEMMA ManagedConclusions ==
  ASSUME Managed!SizesAssumption, ManagedInv
  PROVE  /\ Managed!TypeOK /\ Managed!NoForeignAccess
         /\ Managed!ResourcesOutliveWork /\ Managed!SuccessMeansComputed
  <1>1. Managed!NoForeignAccess
    <2> SUFFICES ASSUME NEW t \in Managed!Task PROVE res.out[t] # "garbage"
      BY DEF Managed!NoForeignAccess
    <2>1. CASE Held(t)
      BY <2>1 DEF ManagedInv, Holding, HoldsAlone, Held, HeldBy
    <2>2. CASE ~ Held(t)
      BY <2>2 DEF ManagedInv, Outputs
    <2> QED BY <2>1, <2>2
  <1>2. Managed!ResourcesOutliveWork
    <2> SUFFICES ASSUME NEW s \in Managed!Stream, stream[s] # << >>
                 PROVE  /\ \A i \in 1..Len(stream[s]) : stream[s][i].task \in res.live
                        /\ main.fault \/ s \in res.streams
      BY DEF Managed!ResourcesOutliveWork
    <2>1. ~ Managed!Idle
      BY DEF Managed!Idle
    <2>2. res.live = Managed!Task
      BY <2>1 DEF ManagedInv, Phases
    <2>3. \A i \in 1..Len(stream[s]) : stream[s][i].task \in Managed!Task
      BY ManagedTypes DEF ManagedInv, Op
    <2>4. main.fault \/ s \in res.streams
      BY <2>1 DEF ManagedInv, Phases, Managed!TypeOK
    <2> QED BY <2>2, <2>3, <2>4
  <1>3. Managed!SuccessMeansComputed
    <2> SUFFICES ASSUME main.exit = "success", NEW t \in Managed!Task
                 PROVE  res.out[t] = "product"
      BY DEF Managed!SuccessMeansComputed
    <2>1. main.pc = "free" /\ Managed!Idle
      BY DEF ManagedInv, Phases
    <2>2. Taken(t) /\ ~ Held(t)
      BY <2>1 DEF Taken, ManagedInv, Holding, HoldsAlone, Held, HeldBy
    <2>3. ~ Launched(t)
      <3>1. \A s \in Managed!Stream : Len(stream[s]) = 0
        BY <2>1, EmptySeq DEF Managed!Idle
      <3> QED BY <3>1 DEF Launched
    <2> QED BY <2>2, <2>3 DEF ManagedInv, Outputs
  <1> QED BY <1>1, <1>2, <1>3 DEF ManagedInv
-------------------------------------------------------------------------------
(* SlicedDispatch                                                          *)

SliceIs(w, value) == \A i \in Slices!Slice(w) : res.host[i] = value

BufferIs(w, value) == \A i \in Slices!Slice(w) : res.dev[w][i] = value

Allocated == {"upload", "launch", "download", "free"}

Computed == {"free", "gather", "verify", "finalize", "joined"}

\* How far a worker is, its slice of the array and its buffer go together.
WorkerIs(w) ==
  /\ thread[w] \in {"malloc", "upload", "launch", "download"} => SliceIs(w, "input")
  /\ thread[w] \in Computed => SliceIs(w, "result")
  /\ thread[w] = "launch" => BufferIs(w, "input")
  /\ thread[w] = "download" => BufferIs(w, IF stream[w] = << >> THEN "result" ELSE "input")
  /\ thread[w] # "download" => stream[w] = << >>
  /\ Len(stream[w]) <= 1
  /\ res.dev[w] \in IF thread[w] \in Allocated THEN [Slices!Slice(w) -> Slices!Value] ELSE {<< >>}

Roles ==
  /\ \A w \in Slices!Worker \ Slices!Team :
       thread[w] = "malloc" /\ stream[w] = << >> /\ res.dev[w] = << >>
  /\ main.program = "openmp" =>
       \A w \in Slices!Team : thread[w] \notin {"scatter", "gather", "verify", "finalize"}
  /\ main.program = "mpi" => /\ main.team = NumDevices
                             /\ \A w \in Slices!Team : thread[w] # "joined"
  /\ \A w \in Slices!Team : thread[w] = "verify" => w = Slices!Root

\* The root leaves the gathering after all ranks have come to it, and finds the
\* array whole.
Gathered ==
  main.program = "mpi" /\ thread[Slices!Root] \in {"verify", "finalize"} =>
    /\ res.root = Slices!Team
    /\ \A r \in Slices!Team : thread[r] \in {"verify", "finalize"}
    /\ thread[Slices!Root] = "finalize" => main.verdict = "PASS"

Ended ==
  /\ main.exit = "success" =>
       /\ main.verdict = "PASS"
       /\ main.program = "mpi" => \A w \in Slices!Team : thread[w] = "finalize"
       /\ main.program = "openmp" => \A i \in Slices!Element : res.host[i] = "result"
  /\ main.exit \in {"success", "failure"} =>
       \A w \in Slices!Team : thread[w] \in {"finalize", "joined"}

SlicesInv ==
  /\ Slices!TypeOK /\ Slices!NoForeignAccess
  /\ \A w \in Slices!Team : WorkerIs(w)
  /\ Roles /\ Gathered /\ Ended

DevContents == {<< >>} \cup UNION { [Slices!Slice(w) -> Slices!Value] : w \in Slices!Worker }

MainType == [program : {"openmp", "mpi"}, exit : {"none", "success", "failure", "error"},
             verdict : {"none", "PASS", "FAIL"}, team : 1..NumDevices]
-------------------------------------------------------------------------------
\* Slices of different workers do not overlap; those of a team lie in the array,
\* and those of all devices cover it.
LEMMA SlicesApart ==
  ASSUME NEW l \in Nat, NEW v \in Nat, NEW w \in Nat, v # w,
         NEW i \in v * l..(v + 1) * l - 1, i \in w * l..(w + 1) * l - 1
  PROVE  FALSE
  <1>1. ASSUME NEW a \in Nat, NEW b \in Nat, a < b PROVE (a + 1) * l <= b * l
    <2>1. PICK k \in Nat : b = (a + 1) + k
      <3>1. b - (a + 1) \in Nat /\ b = (a + 1) + (b - (a + 1))
        BY <1>1
      <3> QED BY <3>1
    <2>2. b * l = (a + 1) * l + k * l
      BY <2>1
    <2>3. k * l \in Nat /\ (a + 1) * l \in Nat
      BY <2>1
    <2> QED BY <2>2, <2>3
  <1>2. v < w \/ w < v
    OBVIOUS
  <1>3. v * l \in Nat /\ (v + 1) * l \in Nat /\ w * l \in Nat /\ (w + 1) * l \in Nat
    OBVIOUS
  <1>4. CASE v < w
    <2>1. (v + 1) * l <= w * l
      BY <1>1, <1>4
    <2> QED BY <1>3, <2>1
  <1>5. CASE w < v
    <2>1. (w + 1) * l <= v * l
      BY <1>1, <1>5
    <2> QED BY <1>3, <2>1
  <1> QED BY <1>2, <1>4, <1>5

\* A worker's slice ends within the whole.
LEMMA SliceFits ==
  ASSUME NEW total \in Nat, NEW n \in Nat \ {0}, NEW w \in 0..n - 1
  PROVE  (w + 1) * (total \div n) <= total
  <1> DEFINE l == total \div n
  <1>1. l \in Nat /\ n * l <= total
    OBVIOUS
  <1> HIDE DEF l
  <1>2. n - (w + 1) \in Nat /\ n * l = (w + 1) * l + (n - (w + 1)) * l
    BY <1>1
  <1>3. (n - (w + 1)) * l \in Nat /\ (w + 1) * l \in Nat
    BY <1>1, <1>2
  <1> QED BY <1>1, <1>2, <1>3 DEF l

\* Each element is in some worker's slice.
LEMMA SlicesCover ==
  ASSUME NEW n \in Nat \ {0}, NEW l \in Nat \ {0}, NEW i \in 0..n * l - 1
  PROVE  \E w \in 0..n - 1 : i \in w * l..(w + 1) * l - 1
  <1> DEFINE w == i \div l
  <1>1. w \in Nat /\ w * l <= i /\ i < w * l + l
    OBVIOUS
  <1> HIDE DEF w
  <1>2. w < n
    <2> SUFFICES ASSUME w >= n PROVE FALSE
      BY <1>1
    <2>1. w - n \in Nat /\ w * l = n * l + (w - n) * l
      BY <1>1
    <2>2. (w - n) * l \in Nat /\ n * l \in Nat
      BY <2>1
    <2> QED BY <1>1, <2>1, <2>2
  <1>3. (w + 1) * l = w * l + l /\ w * l \in Nat
    BY <1>1
  <1>4. w \in 0..n - 1 /\ i \in w * l..(w + 1) * l - 1
    BY <1>1, <1>2, <1>3
  <1> QED BY <1>4

\* What the slices of a team are: in the array, apart, and all of it if every
\* device is in the team.
LEMMA SliceFacts ==
  ASSUME Slices!SlicesAssumption, Slices!TypeOK
  PROVE  /\ Slices!Root \in Slices!Team /\ Slices!Team \subseteq Slices!Worker
         /\ \A w \in Slices!Team : Slices!Slice(w) \subseteq Slices!Element
         /\ \A v, w \in Slices!Worker : v # w => Slices!Slice(v) \cap Slices!Slice(w) = {}
         /\ main.team = NumDevices =>
              /\ Slices!Team = Slices!Worker
              /\ \A i \in Slices!Element : \E w \in Slices!Team : i \in Slices!Slice(w)
  <1>1. NumDevices \in Nat \ {0} /\ PerDevice \in Nat \ {0}
        /\ main.team \in Nat \ {0} /\ main.team <= NumDevices
    BY DEF Slices!SlicesAssumption, Slices!TypeOK
  <1>2. Slices!Total \in Nat
    BY <1>1 DEF Slices!Total
  <1>3. Slices!slice_len \in Nat
    BY <1>1, <1>2 DEF Slices!slice_len
  <1>4. Slices!Root \in Slices!Team /\ Slices!Team \subseteq Slices!Worker
    BY <1>1 DEF Slices!Root, Slices!Team, Slices!Worker
  <1>5. \A w \in Slices!Team : Slices!Slice(w) \subseteq Slices!Element
    <2> SUFFICES ASSUME NEW w \in Slices!Team, NEW i \in Slices!Slice(w)
                 PROVE  i \in Slices!Element
      OBVIOUS
    <2> DEFINE l == Slices!slice_len
    <2>1. w \in Nat /\ w \in 0..main.team - 1
      BY <1>1 DEF Slices!Team
    <2>2. (w + 1) * l <= Slices!Total
      BY <1>1, <1>2, <2>1, SliceFits DEF Slices!slice_len
    <2> HIDE DEF l
    <2>3. l \in Nat
      BY <1>3 DEF l
    <2>4. w * l \in Nat /\ (w + 1) * l \in Nat /\ i \in w * l..(w + 1) * l - 1
      BY <2>1, <2>3 DEF Slices!Slice, l
    <2> QED BY <1>2, <2>2, <2>4 DEF Slices!Element
  <1>6. \A v, w \in Slices!Worker : v # w => Slices!Slice(v) \cap Slices!Slice(w) = {}
    <2> SUFFICES ASSUME NEW v \in Slices!Worker, NEW w \in Slices!Worker, v # w,
                        NEW i \in Slices!Slice(v), i \in Slices!Slice(w)
                 PROVE  FALSE
      OBVIOUS
    <2>1. v \in Nat /\ w \in Nat
      BY <1>1 DEF Slices!Worker
    <2> QED BY <1>3, <2>1, SlicesApart DEF Slices!Slice
  <1>7. ASSUME main.team = NumDevices
        PROVE  /\ Slices!Team = Slices!Worker
               /\ \A i \in Slices!Element : \E w \in Slices!Team : i \in Slices!Slice(w)
    <2>1. Slices!Team = Slices!Worker
      BY <1>7 DEF Slices!Team, Slices!Worker
    <2>2. Slices!slice_len = PerDevice
      BY <1>1, <1>7, DivTimes DEF Slices!slice_len, Slices!Total
    <2>3. \A i \in Slices!Element : \E w \in Slices!Team : i \in Slices!Slice(w)
      BY <1>1, <1>7, <2>2, SlicesCover DEF Slices!Element, Slices!Total, Slices!Team, Slices!Slice
    <2> QED BY <2>1, <2>3
  <1> QED BY <1>4, <1>5, <1>6, <1>7

\* The root has the array, and no worker has begun.
LEMMA SlicesInit == ASSUME Slices!SlicesAssumption, Slices!Init PROVE SlicesInv
  <1>1. PICK program \in {"openmp", "mpi"}, team \in 1..NumDevices :
          /\ main = [program |-> program, exit |-> "none", verdict |-> "none",
                     team |-> IF program = "mpi" THEN NumDevices ELSE team]
          /\ thread = [w \in Slices!Worker |-> IF program = "mpi" THEN "scatter" ELSE "malloc"]
          /\ res = [host |-> [i \in Slices!Element |->
                                IF program = "mpi" THEN "none" ELSE "input"],
                    dev |-> [w \in Slices!Worker |-> << >>], root |-> {}]
    BY DEF Slices!Init
  <1>2. stream = [w \in Slices!Worker |-> << >>]
    BY DEF Slices!Init
  <1>3. NumDevices \in Nat \ {0}
    BY DEF Slices!SlicesAssumption
  <1>4. Slices!TypeOK
    <2>1. main \in MainType
      BY <1>1, <1>3 DEF MainType
    <2>2. stream \in [Slices!Worker -> Seq({"kernel"})]
      BY <1>2
    <2>3. thread \in [Slices!Worker ->
                       Slices!Computing \cup {"gather", "verify", "finalize", "joined"}]
      BY <1>1 DEF Slices!Computing
    <2>4. res \in [host : [Slices!Element -> Slices!Value], root : SUBSET Slices!Worker,
                   dev : [Slices!Worker -> DevContents]]
      BY <1>1 DEF DevContents, Slices!Value
    <2>5. \A w \in Slices!Worker : res.dev[w] = << >>
      BY <1>1
    <2> QED BY <2>1, <2>2, <2>3, <2>4, <2>5 DEF Slices!TypeOK, MainType, DevContents
  <1>5. Slices!NoForeignAccess
    BY <1>1 DEF Slices!NoForeignAccess
  <1>6. /\ Slices!Root \in Slices!Team /\ Slices!Team \subseteq Slices!Worker
        /\ \A w \in Slices!Team : Slices!Slice(w) \subseteq Slices!Element
    BY <1>4, SliceFacts
  <1>7. \A w \in Slices!Team : WorkerIs(w)
    <2> SUFFICES ASSUME NEW w \in Slices!Team PROVE WorkerIs(w)
      OBVIOUS
    <2>1. stream[w] = << >> /\ Len(stream[w]) = 0 /\ res.dev[w] = << >>
      BY <1>1, <1>2, <1>6, EmptySeq
    <2>2. thread[w] = IF program = "mpi" THEN "scatter" ELSE "malloc"
      BY <1>1, <1>6
    <2>3. program # "mpi" => SliceIs(w, "input")
      BY <1>1, <1>6 DEF SliceIs
    <2> QED BY <2>1, <2>2, <2>3 DEF WorkerIs, Allocated, Computed
  <1>8. Roles
    <2>1. main.program = "mpi" => Slices!Team = Slices!Worker
      BY <1>1, <1>4, SliceFacts
    <2> QED BY <1>1, <1>2, <1>6, <2>1 DEF Roles
  <1>9. Gathered /\ Ended
    BY <1>1, <1>6 DEF Gathered, Ended
  <1> QED BY <1>4, <1>5, <1>7, <1>8, <1>9 DEF SlicesInv

\* The slices are those of the team.
LEMMA TeamSame ==
  ASSUME main'.team = main.team
  PROVE  /\ Slices!Team' = Slices!Team
         /\ \A w : Slices!Slice(w)' = Slices!Slice(w)
  <1>1. Slices!slice_len' = Slices!slice_len
    BY DEF Slices!slice_len
  <1> QED BY <1>1 DEF Slices!Team, Slices!Slice

\* A step of worker w that neither enters nor leaves what follows the gathering, and
\* that touches only its own slice.
LEMMA SlicesWorkerStep ==
  ASSUME Slices!SlicesAssumption, SlicesInv, NEW w \in Slices!Team,
         main.exit = "none", UNCHANGED main,
         thread[w] \notin {"verify", "finalize"}, thread'[w] \notin {"verify", "finalize"},
         \A v \in Slices!Worker \ {w} :
           thread'[v] = thread[v] /\ stream'[v] = stream[v] /\ res'.dev[v] = res.dev[v],
         \A i \in Slices!Element \ Slices!Slice(w) : res'.host[i] = res.host[i],
         main.program = "openmp" => thread'[w] \notin {"scatter", "gather"},
         main.program = "mpi" => thread'[w] # "joined",
         Slices!TypeOK', \A i \in Slices!Slice(w) : res'.host[i] # "garbage",
         WorkerIs(w)'
  PROVE  SlicesInv'
  <1>1. /\ Slices!Root \in Slices!Team /\ Slices!Team \subseteq Slices!Worker
        /\ \A v \in Slices!Team : Slices!Slice(v) \subseteq Slices!Element
        /\ \A v, u \in Slices!Worker : v # u => Slices!Slice(v) \cap Slices!Slice(u) = {}
    BY SliceFacts DEF SlicesInv
  <1>2. Slices!Team' = Slices!Team /\ \A v : Slices!Slice(v)' = Slices!Slice(v)
    BY TeamSame
  <1>3. Slices!NoForeignAccess'
    BY DEF SlicesInv, Slices!NoForeignAccess
  <1>4. ASSUME NEW v \in Slices!Team, v # w PROVE WorkerIs(v)'
    <2>1. /\ WorkerIs(v) /\ v \in Slices!Worker
          /\ thread'[v] = thread[v] /\ stream'[v] = stream[v] /\ res'.dev[v] = res.dev[v]
      BY <1>1, <1>4 DEF SlicesInv
    <2>2. \A i \in Slices!Slice(v) : res'.host[i] = res.host[i]
      BY <1>1, <1>4
    <2>3. \A value : /\ SliceIs(v, value) => SliceIs(v, value)'
                     /\ BufferIs(v, value) => BufferIs(v, value)'
      BY <1>2, <2>1, <2>2 DEF SliceIs, BufferIs
    <2> QED BY <1>2, <2>1, <2>3 DEF WorkerIs
  <1>5. Roles'
    BY <1>1, <1>2 DEF SlicesInv, Roles
  <1>6. ~ (main.program = "mpi" /\ thread'[Slices!Root] \in {"verify", "finalize"})
    BY <1>1 DEF SlicesInv, Gathered
  <1>7. Gathered'
    BY <1>6 DEF Gathered
  <1>8. Ended'
    BY DEF Ended
  <1> QED BY <1>2, <1>3, <1>4, <1>5, <1>7, <1>8 DEF SlicesInv

\* A worker comes to another label, and no other does.
LEMMA SlicesGoto ==
  ASSUME Slices!SlicesAssumption, SlicesInv, NEW w \in Slices!Team,
         NEW label \in Slices!Computing \cup {"gather", "verify", "finalize", "joined"},
         Slices!Goto(w, label)
  PROVE  /\ thread' \in [Slices!Worker ->
                          Slices!Computing \cup {"gather", "verify", "finalize", "joined"}]
         /\ thread'[w] = label /\ \A v \in Slices!Worker \ {w} : thread'[v] = thread[v]
  BY SliceFacts DEF Slices!Goto, SlicesInv, Slices!TypeOK

\* What the array and the buffers hold after a step of worker w.
LEMMA HostStored ==
  ASSUME SlicesInv, NEW w \in Slices!Team, Slices!Slice(w) \subseteq Slices!Element,
         NEW f, \A i \in Slices!Slice(w) : f[i] \in Slices!Value,
         res' = [res EXCEPT !.host = [i \in Slices!Element |->
                                        IF i \in Slices!Slice(w) THEN f[i] ELSE res.host[i]]]
  PROVE  /\ res' \in [host : [Slices!Element -> Slices!Value], root : SUBSET Slices!Worker,
                      dev : [Slices!Worker -> DevContents]]
         /\ res'.dev = res.dev /\ res'.root = res.root
         /\ \A i \in Slices!Slice(w) : res'.host[i] = f[i]
         /\ \A i \in Slices!Element \ Slices!Slice(w) : res'.host[i] = res.host[i]
  <1>1. res \in [host : [Slices!Element -> Slices!Value], root : SUBSET Slices!Worker,
                 dev : [Slices!Worker -> DevContents]]
    BY DEF SlicesInv, Slices!TypeOK, DevContents
  <1> DEFINE host == [i \in Slices!Element |->
                        IF i \in Slices!Slice(w) THEN f[i] ELSE res.host[i]]
  <1>2. host \in [Slices!Element -> Slices!Value]
    BY <1>1
  <1> HIDE DEF host
  <1>3. /\ res' = [res EXCEPT !.host = host]
        /\ res'.host = host /\ res'.dev = res.dev /\ res'.root = res.root
    BY <1>1 DEF host
  <1>4. res' \in [host : [Slices!Element -> Slices!Value], root : SUBSET Slices!Worker,
                  dev : [Slices!Worker -> DevContents]]
    BY <1>1, <1>2, <1>3
  <1> QED BY <1>3, <1>4 DEF host

\* The same of a buffer.
LEMMA BufferStored ==
  ASSUME SlicesInv, NEW w \in Slices!Worker, NEW f \in DevContents,
         res' = [res EXCEPT !.dev[w] = f]
  PROVE  /\ res' \in [host : [Slices!Element -> Slices!Value], root : SUBSET Slices!Worker,
                      dev : [Slices!Worker -> DevContents]]
         /\ res'.host = res.host /\ res'.root = res.root
         /\ res'.dev[w] = f /\ \A v \in Slices!Worker \ {w} : res'.dev[v] = res.dev[v]
  <1>1. res \in [host : [Slices!Element -> Slices!Value], root : SUBSET Slices!Worker,
                 dev : [Slices!Worker -> DevContents]]
    BY DEF SlicesInv, Slices!TypeOK, DevContents
  <1>2. res'.dev = [res.dev EXCEPT ![w] = f] /\ res'.host = res.host /\ res'.root = res.root
    BY <1>1
  <1>3. /\ res'.dev \in [Slices!Worker -> DevContents]
        /\ res'.dev[w] = f /\ \A v \in Slices!Worker \ {w} : res'.dev[v] = res.dev[v]
    BY <1>1, <1>2
  <1> QED BY <1>1, <1>2, <1>3

\* The type of what a step of a worker leaves.
LEMMA SlicesTyped ==
  ASSUME SlicesInv, NEW w \in Slices!Worker, UNCHANGED main,
         thread' \in [Slices!Worker ->
                       Slices!Computing \cup {"gather", "verify", "finalize", "joined"}],
         stream' \in [Slices!Worker -> Seq({"kernel"})],
         res' \in [host : [Slices!Element -> Slices!Value], root : SUBSET Slices!Worker,
                   dev : [Slices!Worker -> DevContents]],
         res'.dev[w] \in {<< >>} \cup [Slices!Slice(w) -> Slices!Value],
         \A v \in Slices!Worker \ {w} : res'.dev[v] = res.dev[v]
  PROVE  Slices!TypeOK'
  <1>1. Slices!Team' = Slices!Team /\ \A v : Slices!Slice(v)' = Slices!Slice(v)
    BY TeamSame
  <1>2. DevContents' = DevContents
    BY <1>1 DEF DevContents
  <1>3. \A v \in Slices!Worker : res'.dev[v] \in {<< >>} \cup [Slices!Slice(v) -> Slices!Value]
    BY DEF SlicesInv, Slices!TypeOK
  <1>4. res' \in [host : [Slices!Element -> Slices!Value], root : SUBSET Slices!Worker,
                  dev : [Slices!Worker ->
                          {<< >>} \cup UNION { [Slices!Slice(v)' -> Slices!Value] : v \in Slices!Worker }]]
    BY <1>2 DEF DevContents
  <1>5. \A v \in Slices!Worker : res'.dev[v] \in {<< >>} \cup [Slices!Slice(v)' -> Slices!Value]
    BY <1>1, <1>3
  <1> QED BY <1>4, <1>5 DEF SlicesInv, Slices!TypeOK

\* A rank gets its slice from the root.
LEMMA SlicesScatter ==
  ASSUME Slices!SlicesAssumption, SlicesInv, NEW w \in Slices!Worker, Slices!Scatter(w)
  PROVE  SlicesInv'
  <1>1. /\ main.exit = "none" /\ w \in Slices!Team /\ thread[w] = "scatter"
        /\ UNCHANGED << main, stream >> /\ WorkerIs(w)
        /\ Slices!Slice(w) \subseteq Slices!Element
    BY SliceFacts DEF Slices!Scatter, Slices!At, Slices!Running, SlicesInv
  <1>2. /\ thread' \in [Slices!Worker ->
                         Slices!Computing \cup {"gather", "verify", "finalize", "joined"}]
        /\ thread'[w] = "malloc" /\ \A v \in Slices!Worker \ {w} : thread'[v] = thread[v]
    BY <1>1, SlicesGoto DEF Slices!Scatter, Slices!Computing
  <1> DEFINE f == [i \in Slices!Slice(w) |-> "input"]
  <1>3. \A i \in Slices!Slice(w) : f[i] = "input"
    OBVIOUS
  <1>4. res' = [res EXCEPT !.host = [i \in Slices!Element |->
                                       IF i \in Slices!Slice(w) THEN f[i] ELSE res.host[i]]]
    BY DEF Slices!Scatter, SlicesInv, Slices!TypeOK
  <1> HIDE DEF f
  <1>5. /\ res' \in [host : [Slices!Element -> Slices!Value], root : SUBSET Slices!Worker,
                     dev : [Slices!Worker -> DevContents]]
        /\ res'.dev = res.dev /\ res'.root = res.root
        /\ \A i \in Slices!Slice(w) : res'.host[i] = f[i]
        /\ \A i \in Slices!Element \ Slices!Slice(w) : res'.host[i] = res.host[i]
    BY <1>1, <1>3, <1>4, HostStored DEF Slices!Value
  <1>6. Slices!TypeOK'
    BY <1>1, <1>2, <1>5, SlicesTyped DEF SlicesInv, Slices!TypeOK
  <1>7. WorkerIs(w)'
    <2>1. Slices!Slice(w)' = Slices!Slice(w)
      BY <1>1, TeamSame
    <2>2. SliceIs(w, "input")'
      BY <1>3, <1>5, <2>1 DEF SliceIs
    <2> QED BY <1>1, <1>2, <1>5, <2>2 DEF WorkerIs, Allocated, Computed
  <1>8. main.program = "mpi"
    BY <1>1 DEF SlicesInv, Roles, Slices!TypeOK
  <1> QED BY <1>1, <1>2, <1>3, <1>5, <1>6, <1>7, <1>8, SlicesWorkerStep

\* A worker allocates its buffer.
LEMMA SlicesMalloc ==
  ASSUME Slices!SlicesAssumption, SlicesInv, NEW w \in Slices!Worker, Slices!Malloc(w)
  PROVE  SlicesInv'
  <1>1. /\ main.exit = "none" /\ w \in Slices!Team /\ thread[w] = "malloc"
        /\ UNCHANGED << main, stream >> /\ WorkerIs(w)
        /\ Slices!Slice(w) \subseteq Slices!Element
    BY SliceFacts DEF Slices!Malloc, Slices!At, Slices!Running, SlicesInv
  <1>2. /\ thread' \in [Slices!Worker ->
                         Slices!Computing \cup {"gather", "verify", "finalize", "joined"}]
        /\ thread'[w] = "upload" /\ \A v \in Slices!Worker \ {w} : thread'[v] = thread[v]
    BY <1>1, SlicesGoto DEF Slices!Malloc, Slices!Computing
  <1> DEFINE f == Slices!Garbage(w)
  <1>3. f \in [Slices!Slice(w) -> Slices!Value] /\ f \in DevContents
    BY DEF Slices!Garbage, Slices!Value, DevContents
  <1>4. res' = [res EXCEPT !.dev[w] = f]
    BY DEF Slices!Malloc
  <1> HIDE DEF f
  <1>5. /\ res' \in [host : [Slices!Element -> Slices!Value], root : SUBSET Slices!Worker,
                     dev : [Slices!Worker -> DevContents]]
        /\ res'.host = res.host /\ res'.root = res.root
        /\ res'.dev[w] = f /\ \A v \in Slices!Worker \ {w} : res'.dev[v] = res.dev[v]
    BY <1>3, <1>4, BufferStored
  <1>6. Slices!TypeOK'
    BY <1>1, <1>2, <1>3, <1>5, SlicesTyped DEF SlicesInv, Slices!TypeOK
  <1>7. SliceIs(w, "input")
    BY <1>1 DEF WorkerIs
  <1>8. WorkerIs(w)'
    <2>1. Slices!Slice(w)' = Slices!Slice(w)
      BY <1>1, TeamSame
    <2>2. SliceIs(w, "input")'
      BY <1>5, <1>7, <2>1 DEF SliceIs
    <2> QED BY <1>1, <1>2, <1>3, <1>5, <2>1, <2>2 DEF WorkerIs, Allocated, Computed
  <1>9. \A i \in Slices!Slice(w) : res'.host[i] # "garbage"
    BY <1>5, <1>7 DEF SliceIs
  <1> QED BY <1>1, <1>2, <1>5, <1>6, <1>8, <1>9, SlicesWorkerStep

\* A worker copies its slice to its buffer.
LEMMA SlicesUpload ==
  ASSUME Slices!SlicesAssumption, SlicesInv, NEW w \in Slices!Worker, Slices!Upload(w)
  PROVE  SlicesInv'
  <1>1. /\ main.exit = "none" /\ w \in Slices!Team /\ thread[w] = "upload"
        /\ UNCHANGED << main, stream >> /\ WorkerIs(w)
        /\ Slices!Slice(w) \subseteq Slices!Element
    BY SliceFacts DEF Slices!Upload, Slices!At, Slices!Running, SlicesInv
  <1>2. /\ thread' \in [Slices!Worker ->
                         Slices!Computing \cup {"gather", "verify", "finalize", "joined"}]
        /\ thread'[w] = "launch" /\ \A v \in Slices!Worker \ {w} : thread'[v] = thread[v]
    BY <1>1, SlicesGoto DEF Slices!Upload, Slices!Computing
  <1>3. SliceIs(w, "input")
    BY <1>1 DEF WorkerIs
  <1> DEFINE f == [i \in Slices!Slice(w) |-> res.host[i]]
  <1>4. f \in [Slices!Slice(w) -> Slices!Value] /\ \A i \in Slices!Slice(w) : f[i] = "input"
    BY <1>3 DEF Slices!Value, SliceIs
  <1>5. res' = [res EXCEPT !.dev[w] = f]
    BY DEF Slices!Upload
  <1> HIDE DEF f
  <1>6. f \in DevContents
    BY <1>4 DEF DevContents
  <1>7. /\ res' \in [host : [Slices!Element -> Slices!Value], root : SUBSET Slices!Worker,
                     dev : [Slices!Worker -> DevContents]]
        /\ res'.host = res.host /\ res'.root = res.root
        /\ res'.dev[w] = f /\ \A v \in Slices!Worker \ {w} : res'.dev[v] = res.dev[v]
    BY <1>5, <1>6, BufferStored
  <1>8. Slices!TypeOK'
    BY <1>1, <1>2, <1>4, <1>7, SlicesTyped DEF SlicesInv, Slices!TypeOK
  <1>9. WorkerIs(w)'
    <2>1. Slices!Slice(w)' = Slices!Slice(w)
      BY <1>1, TeamSame
    <2>2. SliceIs(w, "input")' /\ BufferIs(w, "input")'
      BY <1>3, <1>4, <1>7, <2>1 DEF SliceIs, BufferIs
    <2> QED BY <1>1, <1>2, <1>4, <1>7, <2>1, <2>2 DEF WorkerIs, Allocated, Computed
  <1>10. \A i \in Slices!Slice(w) : res'.host[i] # "garbage"
    BY <1>3, <1>7 DEF SliceIs
  <1> QED BY <1>1, <1>2, <1>7, <1>8, <1>9, <1>10, SlicesWorkerStep

\* A worker gives its stream the kernel.
LEMMA SlicesLaunch ==
  ASSUME Slices!SlicesAssumption, SlicesInv, NEW w \in Slices!Worker, Slices!Launch(w)
  PROVE  SlicesInv'
  <1>1. /\ main.exit = "none" /\ w \in Slices!Team /\ thread[w] = "launch"
        /\ UNCHANGED << main, res >> /\ WorkerIs(w)
        /\ Slices!Slice(w) \subseteq Slices!Element
    BY SliceFacts DEF Slices!Launch, Slices!At, Slices!Running, SlicesInv
  <1>2. /\ thread' \in [Slices!Worker ->
                         Slices!Computing \cup {"gather", "verify", "finalize", "joined"}]
        /\ thread'[w] = "download" /\ \A v \in Slices!Worker \ {w} : thread'[v] = thread[v]
    BY <1>1, SlicesGoto DEF Slices!Launch, Slices!Computing
  <1>3. stream \in [Slices!Worker -> Seq({"kernel"})] /\ stream[w] = << >>
    BY <1>1 DEF SlicesInv, Slices!TypeOK, WorkerIs
  <1>4. /\ Append(<< >>, "kernel") \in Seq({"kernel"})
        /\ Len(Append(<< >>, "kernel")) = 1 /\ Append(<< >>, "kernel") # << >>
    <2>1. << >> \in Seq({"kernel"}) /\ Len(<< >>) = 0 /\ "kernel" \in {"kernel"}
      BY EmptySeq
    <2>2. /\ Append(<< >>, "kernel") \in Seq({"kernel"})
          /\ Len(Append(<< >>, "kernel")) = Len(<< >>) + 1
      BY <2>1, AppendProperties
    <2> QED BY <2>1, <2>2
  <1>5. /\ stream' \in [Slices!Worker -> Seq({"kernel"})]
        /\ stream'[w] # << >> /\ Len(stream'[w]) <= 1
        /\ \A v \in Slices!Worker \ {w} : stream'[v] = stream[v]
    <2> DEFINE s == Append(<< >>, "kernel")
    <2>1. stream' = [stream EXCEPT ![w] = s]
      BY <1>3 DEF Slices!Launch, Slices!Enqueued
    <2> HIDE DEF s
    <2>2. s \in Seq({"kernel"}) /\ Len(s) <= 1 /\ s # << >>
      BY <1>4 DEF s
    <2> QED BY <1>3, <2>1, <2>2
  <1>6. Slices!TypeOK'
    <2>1. /\ res \in [host : [Slices!Element -> Slices!Value], root : SUBSET Slices!Worker,
                      dev : [Slices!Worker -> DevContents]]
          /\ res.dev[w] \in {<< >>} \cup [Slices!Slice(w) -> Slices!Value]
      BY DEF SlicesInv, Slices!TypeOK, DevContents
    <2> QED BY <1>1, <1>2, <1>5, <2>1, SlicesTyped
  <1>7. SliceIs(w, "input") /\ BufferIs(w, "input")
    BY <1>1 DEF WorkerIs
  <1>8. WorkerIs(w)'
    <2>1. Slices!Slice(w)' = Slices!Slice(w)
      BY <1>1, TeamSame
    <2>2. SliceIs(w, "input")' /\ BufferIs(w, "input")'
      BY <1>1, <1>7, <2>1 DEF SliceIs, BufferIs
    <2> QED BY <1>1, <1>2, <1>5, <2>1, <2>2 DEF WorkerIs, Allocated, Computed
  <1>9. \A i \in Slices!Slice(w) : res'.host[i] # "garbage"
    BY <1>1, <1>7 DEF SliceIs
  <1> QED BY <1>1, <1>2, <1>5, <1>6, <1>8, <1>9, SlicesWorkerStep

\* The kernel computes the worker's buffer.
LEMMA SlicesKernel ==
  ASSUME Slices!SlicesAssumption, SlicesInv, NEW w \in Slices!Worker, Slices!Kernel(w)
  PROVE  SlicesInv'
  <1>1. w \in Slices!Team
    BY DEF Slices!Kernel, SlicesInv, Roles
  <1>2. /\ main.exit = "none" /\ stream[w] # << >> /\ UNCHANGED << main, thread >>
        /\ WorkerIs(w) /\ Slices!Slice(w) \subseteq Slices!Element
    BY <1>1, SliceFacts DEF Slices!Kernel, Slices!Running, SlicesInv
  <1>3. thread[w] = "download" /\ SliceIs(w, "input") /\ BufferIs(w, "input")
    BY <1>2 DEF WorkerIs
  <1>4. /\ thread \in [Slices!Worker ->
                        Slices!Computing \cup {"gather", "verify", "finalize", "joined"}]
        /\ stream \in [Slices!Worker -> Seq({"kernel"})] /\ Len(stream[w]) <= 1
    BY <1>2 DEF SlicesInv, Slices!TypeOK, WorkerIs
  <1>5. Tail(stream[w]) = << >>
    <2>1. stream[w] \in Seq({"kernel"}) /\ Len(stream[w]) <= 1 /\ stream[w] # << >>
      BY <1>2, <1>4
    <2>2. /\ Tail(stream[w]) \in Seq({"kernel"}) /\ Len(Tail(stream[w])) = Len(stream[w]) - 1
          /\ Len(stream[w]) \in Nat
      BY <2>1, HeadTailProperties, LenProperties
    <2>3. Len(Tail(stream[w])) \in Nat
      BY <2>2, LenProperties
    <2>4. Len(Tail(stream[w])) = 0
      <3> DEFINE m == Len(stream[w])
                 n == Len(Tail(stream[w]))
      <3>1. m \in Nat /\ m <= 1 /\ n \in Nat /\ n = m - 1
        BY <2>1, <2>2, <2>3
      <3> HIDE DEF m, n
      <3>2. n = 0
        BY <3>1
      <3> QED BY <3>2 DEF n
    <2> QED BY <2>2, <2>4, EmptySeq
  <1>6. /\ stream' \in [Slices!Worker -> Seq({"kernel"})] /\ stream'[w] = << >>
        /\ \A v \in Slices!Worker \ {w} : stream'[v] = stream[v]
    <2> DEFINE s == Tail(stream[w])
    <2>1. stream' = [stream EXCEPT ![w] = s]
      BY <1>4 DEF Slices!Kernel, Slices!Popped
    <2>2. s \in Seq({"kernel"}) /\ s = << >>
      BY <1>5, EmptySeq
    <2> HIDE DEF s
    <2> QED BY <1>4, <2>1, <2>2
  <1> DEFINE f == [i \in Slices!Slice(w) |->
                     IF res.dev[w][i] = "input" THEN "result" ELSE "garbage"]
  <1>7. f \in [Slices!Slice(w) -> Slices!Value] /\ \A i \in Slices!Slice(w) : f[i] = "result"
    BY <1>3 DEF Slices!Value, BufferIs
  <1>8. res' = [res EXCEPT !.dev[w] = f]
    BY DEF Slices!Kernel, SlicesInv, Slices!TypeOK
  <1> HIDE DEF f
  <1>9. f \in DevContents
    BY <1>7 DEF DevContents
  <1>10. /\ res' \in [host : [Slices!Element -> Slices!Value], root : SUBSET Slices!Worker,
                      dev : [Slices!Worker -> DevContents]]
         /\ res'.host = res.host /\ res'.root = res.root
         /\ res'.dev[w] = f /\ \A v \in Slices!Worker \ {w} : res'.dev[v] = res.dev[v]
    BY <1>8, <1>9, BufferStored
  <1>11. Slices!TypeOK'
    BY <1>2, <1>4, <1>6, <1>7, <1>10, SlicesTyped
  <1>12. WorkerIs(w)'
    <2>1. Slices!Slice(w)' = Slices!Slice(w)
      BY <1>2, TeamSame
    <2>2. SliceIs(w, "input")' /\ BufferIs(w, "result")'
      BY <1>3, <1>7, <1>10, <2>1 DEF SliceIs, BufferIs
    <2>3. Len(stream'[w]) <= 1
      BY <1>6, EmptySeq
    <2> QED BY <1>2, <1>3, <1>6, <1>7, <1>10, <2>1, <2>2, <2>3 DEF WorkerIs, Allocated, Computed
  <1>13. \A i \in Slices!Slice(w) : res'.host[i] # "garbage"
    BY <1>3, <1>10 DEF SliceIs
  <1>14. thread'[w] = "download" /\ \A v \in Slices!Worker \ {w} : thread'[v] = thread[v]
    BY <1>2, <1>3
  <1> QED BY <1>1, <1>2, <1>3, <1>6, <1>10, <1>11, <1>12, <1>13, <1>14, SlicesWorkerStep

\* A worker copies its buffer back, once the kernel has run.
LEMMA SlicesDownload ==
  ASSUME Slices!SlicesAssumption, SlicesInv, NEW w \in Slices!Worker, Slices!Download(w)
  PROVE  SlicesInv'
  <1>1. /\ main.exit = "none" /\ w \in Slices!Team /\ thread[w] = "download"
        /\ stream[w] = << >> /\ UNCHANGED << main, stream >> /\ WorkerIs(w)
        /\ Slices!Slice(w) \subseteq Slices!Element
    BY SliceFacts DEF Slices!Download, Slices!At, Slices!Running, SlicesInv
  <1>2. /\ thread' \in [Slices!Worker ->
                         Slices!Computing \cup {"gather", "verify", "finalize", "joined"}]
        /\ thread'[w] = "free" /\ \A v \in Slices!Worker \ {w} : thread'[v] = thread[v]
    BY <1>1, SlicesGoto DEF Slices!Download, Slices!Computing
  <1>3. BufferIs(w, "result") /\ res.dev[w] \in [Slices!Slice(w) -> Slices!Value]
    BY <1>1 DEF WorkerIs, Allocated
  <1> DEFINE f == res.dev[w]
  <1>4. \A i \in Slices!Slice(w) : f[i] = "result"
    BY <1>3 DEF BufferIs
  <1>5. res' = [res EXCEPT !.host = [i \in Slices!Element |->
                                       IF i \in Slices!Slice(w) THEN f[i] ELSE res.host[i]]]
    BY DEF Slices!Download, SlicesInv, Slices!TypeOK
  <1>6. f \in [Slices!Slice(w) -> Slices!Value]
    BY <1>3
  <1> HIDE DEF f
  <1>7. /\ res' \in [host : [Slices!Element -> Slices!Value], root : SUBSET Slices!Worker,
                     dev : [Slices!Worker -> DevContents]]
        /\ res'.dev = res.dev /\ res'.root = res.root
        /\ \A i \in Slices!Slice(w) : res'.host[i] = f[i]
        /\ \A i \in Slices!Element \ Slices!Slice(w) : res'.host[i] = res.host[i]
    BY <1>1, <1>4, <1>5, HostStored DEF Slices!Value
  <1>8. Slices!TypeOK'
    BY <1>1, <1>2, <1>7, SlicesTyped DEF SlicesInv, Slices!TypeOK
  <1>9. WorkerIs(w)'
    <2>1. Slices!Slice(w)' = Slices!Slice(w)
      BY <1>1, TeamSame
    <2>2. SliceIs(w, "result")'
      BY <1>4, <1>7, <2>1 DEF SliceIs
    <2> QED BY <1>1, <1>2, <1>3, <1>7, <2>1, <2>2 DEF WorkerIs, Allocated, Computed
  <1> QED BY <1>1, <1>2, <1>4, <1>7, <1>8, <1>9, SlicesWorkerStep

\* A worker frees its buffer.
LEMMA SlicesFreeBuffer ==
  ASSUME Slices!SlicesAssumption, SlicesInv, NEW w \in Slices!Worker, Slices!FreeBuffer(w)
  PROVE  SlicesInv'
  <1>1. /\ main.exit = "none" /\ w \in Slices!Team /\ thread[w] = "free"
        /\ UNCHANGED << main, stream >> /\ WorkerIs(w)
    BY DEF Slices!FreeBuffer, Slices!At, Slices!Running, SlicesInv
  <1>2. PICK label \in {"gather", "joined"} :
          label = (IF main.program = "mpi" THEN "gather" ELSE "joined")
    OBVIOUS
  <1>3. /\ thread' \in [Slices!Worker ->
                         Slices!Computing \cup {"gather", "verify", "finalize", "joined"}]
        /\ thread'[w] = label /\ \A v \in Slices!Worker \ {w} : thread'[v] = thread[v]
    BY <1>1, <1>2, SlicesGoto DEF Slices!FreeBuffer
  <1>4. << >> \in DevContents /\ w \in Slices!Worker
    BY DEF DevContents
  <1>5. /\ res' \in [host : [Slices!Element -> Slices!Value], root : SUBSET Slices!Worker,
                     dev : [Slices!Worker -> DevContents]]
        /\ res'.host = res.host /\ res'.root = res.root
        /\ res'.dev[w] = << >> /\ \A v \in Slices!Worker \ {w} : res'.dev[v] = res.dev[v]
    BY <1>4, BufferStored DEF Slices!FreeBuffer
  <1>6. Slices!TypeOK'
    BY <1>1, <1>3, <1>5, SlicesTyped DEF SlicesInv, Slices!TypeOK
  <1>7. SliceIs(w, "result")
    BY <1>1 DEF WorkerIs, Computed
  <1>8. WorkerIs(w)'
    <2>1. Slices!Slice(w)' = Slices!Slice(w)
      BY <1>1, TeamSame
    <2>2. SliceIs(w, "result")'
      BY <1>5, <1>7, <2>1 DEF SliceIs
    <2> QED BY <1>1, <1>3, <1>5, <2>2 DEF WorkerIs, Allocated, Computed
  <1>9. \A i \in Slices!Slice(w) : res'.host[i] # "garbage"
    BY <1>5, <1>7 DEF SliceIs
  <1> QED BY <1>1, <1>2, <1>3, <1>5, <1>6, <1>8, <1>9, SlicesWorkerStep

\* A rank that gathers stays with its slice; the root comes after all of them.
LEMMA SlicesGather ==
  ASSUME Slices!SlicesAssumption, SlicesInv, NEW w \in Slices!Worker, Slices!Gather(w)
  PROVE  SlicesInv'
  <1>1. /\ main.exit = "none" /\ w \in Slices!Team /\ thread[w] = "gather"
        /\ UNCHANGED << main, stream >> /\ WorkerIs(w)
        /\ Slices!Root \in Slices!Team /\ Slices!Team \subseteq Slices!Worker
    BY SliceFacts DEF Slices!Gather, Slices!At, Slices!Running, SlicesInv
  <1>2. main.program = "mpi"
    BY <1>1 DEF SlicesInv, Roles, Slices!TypeOK
  <1>3. PICK label \in {"verify", "finalize"} :
          label = (IF w = Slices!Root THEN "verify" ELSE "finalize")
    OBVIOUS
  <1>4. /\ thread' \in [Slices!Worker ->
                         Slices!Computing \cup {"gather", "verify", "finalize", "joined"}]
        /\ thread'[w] = label /\ \A v \in Slices!Worker \ {w} : thread'[v] = thread[v]
    BY <1>1, <1>3, SlicesGoto DEF Slices!Gather
  <1>5. res \in [host : [Slices!Element -> Slices!Value], root : SUBSET Slices!Worker,
                 dev : [Slices!Worker -> DevContents]]
    BY DEF SlicesInv, Slices!TypeOK, DevContents
  <1>6. /\ res' \in [host : [Slices!Element -> Slices!Value], root : SUBSET Slices!Worker,
                     dev : [Slices!Worker -> DevContents]]
        /\ res'.host = res.host /\ res'.dev = res.dev
        /\ w = Slices!Root => res'.root = Slices!Team
        /\ w # Slices!Root => res'.root = res.root
    <2>1. CASE w = Slices!Root
      <3>1. res' = [res EXCEPT !.root = Slices!Team]
        BY <2>1, <1>5 DEF Slices!Gather
      <3> QED BY <1>1, <1>5, <2>1, <3>1
    <2>2. CASE w # Slices!Root
      <3>1. res' = res
        BY <2>2, <1>5 DEF Slices!Gather
      <3> QED BY <1>5, <2>2, <3>1
    <2> QED BY <2>1, <2>2
  <1>7. Slices!TypeOK'
    BY <1>1, <1>4, <1>6, SlicesTyped DEF SlicesInv, Slices!TypeOK
  <1>8. Slices!NoForeignAccess'
    BY <1>6 DEF SlicesInv, Slices!NoForeignAccess
  <1>9. Slices!Team' = Slices!Team /\ \A v : Slices!Slice(v)' = Slices!Slice(v)
    BY <1>1, TeamSame
  <1>10. \A v, value : /\ SliceIs(v, value) => SliceIs(v, value)'
                       /\ BufferIs(v, value) => BufferIs(v, value)'
    BY <1>6, <1>9 DEF SliceIs, BufferIs
  <1>11. ASSUME NEW v \in Slices!Team PROVE WorkerIs(v)'
    <2>1. WorkerIs(v) /\ stream'[v] = stream[v] /\ res'.dev[v] = res.dev[v]
      BY <1>1, <1>6 DEF SlicesInv
    <2>2. CASE v = w
      <3>1. SliceIs(v, "result") /\ SliceIs(v, "result")'
        BY <1>1, <1>10, <2>2 DEF WorkerIs, Computed
      <3>2. thread'[v] \in {"verify", "finalize"} /\ thread[v] = "gather"
        BY <1>1, <1>4, <2>2
      <3> QED BY <1>9, <2>1, <3>1, <3>2 DEF WorkerIs, Allocated, Computed
    <2>3. CASE v # w
      <3>1. thread'[v] = thread[v]
        BY <1>1, <1>4, <2>3
      <3> QED BY <1>9, <1>10, <2>1, <3>1 DEF WorkerIs
    <2> QED BY <2>2, <2>3
  <1>12. Roles'
    <2>1. Roles
      BY DEF SlicesInv
    <2>2. \A v \in Slices!Worker \ Slices!Team :
            thread'[v] = thread[v] /\ stream'[v] = stream[v] /\ res'.dev[v] = res.dev[v]
      BY <1>1, <1>4, <1>6
    <2>3. \A v \in Slices!Team : /\ thread'[v] = "verify" => v = Slices!Root
                                 /\ thread'[v] # "joined"
      BY <1>1, <1>2, <1>3, <1>4, <2>1 DEF Roles
    <2> QED BY <1>1, <1>2, <1>9, <2>1, <2>2, <2>3 DEF Roles
  <1>13. Gathered'
    <2>1. CASE w = Slices!Root
      <3>1. \A r \in Slices!Team \ {w} : thread[r] \notin Slices!Computing \cup {"gather"}
        BY <2>1 DEF Slices!Gather, Slices!Past
      <3>2. \A r \in Slices!Team \ {w} : thread[r] \in {"verify", "finalize"}
        <4>1. \A r \in Slices!Team : thread[r] # "joined"
          BY <1>2 DEF SlicesInv, Roles
        <4> QED BY <1>1, <3>1, <4>1 DEF SlicesInv, Slices!TypeOK
      <3>3. \A r \in Slices!Team : thread'[r] \in {"verify", "finalize"}
        BY <1>1, <1>3, <1>4, <3>2
      <3>4. thread'[Slices!Root] = "verify"
        BY <1>3, <1>4, <2>1
      <3> QED BY <1>6, <1>9, <2>1, <3>3, <3>4 DEF Gathered
    <2>2. CASE w # Slices!Root
      <3>1. thread[Slices!Root] \notin {"verify", "finalize"}
        BY <1>1, <1>2 DEF SlicesInv, Gathered
      <3>2. thread'[Slices!Root] = thread[Slices!Root]
        BY <1>1, <1>4, <2>2
      <3> QED BY <3>1, <3>2 DEF Gathered
    <2> QED BY <2>1, <2>2
  <1>14. Ended'
    BY <1>1 DEF Ended
  <1> QED BY <1>7, <1>8, <1>9, <1>11, <1>12, <1>13, <1>14 DEF SlicesInv

\* What a step of main alone leaves as it was.
LEMMA SlicesMain ==
  ASSUME SlicesInv, UNCHANGED << thread, stream, res >>, main' \in MainType,
         main'.program = main.program, main'.team = main.team
  PROVE  /\ Slices!TypeOK' /\ Slices!NoForeignAccess'
         /\ Slices!Team' = Slices!Team /\ \A w \in Slices!Team : WorkerIs(w)'
         /\ Roles'
  <1>1. Slices!Team' = Slices!Team /\ \A v : Slices!Slice(v)' = Slices!Slice(v)
    BY TeamSame
  <1>2. Slices!TypeOK'
    <2>1. DevContents' = DevContents
      BY <1>1 DEF DevContents
    <2>2. res' \in [host : [Slices!Element -> Slices!Value], root : SUBSET Slices!Worker,
                    dev : [Slices!Worker ->
                            {<< >>} \cup UNION { [Slices!Slice(v)' -> Slices!Value] : v \in Slices!Worker }]]
      BY <2>1 DEF DevContents, SlicesInv, Slices!TypeOK
    <2>3. \A v \in Slices!Worker : res'.dev[v] \in {<< >>} \cup [Slices!Slice(v)' -> Slices!Value]
      BY <1>1 DEF SlicesInv, Slices!TypeOK
    <2> QED BY <2>2, <2>3 DEF SlicesInv, Slices!TypeOK, MainType
  <1>3. Slices!NoForeignAccess'
    BY DEF SlicesInv, Slices!NoForeignAccess
  <1>4. \A w \in Slices!Team : WorkerIs(w)'
    BY <1>1 DEF SlicesInv, WorkerIs, SliceIs, BufferIs
  <1>5. Roles'
    BY <1>1 DEF SlicesInv, Roles
  <1> QED BY <1>1, <1>2, <1>3, <1>4, <1>5

\* The root verifies the array it has gathered.
LEMMA SlicesVerifyGradients ==
  ASSUME Slices!SlicesAssumption, SlicesInv, Slices!VerifyGradients
  PROVE  SlicesInv'
  <1>1. /\ main.exit = "none" /\ main.program = "mpi" /\ thread[Slices!Root] = "verify"
        /\ UNCHANGED << stream, res >>
        /\ Slices!Root \in Slices!Team /\ Slices!Team = Slices!Worker
        /\ \A i \in Slices!Element : \E w \in Slices!Team : i \in Slices!Slice(w)
    BY SliceFacts
       DEF Slices!VerifyGradients, Slices!At, Slices!Running, SlicesInv, Roles
  <1>2. /\ \A r \in Slices!Team : thread[r] \in {"verify", "finalize"}
        /\ res.root = Slices!Team
    BY <1>1 DEF SlicesInv, Gathered
  <1>3. \A i \in Slices!Element : res.host[i] = "result"
    <2>1. \A w \in Slices!Team : SliceIs(w, "result")
      BY <1>2 DEF SlicesInv, WorkerIs, Computed
    <2> QED BY <1>1, <2>1 DEF SliceIs
  <1>4. main \in MainType
    BY DEF SlicesInv, Slices!TypeOK, MainType
  <1>5. main' = [main EXCEPT !.verdict = "PASS"]
    BY <1>3, <1>4 DEF Slices!VerifyGradients, Slices!Interior
  <1>6. /\ main' \in MainType /\ main'.program = main.program /\ main'.team = main.team
        /\ main'.exit = "none" /\ main'.verdict = "PASS"
    BY <1>1, <1>4, <1>5 DEF MainType
  <1>7. Slices!Team' = Slices!Team /\ \A v : Slices!Slice(v)' = Slices!Slice(v)
    BY <1>6, TeamSame
  <1>8. /\ thread' \in [Slices!Worker ->
                         Slices!Computing \cup {"gather", "verify", "finalize", "joined"}]
        /\ thread'[Slices!Root] = "finalize"
        /\ \A v \in Slices!Worker \ {Slices!Root} : thread'[v] = thread[v]
    BY <1>1, SlicesGoto DEF Slices!VerifyGradients
  <1>9. Slices!TypeOK'
    <2>1. DevContents' = DevContents
      BY <1>7 DEF DevContents
    <2>2. res' \in [host : [Slices!Element -> Slices!Value], root : SUBSET Slices!Worker,
                    dev : [Slices!Worker ->
                            {<< >>} \cup UNION { [Slices!Slice(v)' -> Slices!Value] : v \in Slices!Worker }]]
      BY <1>1, <2>1 DEF DevContents, SlicesInv, Slices!TypeOK
    <2>3. \A v \in Slices!Worker : res'.dev[v] \in {<< >>} \cup [Slices!Slice(v)' -> Slices!Value]
      BY <1>1, <1>7 DEF SlicesInv, Slices!TypeOK
    <2>4. stream' \in [Slices!Worker -> Seq({"kernel"})]
      BY <1>1 DEF SlicesInv, Slices!TypeOK
    <2> QED BY <1>6, <1>8, <2>2, <2>3, <2>4 DEF Slices!TypeOK, MainType
  <1>10. Slices!NoForeignAccess'
    BY <1>1 DEF SlicesInv, Slices!NoForeignAccess
  <1>11. ASSUME NEW v \in Slices!Team PROVE WorkerIs(v)'
    <2>1. WorkerIs(v) /\ thread[v] \in {"verify", "finalize"} /\ thread'[v] \in {"verify", "finalize"}
      BY <1>1, <1>2, <1>8 DEF SlicesInv
    <2>2. SliceIs(v, "result")'
      BY <1>1, <1>7, <2>1 DEF WorkerIs, SliceIs, Computed
    <2> QED BY <1>1, <1>7, <2>1, <2>2 DEF WorkerIs, Allocated, Computed
  <1>12. Roles'
    <2>1. \A v \in Slices!Team : /\ thread'[v] # "joined"
                                 /\ thread'[v] = "verify" => v = Slices!Root
      BY <1>1, <1>2, <1>8 DEF SlicesInv, Roles
    <2>2. main.team = NumDevices
      BY <1>1 DEF SlicesInv, Roles
    <2> QED BY <1>1, <1>6, <1>7, <2>1, <2>2 DEF Roles
  <1>13. Gathered'
    <2>1. \A r \in Slices!Team : thread'[r] \in {"verify", "finalize"}
      BY <1>1, <1>2, <1>8
    <2> QED BY <1>1, <1>2, <1>6, <1>7, <2>1 DEF Gathered
  <1>14. Ended'
    BY <1>6 DEF Ended
  <1> QED BY <1>7, <1>9, <1>10, <1>11, <1>12, <1>13, <1>14 DEF SlicesInv

\* mpi_ppu_dispatch returns when every rank has finalised.
LEMMA SlicesFinalize ==
  ASSUME Slices!SlicesAssumption, SlicesInv, Slices!Finalize
  PROVE  SlicesInv'
  <1>1. /\ main.exit = "none" /\ main.program = "mpi" /\ UNCHANGED << thread, stream, res >>
        /\ \A r \in Slices!Team : thread[r] = "finalize"
        /\ Slices!Root \in Slices!Team
    BY SliceFacts DEF Slices!Finalize, Slices!Running, SlicesInv
  <1>2. main.verdict = "PASS"
    BY <1>1 DEF SlicesInv, Gathered
  <1>3. main \in MainType
    BY DEF SlicesInv, Slices!TypeOK, MainType
  <1>4. /\ main' \in MainType /\ main'.program = main.program /\ main'.team = main.team
        /\ main'.exit = "success" /\ main'.verdict = main.verdict
    BY <1>3 DEF Slices!Finalize, MainType
  <1>5. /\ Slices!TypeOK' /\ Slices!NoForeignAccess' /\ Slices!Team' = Slices!Team
        /\ \A w \in Slices!Team : WorkerIs(w)'
        /\ Roles'
    BY <1>1, <1>4, SlicesMain
  <1>6. Gathered'
    BY <1>1, <1>2, <1>4, <1>5 DEF SlicesInv, Gathered
  <1>7. Ended'
    BY <1>1, <1>2, <1>4, <1>5 DEF Ended
  <1> QED BY <1>5, <1>6, <1>7 DEF SlicesInv

\* openmp_ppu_dispatch verifies the array when its team has joined.
LEMMA SlicesVerifyResult ==
  ASSUME Slices!SlicesAssumption, SlicesInv, Slices!VerifyResult
  PROVE  SlicesInv'
  <1>1. /\ main.exit = "none" /\ main.program = "openmp"
        /\ UNCHANGED << thread, stream, res >>
        /\ \A r \in Slices!Team : thread[r] = "joined"
    BY DEF Slices!VerifyResult, Slices!Running
  <1>2. main \in MainType
    BY DEF SlicesInv, Slices!TypeOK, MainType
  <1>3. PICK verdict \in {"PASS", "FAIL"}, exit \in {"success", "failure"} :
          /\ main' = [main EXCEPT !.verdict = verdict, !.exit = exit]
          /\ exit = "success" => /\ verdict = "PASS"
                                 /\ \A i \in Slices!Element : res.host[i] = "result"
    <2>1. CASE \A i \in Slices!Element : res.host[i] = "result"
      <3>1. main' = [main EXCEPT !.verdict = "PASS", !.exit = "success"]
        BY <2>1 DEF Slices!VerifyResult
      <3> QED BY <2>1, <3>1
    <2>2. CASE ~ \A i \in Slices!Element : res.host[i] = "result"
      <3>1. main' = [main EXCEPT !.verdict = "FAIL", !.exit = "failure"]
        BY <2>2 DEF Slices!VerifyResult
      <3> QED BY <3>1
    <2> QED BY <2>1, <2>2
  <1>4. /\ main' \in MainType /\ main'.program = main.program /\ main'.team = main.team
        /\ main'.exit = exit /\ main'.verdict = verdict
    BY <1>2, <1>3 DEF MainType
  <1>5. /\ Slices!TypeOK' /\ Slices!NoForeignAccess' /\ Slices!Team' = Slices!Team
        /\ \A w \in Slices!Team : WorkerIs(w)'
        /\ Roles'
    BY <1>1, <1>4, SlicesMain
  <1>6. Gathered'
    BY <1>1, <1>4 DEF Gathered
  <1>7. Ended'
    BY <1>1, <1>3, <1>4, <1>5 DEF Ended
  <1> QED BY <1>5, <1>6, <1>7 DEF SlicesInv

\* A call fails.
LEMMA SlicesApiFails ==
  ASSUME Slices!SlicesAssumption, SlicesInv, Slices!ApiFails
  PROVE  SlicesInv'
  <1>1. main \in MainType /\ UNCHANGED << thread, stream, res >>
    BY DEF SlicesInv, Slices!TypeOK, MainType, Slices!ApiFails
  <1>2. /\ main' \in MainType /\ main'.program = main.program /\ main'.team = main.team
        /\ main'.exit = "error" /\ main'.verdict = main.verdict
    BY <1>1 DEF Slices!ApiFails, MainType
  <1>3. /\ Slices!TypeOK' /\ Slices!NoForeignAccess' /\ Slices!Team' = Slices!Team
        /\ \A w \in Slices!Team : WorkerIs(w)'
        /\ Roles'
    BY <1>1, <1>2, SlicesMain
  <1>4. Gathered'
    BY <1>1, <1>2, <1>3 DEF SlicesInv, Gathered
  <1>5. Ended'
    BY <1>2 DEF Ended
  <1> QED BY <1>3, <1>4, <1>5 DEF SlicesInv

\* A step that changes nothing.
LEMMA SlicesStutter ==
  ASSUME Slices!SlicesAssumption, SlicesInv, UNCHANGED Slices!machine
  PROVE  SlicesInv'
  <1>1. main \in MainType /\ UNCHANGED << main, thread, stream, res >>
    BY DEF SlicesInv, Slices!TypeOK, MainType, Slices!machine
  <1>2. /\ Slices!TypeOK' /\ Slices!NoForeignAccess' /\ Slices!Team' = Slices!Team
        /\ \A w \in Slices!Team : WorkerIs(w)'
        /\ Roles'
    BY <1>1, SlicesMain
  <1>3. Gathered'
    BY <1>1, <1>2 DEF SlicesInv, Gathered
  <1>4. Ended'
    BY <1>1, <1>2 DEF SlicesInv, Ended
  <1> QED BY <1>2, <1>3, <1>4 DEF SlicesInv

\* Every step keeps the invariant.
LEMMA SlicesStep ==
  ASSUME Slices!SlicesAssumption, SlicesInv, [Slices!Next]_Slices!machine
  PROVE  SlicesInv'
  <1>1. CASE Slices!VerifyGradients
    BY <1>1, SlicesVerifyGradients
  <1>2. CASE Slices!Finalize
    BY <1>2, SlicesFinalize
  <1>3. CASE Slices!VerifyResult
    BY <1>3, SlicesVerifyResult
  <1>4. ASSUME NEW w \in Slices!Worker, Slices!Step(w) PROVE SlicesInv'
    BY <1>4, SlicesScatter, SlicesGather, SlicesMalloc, SlicesUpload, SlicesLaunch,
       SlicesKernel, SlicesDownload, SlicesFreeBuffer DEF Slices!Step
  <1>5. CASE Slices!ApiFails
    BY <1>5, SlicesApiFails
  <1>6. CASE UNCHANGED Slices!machine
    BY <1>6, SlicesStutter
  <1> QED BY <1>1, <1>2, <1>3, <1>4, <1>5, <1>6 DEF Slices!Next, Slices!Progress

\* What the invariant says of every state.
LEMMA SlicesConclusions ==
  ASSUME Slices!SlicesAssumption, SlicesInv
  PROVE  /\ Slices!TypeOK /\ Slices!NoForeignAccess
         /\ Slices!SuccessIsEarned /\ Slices!NothingLeaks
  <1>1. Slices!SuccessIsEarned
    <2> SUFFICES ASSUME main.exit = "success"
                 PROVE  /\ \A i \in Slices!Element : res.host[i] = "result"
                        /\ main.verdict = "PASS"
                        /\ main.program = "mpi" => res.root = Slices!Worker
      BY DEF Slices!SuccessIsEarned
    <2>1. main.verdict = "PASS" /\ main.program \in {"openmp", "mpi"}
      BY DEF SlicesInv, Ended, Slices!TypeOK
    <2>2. CASE main.program = "openmp"
      BY <2>1, <2>2 DEF SlicesInv, Ended
    <2>3. CASE main.program = "mpi"
      <3>1. \A w \in Slices!Team : thread[w] = "finalize" /\ SliceIs(w, "result")
        BY <2>3 DEF SlicesInv, Ended, WorkerIs, Computed
      <3>2. /\ Slices!Root \in Slices!Team /\ Slices!Team = Slices!Worker
            /\ \A i \in Slices!Element : \E w \in Slices!Team : i \in Slices!Slice(w)
        BY <2>3, SliceFacts DEF SlicesInv, Roles
      <3>3. res.root = Slices!Worker
        BY <2>3, <3>1, <3>2 DEF SlicesInv, Gathered
      <3> QED BY <2>1, <3>1, <3>2, <3>3 DEF SliceIs
    <2> QED BY <2>1, <2>2, <2>3
  <1>2. Slices!NothingLeaks
    BY DEF SlicesInv, Slices!NothingLeaks, Ended, WorkerIs, Roles, Allocated
  <1> QED BY <1>1, <1>2 DEF SlicesInv
-------------------------------------------------------------------------------
(* JpegBatches                                                             *)

\* The files that can be read and were dealt with, and what is made of each.
Dealt == { i \in Batches!Due : i < main.next }

Qualities == { Batches!QUALITY_LEVELS[q] : q \in 1..Len(Batches!QUALITY_LEVELS) }

\* Before the loop.
Fresh ==
  main.pc \in {"list", "init"} =>
    /\ main.next = 1 /\ main.count = 0
    /\ res = [library |-> {}, loaded |-> {}, buffers |-> << >>, decoded |-> {},
              encoded |-> {}, overrun |-> FALSE]

Listing ==
  main.files = IF main.pc = "list" THEN {}
               ELSE Batches!list_jpeg_files(main.program, main.dir)

\* The decoder's batch: its files are due, enter the buffers in order, and with the
\* ones decoded are all that were passed.
Decoding ==
  main.program = "decoder" =>
    /\ main.pc \in {"list", "init", "load", "query", "decode", "count"}
    /\ main.pc \in {"query", "decode"} => res.decoded \cup res.loaded = Dealt
    /\ main.pc \notin {"query", "decode"} => res.decoded = Dealt
    /\ main.pc \notin {"query", "decode", "count"} => res.loaded = {}
    /\ main.pc \in {"decode", "count"} => res.loaded # {}
    /\ main.pc = "decode" =>
         res.buffers = [b \in 1..main.batch |-> Batches!Size(Batches!First(res.loaded))]
    /\ main.pc \notin {"decode", "count"} => res.buffers = << >>
    /\ \A i \in res.loaded : /\ Batches!Entry(i) \in 1..main.batch
                             /\ main.batch = 1 => i = Batches!First(res.loaded)
    /\ main.pc = "count" => res.loaded \subseteq res.decoded
    /\ main.count > 0 => res.decoded # {}
    /\ main.batch \in BatchSizes

\* The encoder's image.
Encoding ==
  main.program = "encoder" =>
    /\ main.batch = 1 /\ res.loaded = {} /\ ~ res.overrun
    /\ main.pc \in {"list", "init", "load", "decode", "encode", "free"}
    /\ main.pc \in {"decode", "encode", "free"} =>
         Batches!Rest # {} /\ Batches!Readable(Batches!Here)
    /\ res.decoded = Dealt \cup (IF main.pc \in {"encode", "free"} THEN {Batches!Here} ELSE {})
    /\ res.encoded =
         (Dealt \cup (IF main.pc = "free" THEN {Batches!Here} ELSE {})) \X Qualities
    /\ main.count = Cardinality(Dealt)
    /\ main.pc \notin {"encode", "free"} => res.buffers = << >>

Returned ==
  /\ main.exit \in {"success", "failure"} =>
       /\ main.pc \in {"list", "load"} /\ res.library = {} /\ res.buffers = << >>
  /\ main.exit = "success" => main.pc = "load" /\ Batches!Rest = {} /\ main.count > 0

BatchesInv ==
  /\ Batches!TypeOK /\ Batches!ImagesFit
  /\ Fresh /\ Listing /\ Decoding /\ Encoding /\ Returned
-------------------------------------------------------------------------------
\* The instance counts as FiniteSets does.
LEMMA SameCardinality == ASSUME NEW S PROVE Batches!Cardinality(S) = Cardinality(S)
  BY DEF Batches!Cardinality, Cardinality

\* A set of positions that is not empty has a first and a last one.
LEMMA FirstOf ==
  ASSUME NEW S \in SUBSET Nat, S # {}
  PROVE  Batches!First(S) \in S /\ \A j \in S : Batches!First(S) <= j
  <1>1. PICK m \in S : \A j \in S : ~ (<< j, m >> \in OpToRel(<, Nat))
    BY WFMin, NatLessThanWellFounded, Zenon
  <1>2. \A j \in S : ~ (j < m)
    BY <1>1 DEF OpToRel
  <1>3. m \in S /\ \A j \in S : m <= j
    BY <1>2
  <1> QED BY <1>3 DEF Batches!First

LEMMA LastOf ==
  ASSUME NEW n \in Nat, NEW S \in SUBSET (1..n), S # {}
  PROVE  Batches!Last(S) \in S /\ \A j \in S : j <= Batches!Last(S)
  <1> DEFINE T == { n - i : i \in S }
  <1>1. T \in SUBSET Nat /\ T # {}
    <2>1. PICK i \in S : TRUE
      OBVIOUS
    <2>2. n - i \in T
      BY <2>1
    <2>3. \A j \in S : n - j \in Nat
      OBVIOUS
    <2> QED BY <2>2, <2>3
  <1> DEFINE k == Batches!First(T)
  <1>2. k \in T /\ \A j \in T : k <= j
    BY <1>1, FirstOf
  <1> HIDE DEF k
  <1>3. PICK i \in S : k = n - i
    BY <1>2
  <1>4. \A j \in S : n - j \in T
    OBVIOUS
  <1> HIDE DEF T
  <1>5. \A j \in S : j <= i
    <2> SUFFICES ASSUME NEW j \in S PROVE j <= i
      OBVIOUS
    <2>1. n - i <= n - j
      BY <1>2, <1>3, <1>4
    <2> QED BY <2>1
  <1>6. \E x \in S : \A j \in S : j <= x
    BY <1>5
  <1> QED BY <1>6 DEF Batches!Last

\* The first files of those that can be read: how many they are, where each enters
\* the batch, and which of the readable files they leave.
FirstFew(T, R, batch) == T = { i \in R : Cardinality({ j \in R : j < i }) < batch }

FewInOrder(T, R, batch) ==
  /\ T \subseteq R /\ Cardinality(T) <= batch
  /\ \A i \in T : /\ Cardinality({ j \in T : j < i }) + 1 \in 1..batch
                  /\ batch = 1 => i = Batches!First(T)
  /\ Cardinality(T) = batch =>
       /\ T # {} /\ Batches!Last(T) \in T
       /\ \A i \in R : i \in T <=> i < Batches!Last(T) + 1
  /\ Cardinality(T) # batch => T = R

LEMMA TakenFacts ==
  ASSUME NEW n \in Nat, NEW R \in SUBSET (1..n), NEW batch \in Nat \ {0},
         NEW T, FirstFew(T, R, batch)
  PROVE  FewInOrder(T, R, batch)
  <1>0. T = { i \in R : Cardinality({ j \in R : j < i }) < batch }
    BY DEF FirstFew
  <1> DEFINE Before(i) == { j \in R : j < i }
  <1>1. IsFiniteSet(R) /\ IsFiniteSet(T) /\ T \subseteq R /\ T \in SUBSET (1..n)
    <2>1. IsFiniteSet(1..n)
      BY FS_Interval
    <2>2. IsFiniteSet(R)
      BY <2>1, FS_Subset
    <2> QED BY <1>0, <2>2, FS_Subset
  <1>2. /\ \A i : IsFiniteSet(Before(i)) /\ Cardinality(Before(i)) \in Nat
        /\ Cardinality(T) \in Nat
    <2>1. ASSUME NEW i PROVE IsFiniteSet(Before(i)) /\ Cardinality(Before(i)) \in Nat
      <3>1. Before(i) \in SUBSET R
        OBVIOUS
      <3>2. IsFiniteSet(Before(i))
        BY <1>1, <3>1, FS_Subset
      <3> HIDE DEF Before
      <3> QED BY <3>2, FS_CardinalityType
    <2> HIDE DEF Before
    <2> QED BY <1>1, <2>1, FS_CardinalityType
  <1>3. \A i \in R : i \in T <=> Cardinality(Before(i)) < batch
    BY <1>0
  <1>4. \A i, k \in R : i <= k => Cardinality(Before(i)) <= Cardinality(Before(k))
    <2> SUFFICES ASSUME NEW i \in R, NEW k \in R, i <= k
                 PROVE  Cardinality(Before(i)) <= Cardinality(Before(k))
      OBVIOUS
    <2>1. i \in Nat /\ k \in Nat /\ \A j \in R : j \in Nat
      OBVIOUS
    <2>2. Before(i) \in SUBSET Before(k)
      <3> SUFFICES ASSUME NEW j \in R, j < i PROVE j < k
        OBVIOUS
      <3> HIDE DEF Before
      <3> QED BY <2>1
    <2> HIDE DEF Before
    <2> QED BY <1>2, <2>2, FS_Subset
  <1>5. Cardinality(T) <= batch
    <2>1. CASE T = {}
      <3>1. Cardinality(T) = 0
        BY <2>1, FS_EmptySet
      <3> QED BY <3>1
    <2>2. CASE T # {}
      <3> DEFINE m == Batches!Last(T)
      <3>1. m \in T /\ \A j \in T : j <= m
        BY <1>1, <2>2, LastOf
      <3> HIDE DEF m
      <3>2. T \in SUBSET (Before(m) \cup {m})
        BY <1>1, <3>1
      <3>3. m \notin Before(m)
        BY <1>1, <3>1
      <3>4. m \in R /\ Cardinality(Before(m)) < batch
        BY <1>1, <1>3, <3>1
      <3> HIDE DEF Before
      <3>5. /\ IsFiniteSet(Before(m) \cup {m})
            /\ Cardinality(Before(m) \cup {m}) = Cardinality(Before(m)) + 1
        BY <1>2, <3>3, FS_AddElement
      <3>6. Cardinality(T) <= Cardinality(Before(m) \cup {m})
        BY <3>2, <3>5, FS_Subset
      <3> QED BY <1>2, <3>4, <3>5, <3>6
    <2> QED BY <2>1, <2>2
  <1>6. ASSUME NEW i \in T
        PROVE  /\ Cardinality({ j \in T : j < i }) + 1 \in 1..batch
               /\ batch = 1 => i = Batches!First(T)
    <2>1. { j \in T : j < i } \in SUBSET Before(i)
      BY <1>1
    <2>2. i \in R /\ Cardinality(Before(i)) < batch
      BY <1>1, <1>3
    <2> DEFINE E == { j \in T : j < i }
    <2>3. ASSUME batch = 1 PROVE i = Batches!First(T)
      <3>1. Cardinality(Before(i)) = 0
        <4> HIDE DEF Before
        <4> QED BY <1>2, <2>2, <2>3
      <3>2. Before(i) = {}
        BY <1>2, <3>1, FS_EmptySet
      <3>3. Batches!First(T) \in T /\ Batches!First(T) <= i
        <4>1. T \in SUBSET Nat /\ T # {}
          BY <1>1
        <4> QED BY <4>1, FirstOf
      <3> DEFINE f == Batches!First(T)
      <3>4. f \in R /\ ~ (f < i) /\ f <= i
        BY <1>1, <3>2, <3>3
      <3> HIDE DEF Before, f
      <3>5. \A j \in R : j \in Nat
        OBVIOUS
      <3>6. i = f
        BY <2>2, <3>4, <3>5
      <3> QED BY <3>6 DEF f
    <2>4. E \in SUBSET Before(i)
      BY <2>1
    <2> HIDE DEF Before, E
    <2>5. IsFiniteSet(E) /\ Cardinality(E) <= Cardinality(Before(i))
      BY <1>2, <2>4, FS_Subset
    <2>6. Cardinality(E) \in Nat
      BY <2>5, FS_CardinalityType
    <2>7. Cardinality(E) + 1 \in 1..batch
      BY <1>2, <2>2, <2>5, <2>6
    <2> QED BY <2>3, <2>7 DEF E
  <1>7. ASSUME Cardinality(T) = batch
        PROVE  /\ T # {} /\ Batches!Last(T) \in T
               /\ \A i \in R : i \in T <=> i < Batches!Last(T) + 1
    <2>1. T # {}
      BY <1>7, FS_EmptySet
    <2> DEFINE m == Batches!Last(T)
    <2>2. m \in T /\ \A j \in T : j <= m
      BY <1>1, <2>1, LastOf
    <2> HIDE DEF m
    <2>3. ASSUME NEW i \in R, i <= m PROVE i \in T
      <3>1. Cardinality(Before(i)) <= Cardinality(Before(m)) /\ Cardinality(Before(m)) < batch
        BY <1>1, <1>3, <1>4, <2>2, <2>3
      <3> HIDE DEF Before
      <3>2. Cardinality(Before(i)) < batch
        BY <1>2, <3>1
      <3> QED BY <1>3, <3>2
    <2>4. \A i \in R : i \in T <=> i < m + 1
      BY <1>1, <2>2, <2>3
    <2> QED BY <2>1, <2>2, <2>4 DEF m
  <1>8. ASSUME Cardinality(T) # batch, T # R PROVE FALSE
    <2> DEFINE U == R \ T
    <2>1. U \in SUBSET Nat /\ U # {}
      <3>1. \A i \in R : i \in Nat
        OBVIOUS
      <3>2. \E i \in R : i \notin T
        <4> HIDE DEF Before
        <4> QED BY <1>1, <1>8
      <3> QED BY <3>1, <3>2
    <2> DEFINE m == Batches!First(U)
    <2>2. m \in U /\ \A j \in U : m <= j
      BY <2>1, FirstOf
    <2> HIDE DEF m
    <2>3. m \in R /\ m \notin T
      BY <2>2
    <2>4. Before(m) \in SUBSET T
      <3> SUFFICES ASSUME NEW j \in Before(m), j \notin T PROVE FALSE
        OBVIOUS
      <3>1. j \in U
        OBVIOUS
      <3> QED BY <2>2, <3>1
    <2>5. ~ (Cardinality(Before(m)) < batch)
      BY <1>3, <2>3
    <2> HIDE DEF Before
    <2>6. Cardinality(Before(m)) <= Cardinality(T)
      BY <1>1, <2>4, FS_Subset
    <2> QED BY <1>2, <1>5, <1>8, <2>5, <2>6
  <1> QED BY <1>1, <1>5, <1>6, <1>7, <1>8 DEF FewInOrder

MainKept == /\ main'.program = main.program /\ main'.dir = main.dir
            /\ main'.batch = main.batch

BatchMain ==
  [program : {"decoder", "encoder"}, dir : Directories, batch : BatchSizes \cup {1},
   files : SUBSET (1..Len(main.dir)), next : 1..Len(main.dir) + 1,
   pc : {"list", "init", "load", "query", "decode", "count", "encode", "free"},
   exit : {"none", "success", "failure", "error"}, count : Nat]

BatchRes(files) ==
  [library : SUBSET Batches!Objects(main.program), loaded : SUBSET files,
   buffers : Seq(Nat), decoded : SUBSET files, encoded : SUBSET (files \X Qualities),
   overrun : BOOLEAN]

\* What a step leaves has the types, and what the types are.
LEMMA BatchesTyped ==
  ASSUME MainKept, main' \in BatchMain, res' \in BatchRes(main'.files),
         thread' = << >>, stream' = << >>, Cardinality(res'.loaded) <= main.batch
  PROVE  Batches!TypeOK'
  <1>1. Qualities = { Batches!QUALITY_LEVELS[q] : q \in 1..4 }
    BY DEF Qualities, Batches!QUALITY_LEVELS
  <1>2. main' \in [program : {"decoder", "encoder"}, dir : Directories,
                   batch : BatchSizes \cup {1},
                   files : SUBSET (1..Len(main'.dir)), next : 1..Len(main'.dir) + 1,
                   pc : {"list", "init", "load", "query", "decode", "count", "encode", "free"},
                   exit : {"none", "success", "failure", "error"}, count : Nat]
    BY DEF MainKept, BatchMain
  <1>3. res' \in [library : SUBSET Batches!Objects(main'.program), loaded : SUBSET main'.files,
                  buffers : Seq(Nat), decoded : SUBSET main'.files,
                  encoded : SUBSET (main'.files \X { Batches!QUALITY_LEVELS[q] : q \in 1..4 }),
                  overrun : BOOLEAN]
    BY <1>1 DEF MainKept, BatchRes
  <1>4. Batches!Cardinality(res'.loaded) <= main'.batch
    BY SameCardinality DEF MainKept
  <1> QED BY <1>2, <1>3, <1>4 DEF Batches!TypeOK

LEMMA BatchesTypes ==
  ASSUME Batches!TypeOK
  PROVE  main \in BatchMain /\ res \in BatchRes(main.files)
  <1>1. Qualities = { Batches!QUALITY_LEVELS[q] : q \in 1..4 }
    BY DEF Qualities, Batches!QUALITY_LEVELS
  <1> QED BY <1>1 DEF Batches!TypeOK, BatchMain, BatchRes

\* What is known of the directory, the files in it, and those that are left.
LEMMA BatchFacts ==
  ASSUME Batches!BatchesAssumption, BatchesInv
  PROVE  /\ Len(main.dir) \in Nat /\ main.batch \in Nat \ {0} /\ main.next \in Nat
         /\ main.files \subseteq 1..Len(main.dir) /\ Batches!Due \subseteq 1..Len(main.dir)
         /\ \A i \in 1..Len(main.dir) : Batches!Readable(i) \in BOOLEAN
                                        /\ Batches!Size(i) \in Nat \ {0}
         /\ main.pc # "list" =>
              Batches!Due = { i \in main.files : Batches!Readable(i) }
         /\ IsFiniteSet(Batches!Due) /\ IsFiniteSet(Dealt)
         /\ Batches!Rest # {} =>
              Batches!Here \in Batches!Rest /\ \A j \in Batches!Rest : Batches!Here <= j
  <1>1. main \in BatchMain /\ main.dir \in Seq(Batches!File)
    BY BatchesTypes DEF BatchesInv, BatchMain, Batches!BatchesAssumption
  <1>2. Len(main.dir) \in Nat /\ \A i \in 1..Len(main.dir) : main.dir[i] \in Batches!File
    BY <1>1, LenProperties, ElementOfSeq
  <1>3. main.batch \in Nat \ {0}
    <2>1. main.batch \in BatchSizes \cup {1}
      BY <1>1 DEF BatchMain
    <2>2. BatchSizes \subseteq Nat \ {0} /\ 1 \in Nat \ {0}
      BY DEF Batches!BatchesAssumption
    <2> QED BY <2>1, <2>2
  <1>4. main.next \in Nat /\ main.files \subseteq 1..Len(main.dir)
    BY <1>1, <1>2 DEF BatchMain
  <1>5. \A i \in 1..Len(main.dir) : Batches!Readable(i) \in BOOLEAN
                                    /\ Batches!Size(i) \in Nat \ {0}
    BY <1>2 DEF Batches!Readable, Batches!Size, Batches!File
  <1>6. Batches!Due \subseteq 1..Len(main.dir)
    BY DEF Batches!Due
  <1>7. main.pc # "list" => Batches!Due = { i \in main.files : Batches!Readable(i) }
    BY DEF BatchesInv, Listing, Batches!Due, Batches!list_jpeg_files
  <1>8. IsFiniteSet(Batches!Due) /\ IsFiniteSet(Dealt)
    <2>1. IsFiniteSet(1..Len(main.dir))
      BY <1>2, FS_Interval
    <2>2. IsFiniteSet(Batches!Due)
      BY <1>6, <2>1, FS_Subset
    <2>3. Dealt \in SUBSET Batches!Due
      BY DEF Dealt
    <2> QED BY <2>2, <2>3, FS_Subset
  <1>9. Batches!Rest # {} =>
          Batches!Here \in Batches!Rest /\ \A j \in Batches!Rest : Batches!Here <= j
    <2>1. Batches!Rest \in SUBSET Nat
      BY <1>2, <1>4 DEF Batches!Rest
    <2> QED BY <2>1, FirstOf DEF Batches!Here
  <1> QED BY <1>2, <1>3, <1>4, <1>5, <1>6, <1>7, <1>8, <1>9

\* What a step leaves that lists no files.
LEMMA BatchesFrame ==
  ASSUME MainKept
  PROVE  /\ Batches!Due' = Batches!Due
         /\ \A i : /\ Batches!Size(i)' = Batches!Size(i)
                   /\ Batches!Readable(i)' = Batches!Readable(i)
         /\ Dealt' = { i \in Batches!Due : i < main'.next }
         /\ main'.files = main.files => Batches!Rest' = { i \in main.files : i >= main'.next }
         /\ main'.files = main.files /\ main'.next = main.next =>
              Batches!Rest' = Batches!Rest /\ Batches!Here' = Batches!Here /\ Dealt' = Dealt
         /\ res'.loaded = res.loaded => \A i : Batches!Entry(i)' = Batches!Entry(i)
  <1>1. /\ \A i : /\ Batches!Size(i)' = Batches!Size(i)
                  /\ Batches!Readable(i)' = Batches!Readable(i)
    BY DEF MainKept, Batches!Size, Batches!Readable
  <1>2. Batches!Due' = Batches!Due
    BY <1>1 DEF MainKept, Batches!Due
  <1>3. Dealt' = { i \in Batches!Due : i < main'.next }
    BY <1>2 DEF Dealt
  <1>4. main'.files = main.files => Batches!Rest' = { i \in main.files : i >= main'.next }
    BY DEF Batches!Rest
  <1>5. main'.files = main.files /\ main'.next = main.next =>
              Batches!Rest' = Batches!Rest /\ Batches!Here' = Batches!Here /\ Dealt' = Dealt
    BY <1>3 DEF Batches!Rest, Batches!Here, Dealt
  <1>6. res'.loaded = res.loaded => \A i : Batches!Entry(i)' = Batches!Entry(i)
    BY DEF Batches!Entry
  <1> QED BY <1>1, <1>2, <1>3, <1>4, <1>5, <1>6

\* Decoding more never makes an overrun of images of one size.
LEMMA FitKept ==
  ASSUME BatchesInv, MainKept, res'.overrun = res.overrun, res.decoded \subseteq res'.decoded
  PROVE  Batches!ImagesFit'
  BY BatchesFrame DEF BatchesInv, Batches!ImagesFit, MainKept

\* A step that leaves the resources and where main is, and only ends the program.
LEMMA BatchesEnd ==
  ASSUME Batches!BatchesAssumption, BatchesInv, NEW status,
         status \in {"none", "success", "failure", "error"},
         main' = [main EXCEPT !.exit = status], UNCHANGED << thread, stream, res >>
  PROVE  /\ Batches!TypeOK' /\ Batches!ImagesFit'
         /\ Fresh' /\ Listing' /\ Decoding' /\ Encoding'
         /\ main'.exit = status /\ main'.pc = main.pc /\ main'.count = main.count
         /\ main'.next = main.next /\ Batches!Rest' = Batches!Rest
  <1>1. /\ main \in BatchMain /\ res \in BatchRes(main.files)
        /\ thread = << >> /\ stream = << >> /\ Cardinality(res.loaded) <= main.batch
    <2>1. Batches!TypeOK
      BY DEF BatchesInv
    <2>2. main \in BatchMain /\ res \in BatchRes(main.files)
      BY <2>1, BatchesTypes
    <2> QED BY <2>1, <2>2, SameCardinality DEF Batches!TypeOK
  <1>2. /\ main' \in BatchMain /\ main'.program = main.program /\ main'.dir = main.dir
        /\ main'.batch = main.batch /\ main'.files = main.files /\ main'.next = main.next
        /\ main'.pc = main.pc /\ main'.count = main.count /\ main'.exit = status
    BY <1>1 DEF BatchMain
  <1>3. MainKept
    BY <1>2 DEF MainKept
  <1>4. Batches!TypeOK'
    BY <1>1, <1>2, <1>3, BatchesTyped
  <1>5. Batches!ImagesFit'
    BY <1>3, FitKept
  <1>6. /\ Batches!Rest' = Batches!Rest /\ Batches!Here' = Batches!Here /\ Dealt' = Dealt
        /\ \A i : /\ Batches!Entry(i)' = Batches!Entry(i)
                  /\ Batches!Size(i)' = Batches!Size(i)
                  /\ Batches!Readable(i)' = Batches!Readable(i)
    BY <1>2, <1>3, BatchesFrame
  <1>7. Fresh' /\ Listing'
    BY <1>2 DEF BatchesInv, Fresh, Listing
  <1>8. Decoding'
    BY <1>2, <1>6 DEF BatchesInv, Decoding
  <1>9. Encoding'
    BY <1>2, <1>6 DEF BatchesInv, Encoding
  <1> QED BY <1>2, <1>4, <1>5, <1>6, <1>7, <1>8, <1>9

\* No file is listed or dealt with before the program runs.
LEMMA BatchesInit == ASSUME Batches!BatchesAssumption, Batches!Init PROVE BatchesInv
  <1>1. PICK program \in {"decoder", "encoder"}, dir \in Directories, batch \in BatchSizes :
          main = [program |-> program, dir |-> dir, files |-> {}, next |-> 1, pc |-> "list",
                  batch |-> IF program = "decoder" THEN batch ELSE 1, exit |-> "none",
                  count |-> 0]
    BY DEF Batches!Init
  <1>2. /\ thread = << >> /\ stream = << >>
        /\ res = [library |-> {}, loaded |-> {}, buffers |-> << >>, decoded |-> {},
                  encoded |-> {}, overrun |-> FALSE]
    BY DEF Batches!Init
  <1>3. Len(dir) \in Nat /\ batch \in Nat \ {0}
    BY LenProperties DEF Batches!BatchesAssumption
  <1>4. Cardinality({}) = 0 /\ << >> \in Seq(Nat)
    BY FS_EmptySet, EmptySeq
  <1>5. Batches!TypeOK
    <2>1. main \in [program : {"decoder", "encoder"}, dir : Directories,
                    batch : BatchSizes \cup {1},
                    files : SUBSET (1..Len(main.dir)), next : 1..Len(main.dir) + 1,
                    pc : {"list", "init", "load", "query", "decode", "count", "encode", "free"},
                    exit : {"none", "success", "failure", "error"}, count : Nat]
      BY <1>1, <1>3
    <2>2. Batches!Cardinality(res.loaded) <= main.batch
      BY <1>1, <1>2, <1>3, <1>4, SameCardinality
    <2>3. res \in [library : SUBSET Batches!Objects(main.program), loaded : SUBSET main.files,
                   buffers : Seq(Nat), decoded : SUBSET main.files,
                   encoded : SUBSET (main.files \X { Batches!QUALITY_LEVELS[q] : q \in 1..4 }),
                   overrun : BOOLEAN]
      BY <1>2, <1>4
    <2> QED BY <1>2, <2>1, <2>2, <2>3 DEF Batches!TypeOK
  <1>6. Dealt = {} /\ Cardinality(Dealt) = 0
    <2>1. Batches!Due \subseteq 1..Len(dir)
      BY <1>1 DEF Batches!Due
    <2>2. main.next = 1 /\ \A i \in Batches!Due : ~ (i < 1)
      BY <1>1, <1>3, <2>1
    <2>3. Dealt = {}
      BY <2>2 DEF Dealt
    <2> QED BY <1>4, <2>3
  <1>7. Batches!ImagesFit /\ Fresh /\ Listing /\ Returned
    BY <1>1, <1>2 DEF Batches!ImagesFit, Fresh, Listing, Returned
  <1>8. Decoding
    BY <1>1, <1>2, <1>6 DEF Decoding
  <1>9. Encoding
    BY <1>1, <1>2, <1>6 DEF Encoding
  <1> QED BY <1>5, <1>7, <1>8, <1>9 DEF BatchesInv

\* The types of the state, as the proofs use them.
LEMMA BatchesState ==
  ASSUME BatchesInv
  PROVE  /\ main \in BatchMain /\ res \in BatchRes(main.files)
         /\ thread = << >> /\ stream = << >> /\ Cardinality(res.loaded) <= main.batch
  <1>1. Batches!TypeOK
    BY DEF BatchesInv
  <1>2. main \in BatchMain /\ res \in BatchRes(main.files)
    BY <1>1, BatchesTypes
  <1> QED BY <1>1, <1>2, SameCardinality DEF Batches!TypeOK

\* The directory is listed.
LEMMA BatchesList ==
  ASSUME Batches!BatchesAssumption, BatchesInv, NEW program, Batches!ListFiles(program)
  PROVE  BatchesInv'
  <1>1. /\ main.exit = "none" /\ main.program = program /\ main.pc = "list"
        /\ UNCHANGED << thread, stream, res >>
    BY DEF Batches!ListFiles, Batches!At, Batches!Running
  <1> DEFINE files == Batches!list_jpeg_files(program, main.dir)
  <1>2. CASE files = {}
    <2>1. main' = [main EXCEPT !.exit = "failure"]
      BY <1>2 DEF Batches!ListFiles, Batches!Exit
    <2>2. /\ Batches!TypeOK' /\ Batches!ImagesFit'
          /\ Fresh' /\ Listing' /\ Decoding' /\ Encoding'
          /\ main'.exit = "failure" /\ main'.pc = main.pc
      BY <1>1, <2>1, BatchesEnd
    <2>3. res.library = {} /\ res.buffers = << >>
      BY <1>1 DEF BatchesInv, Fresh
    <2>4. Returned'
      BY <1>1, <2>2, <2>3 DEF Returned
    <2> QED BY <2>2, <2>4 DEF BatchesInv
  <1>3. CASE files # {}
    <2>1. main' = [main EXCEPT !.files = files, !.pc = "init"]
      BY <1>3 DEF Batches!ListFiles
    <2>2. files \in SUBSET (1..Len(main.dir))
      BY DEF Batches!list_jpeg_files
    <2> HIDE DEF files
    <2>3. /\ main \in BatchMain /\ res \in BatchRes(main.files)
          /\ thread = << >> /\ stream = << >> /\ Cardinality(res.loaded) <= main.batch
      BY BatchesState
    <2>4. /\ main' \in BatchMain /\ main'.program = main.program /\ main'.dir = main.dir
          /\ main'.batch = main.batch /\ main'.files = files /\ main'.next = main.next
          /\ main'.pc = "init" /\ main'.count = main.count /\ main'.exit = "none"
      BY <1>1, <2>1, <2>2, <2>3 DEF BatchMain
    <2>5. MainKept
      BY <2>4 DEF MainKept
    <2>6. /\ main.next = 1 /\ main.count = 0
          /\ res = [library |-> {}, loaded |-> {}, buffers |-> << >>, decoded |-> {},
                    encoded |-> {}, overrun |-> FALSE]
      BY <1>1 DEF BatchesInv, Fresh
    <2>7. res' \in BatchRes(main'.files)
      BY <1>1, <2>6, EmptySeq DEF BatchRes
    <2>8. Batches!TypeOK'
      BY <1>1, <2>3, <2>4, <2>5, <2>7, BatchesTyped
    <2>9. Batches!ImagesFit'
      BY <1>1, <2>5, FitKept
    <2>10. Dealt' = Dealt
      <3>1. Batches!Due' = Batches!Due
        BY <2>5, BatchesFrame
      <3> QED BY <2>4, <3>1 DEF Dealt
    <2>11. Fresh' /\ Listing'
      BY <1>1, <2>4, <2>6 DEF Fresh, Listing, files
    <2>12. Decoding'
      BY <1>1, <2>4, <2>6, <2>10 DEF BatchesInv, Decoding
    <2>13. Encoding'
      BY <1>1, <2>4, <2>6, <2>10 DEF BatchesInv, Encoding
    <2>14. Returned'
      BY <2>4 DEF Returned
    <2> QED BY <2>8, <2>9, <2>11, <2>12, <2>13, <2>14 DEF BatchesInv
  <1> QED BY <1>2, <1>3

\* A step to another place of the loop, that changes the counter, the files dealt
\* with and the resources.
LEMMA BatchesGoto ==
  ASSUME BatchesInv, UNCHANGED << thread, stream >>, main.pc # "list", main.exit = "none",
         NEW pc \in {"load", "query", "decode", "count", "encode", "free"},
         NEW next \in 1..Len(main.dir) + 1, NEW count \in Nat,
         main' = [main EXCEPT !.pc = pc, !.next = next, !.count = count],
         res' \in BatchRes(main.files), Cardinality(res'.loaded) <= main.batch
  PROVE  /\ main'.pc = pc /\ main'.next = next /\ main'.count = count
         /\ main'.files = main.files /\ main'.exit = "none" /\ MainKept
         /\ Batches!TypeOK' /\ Fresh' /\ Listing' /\ Returned'
  <1>1. /\ main \in BatchMain /\ thread = << >> /\ stream = << >>
    BY BatchesState
  <1>2. /\ main' \in BatchMain /\ main'.program = main.program /\ main'.dir = main.dir
        /\ main'.batch = main.batch /\ main'.files = main.files /\ main'.next = next
        /\ main'.pc = pc /\ main'.count = count /\ main'.exit = "none"
    BY <1>1 DEF BatchMain
  <1>3. MainKept
    BY <1>2 DEF MainKept
  <1>4. Batches!TypeOK'
    BY <1>1, <1>2, <1>3, BatchesTyped
  <1>5. Fresh' /\ Listing' /\ Returned'
    BY <1>2 DEF BatchesInv, Fresh, Listing, Returned
  <1> QED BY <1>2, <1>3, <1>4, <1>5

\* The library's objects are created.
LEMMA BatchesCreate ==
  ASSUME Batches!BatchesAssumption, BatchesInv, NEW program, Batches!CreateObjects(program)
  PROVE  BatchesInv'
  <1>1. /\ main.exit = "none" /\ main.program = program /\ main.pc = "init"
        /\ UNCHANGED << thread, stream >>
        /\ main' = [main EXCEPT !.pc = "load"]
        /\ res' = [res EXCEPT !.library = Batches!Objects(program)]
    BY DEF Batches!CreateObjects, Batches!At, Batches!Running, Batches!Goto
  <1>2. main \in BatchMain /\ res \in BatchRes(main.files) /\ Cardinality(res.loaded) <= main.batch
    BY BatchesState
  <1>3. main' = [main EXCEPT !.pc = "load", !.next = main.next, !.count = main.count]
    BY <1>1, <1>2 DEF BatchMain
  <1>4. /\ res' \in BatchRes(main.files) /\ res'.loaded = res.loaded
        /\ res'.buffers = res.buffers /\ res'.decoded = res.decoded
        /\ res'.encoded = res.encoded /\ res'.overrun = res.overrun
    BY <1>1, <1>2 DEF BatchRes
  <1>5. main.next \in 1..Len(main.dir) + 1 /\ main.count \in Nat
    BY <1>2 DEF BatchMain
  <1>6. /\ main'.pc = "load" /\ main'.next = main.next /\ main'.count = main.count
        /\ main'.files = main.files /\ main'.exit = "none" /\ MainKept
        /\ Batches!TypeOK' /\ Fresh' /\ Listing' /\ Returned'
    <2>1. main.pc # "list" /\ Cardinality(res'.loaded) <= main.batch
      BY <1>1, <1>2, <1>4
    <2>2. UNCHANGED << thread, stream >> /\ main.exit = "none"
      BY <1>1
    <2> QED BY <1>3, <1>4, <1>5, <2>1, <2>2, BatchesGoto
  <1>7. Batches!ImagesFit'
    BY <1>4, <1>6, FitKept
  <1>8. Dealt' = Dealt
    BY <1>6, BatchesFrame
  <1>9. /\ main.count = 0
        /\ res = [library |-> {}, loaded |-> {}, buffers |-> << >>, decoded |-> {},
                  encoded |-> {}, overrun |-> FALSE]
    BY <1>1 DEF BatchesInv, Fresh
  <1>10. Decoding'
    BY <1>1, <1>4, <1>6, <1>8, <1>9 DEF BatchesInv, Decoding, MainKept
  <1>11. Encoding'
    BY <1>1, <1>4, <1>6, <1>8, <1>9 DEF BatchesInv, Encoding, MainKept
  <1> QED BY <1>6, <1>7, <1>10, <1>11 DEF BatchesInv

\* They are destroyed when no file is left.
LEMMA BatchesCleanup ==
  ASSUME Batches!BatchesAssumption, BatchesInv, NEW program, Batches!Cleanup(program)
  PROVE  BatchesInv'
  <1>1. PICK status \in {"success", "failure"} :
          /\ main' = [main EXCEPT !.exit = status]
          /\ status = "success" => main.count > 0
    BY DEF Batches!Cleanup, Batches!Exit
  <1>2. /\ main.exit = "none" /\ main.program = program /\ main.pc = "load"
        /\ UNCHANGED << thread, stream >> /\ Batches!Rest = {}
        /\ res' = [res EXCEPT !.library = {}]
    BY DEF Batches!Cleanup, Batches!At, Batches!Running
  <1>3. /\ main \in BatchMain /\ res \in BatchRes(main.files)
        /\ Cardinality(res.loaded) <= main.batch /\ thread = << >> /\ stream = << >>
    BY BatchesState
  <1>4. /\ res' \in BatchRes(main.files) /\ res'.loaded = res.loaded
        /\ res'.buffers = res.buffers /\ res'.decoded = res.decoded
        /\ res'.encoded = res.encoded /\ res'.overrun = res.overrun /\ res'.library = {}
    BY <1>2, <1>3 DEF BatchRes
  <1>5. /\ main' \in BatchMain /\ main'.program = main.program /\ main'.dir = main.dir
        /\ main'.batch = main.batch /\ main'.files = main.files /\ main'.next = main.next
        /\ main'.pc = "load" /\ main'.count = main.count /\ main'.exit = status
    BY <1>1, <1>2, <1>3 DEF BatchMain
  <1>6. MainKept
    BY <1>5 DEF MainKept
  <1>7. Batches!TypeOK'
    BY <1>2, <1>3, <1>4, <1>5, <1>6, BatchesTyped
  <1>8. Batches!ImagesFit'
    BY <1>4, <1>6, FitKept
  <1>9. Dealt' = Dealt /\ Batches!Rest' = {} /\ \A i : Batches!Entry(i)' = Batches!Entry(i)
    BY <1>2, <1>4, <1>5, <1>6, BatchesFrame
  <1>10. Fresh' /\ Listing'
    BY <1>2, <1>5 DEF BatchesInv, Fresh, Listing
  <1>11. Decoding'
    BY <1>2, <1>4, <1>5, <1>9 DEF BatchesInv, Decoding
  <1>12. Encoding'
    BY <1>2, <1>4, <1>5, <1>9 DEF BatchesInv, Encoding
  <1>13. res.buffers = << >>
    <2>1. main.program \in {"decoder", "encoder"}
      BY <1>3 DEF BatchMain
    <2> QED BY <1>2, <2>1 DEF BatchesInv, Decoding, Encoding
  <1>14. Returned'
    BY <1>1, <1>4, <1>5, <1>9, <1>13 DEF Returned
  <1> QED BY <1>7, <1>8, <1>10, <1>11, <1>12, <1>14 DEF BatchesInv

\* A call fails.
LEMMA BatchesApiFails ==
  ASSUME Batches!BatchesAssumption, BatchesInv, main.pc # "list",
         main' = [main EXCEPT !.exit = "error"], UNCHANGED << thread, stream, res >>
  PROVE  BatchesInv'
  <1>1. /\ Batches!TypeOK' /\ Batches!ImagesFit'
        /\ Fresh' /\ Listing' /\ Decoding' /\ Encoding' /\ main'.exit = "error"
    BY BatchesEnd
  <1>2. Returned'
    BY <1>1 DEF Returned
  <1> QED BY <1>1, <1>2 DEF BatchesInv

\* A batch holds the first files that can be read of those that are left.
LEMMA BatchesLoad ==
  ASSUME Batches!BatchesAssumption, BatchesInv, Batches!LoadBatch
  PROVE  BatchesInv'
  <1> DEFINE R == { i \in Batches!Rest : Batches!Readable(i) }
  <1> DEFINE T == { i \in R : Cardinality({ j \in R : j < i }) < main.batch }
  <1> DEFINE n == IF Cardinality(T) = main.batch THEN Batches!Last(T) + 1
                                                 ELSE Len(main.dir) + 1
  <1>1. /\ main.exit = "none" /\ main.program = "decoder" /\ main.pc = "load"
        /\ UNCHANGED << thread, stream >>
    BY DEF Batches!LoadBatch, Batches!At, Batches!Running
  <1>2. res' = [res EXCEPT !.loaded = T] /\ main' = [main EXCEPT !.pc = "query", !.next = n]
    BY SameCardinality, Zenon DEF Batches!LoadBatch
  <1>3. main \in BatchMain /\ res \in BatchRes(main.files)
    BY BatchesState
  <1>4. /\ Len(main.dir) \in Nat /\ main.batch \in Nat \ {0} /\ main.next \in Nat
        /\ main.files \subseteq 1..Len(main.dir) /\ Batches!Due \subseteq 1..Len(main.dir)
        /\ Batches!Due = { i \in main.files : Batches!Readable(i) }
    BY <1>1, BatchFacts
  <1>5. R \in SUBSET (1..Len(main.dir))
    BY <1>4 DEF Batches!Rest
  <1>6. \A i : i \in R <=> i \in Batches!Due /\ i >= main.next
    BY <1>4 DEF Batches!Rest
  <1> HIDE DEF R
  <1>7. /\ T \subseteq R /\ Cardinality(T) <= main.batch
        /\ \A i \in T : /\ Cardinality({ j \in T : j < i }) + 1 \in 1..main.batch
                        /\ main.batch = 1 => i = Batches!First(T)
        /\ Cardinality(T) = main.batch =>
             /\ T # {} /\ Batches!Last(T) \in T
             /\ \A i \in R : i \in T <=> i < Batches!Last(T) + 1
        /\ Cardinality(T) # main.batch => T = R
    <2>1. FirstFew(T, R, main.batch)
      BY DEF FirstFew
    <2> HIDE DEF T
    <2>2. Len(main.dir) \in Nat /\ main.batch \in Nat \ {0}
      BY <1>4
    <2>3. FewInOrder(T, R, main.batch)
      BY <1>5, <2>1, <2>2, TakenFacts
    <2> QED BY <2>3 DEF FewInOrder
  <1> HIDE DEF T
  <1>8. n \in 1..Len(main.dir) + 1 /\ \A i \in Batches!Due : i < n <=> i < main.next \/ i \in T
    <2>1. CASE Cardinality(T) = main.batch
      <3>1. n = Batches!Last(T) + 1 /\ Batches!Last(T) \in R
        BY <1>7, <2>1
      <3>2. Batches!Last(T) \in 1..Len(main.dir) /\ Batches!Last(T) >= main.next
        BY <1>5, <1>6, <3>1
      <3> HIDE DEF n
      <3>3. n \in 1..Len(main.dir) + 1
        BY <1>4, <3>1, <3>2
      <3>4. ASSUME NEW i \in Batches!Due PROVE i < n <=> i < main.next \/ i \in T
        <4>1. i \in 1..Len(main.dir)
          BY <1>4
        <4>2. CASE i < main.next
          BY <1>4, <3>1, <3>2, <4>1, <4>2
        <4>3. CASE ~ (i < main.next)
          <5>1. i \in R
            BY <1>4, <1>6, <4>1, <4>3
          <5> QED BY <1>7, <2>1, <3>1, <4>3, <5>1
        <4> QED BY <4>2, <4>3
      <3> QED BY <3>3, <3>4
    <2>2. CASE Cardinality(T) # main.batch
      <3>1. n = Len(main.dir) + 1 /\ T = R
        BY <1>7, <2>2
      <3> HIDE DEF n
      <3> QED BY <1>4, <1>6, <3>1
    <2> QED BY <2>1, <2>2
  <1> HIDE DEF n
  <1>9. T \in SUBSET main.files
    BY <1>4, <1>6, <1>7
  <1>10. /\ res' \in BatchRes(main.files) /\ res'.loaded = T
         /\ res'.buffers = res.buffers /\ res'.decoded = res.decoded
         /\ res'.encoded = res.encoded /\ res'.overrun = res.overrun
    BY <1>2, <1>3, <1>9 DEF BatchRes
  <1>11. main' = [main EXCEPT !.pc = "query", !.next = n, !.count = main.count]
    BY <1>2, <1>3 DEF BatchMain
  <1>12. /\ main'.pc = "query" /\ main'.next = n /\ main'.count = main.count
         /\ main'.files = main.files /\ main'.exit = "none" /\ MainKept
         /\ Batches!TypeOK' /\ Fresh' /\ Listing' /\ Returned'
    <2>1. main.pc # "list" /\ main.count \in Nat /\ Cardinality(res'.loaded) <= main.batch
      BY <1>1, <1>3, <1>7, <1>10 DEF BatchMain
    <2>2. main.exit = "none" /\ UNCHANGED << thread, stream >>
      BY <1>1
    <2> QED BY <1>8, <1>10, <1>11, <2>1, <2>2, BatchesGoto
  <1>13. Batches!ImagesFit'
    BY <1>10, <1>12, FitKept
  <1>14. res'.decoded \cup res'.loaded = Dealt'
    <2>1. Dealt' = { i \in Batches!Due : i < n }
      BY <1>12, BatchesFrame
    <2>2. res.decoded = Dealt
      BY <1>1 DEF BatchesInv, Decoding
    <2>3. T \subseteq Batches!Due
      BY <1>6, <1>7
    <2> QED BY <1>8, <1>10, <2>1, <2>2, <2>3 DEF Dealt
  <1>15. \A i \in res'.loaded : /\ Batches!Entry(i)' \in 1..main.batch
                                /\ main.batch = 1 => i = Batches!First(res'.loaded)
    BY <1>7, <1>10, SameCardinality DEF Batches!Entry
  <1>16. Decoding'
    BY <1>1, <1>10, <1>12, <1>14, <1>15 DEF BatchesInv, Decoding, MainKept
  <1>17. Encoding'
    BY <1>1, <1>12 DEF Encoding, MainKept
  <1> QED BY <1>12, <1>13, <1>16, <1>17 DEF BatchesInv

\* The batch's buffers have the size of its first image.
LEMMA BatchesQuery ==
  ASSUME Batches!BatchesAssumption, BatchesInv, Batches!QueryFirst
  PROVE  BatchesInv'
  <1>1. /\ main.exit = "none" /\ main.program = "decoder" /\ main.pc = "query"
        /\ UNCHANGED << thread, stream >>
    BY DEF Batches!QueryFirst, Batches!At, Batches!Running
  <1>2. CASE res.loaded = {}
    <2>1. main' = [main EXCEPT !.exit = "error"] /\ UNCHANGED << thread, stream, res >>
      BY <1>1, <1>2 DEF Batches!QueryFirst, Batches!Exit
    <2>2. main.pc # "list"
      BY <1>1
    <2> QED BY <2>1, <2>2, BatchesApiFails
  <1>3. CASE res.loaded # {}
    <2> DEFINE size == Batches!Size(Batches!First(res.loaded))
    <2> DEFINE buffers == [b \in 1..main.batch |-> size]
    <2>1. main' = [main EXCEPT !.pc = "decode"] /\ res' = [res EXCEPT !.buffers = buffers]
      BY <1>3 DEF Batches!QueryFirst, Batches!Goto
    <2>2. main \in BatchMain /\ res \in BatchRes(main.files)
          /\ Cardinality(res.loaded) <= main.batch
      BY BatchesState
    <2>3. size \in Nat
      <3>1. main.files \in SUBSET (1..Len(main.dir)) /\ Len(main.dir) \in Nat
        BY BatchFacts
      <3>2. res.loaded \in SUBSET Nat /\ res.loaded \in SUBSET (1..Len(main.dir))
        BY <2>2, <3>1 DEF BatchRes
      <3>3. Batches!First(res.loaded) \in 1..Len(main.dir)
        BY <1>3, <3>2, FirstOf
      <3> QED BY <3>3, BatchFacts
    <2> HIDE DEF size
    <2>4. buffers \in Seq(Nat)
      <3>1. main.batch \in Nat
        BY BatchFacts
      <3> QED BY <2>3, <3>1
    <2> HIDE DEF buffers
    <2>5. /\ res' \in BatchRes(main.files) /\ res'.loaded = res.loaded
          /\ res'.buffers = buffers /\ res'.decoded = res.decoded
          /\ res'.encoded = res.encoded /\ res'.overrun = res.overrun
      BY <2>1, <2>2, <2>4 DEF BatchRes
    <2>6. main' = [main EXCEPT !.pc = "decode", !.next = main.next, !.count = main.count]
      BY <2>1, <2>2 DEF BatchMain
    <2>7. /\ main'.pc = "decode" /\ main'.next = main.next /\ main'.count = main.count
          /\ main'.files = main.files /\ main'.exit = "none" /\ MainKept
          /\ Batches!TypeOK' /\ Fresh' /\ Listing' /\ Returned'
      <3>1. /\ main.pc # "list" /\ main.count \in Nat /\ main.next \in 1..Len(main.dir) + 1
            /\ Cardinality(res'.loaded) <= main.batch
            /\ main.exit = "none" /\ UNCHANGED << thread, stream >>
        BY <1>1, <2>2, <2>5 DEF BatchMain
      <3> QED BY <2>5, <2>6, <3>1, BatchesGoto
    <2>8. Batches!ImagesFit'
      BY <2>5, <2>7, FitKept
    <2>9. /\ Dealt' = Dealt /\ \A i : Batches!Entry(i)' = Batches!Entry(i)
          /\ \A i : Batches!Size(i)' = Batches!Size(i)
      BY <2>5, <2>7, BatchesFrame
    <2>10. res'.buffers = [b \in 1..main'.batch |-> Batches!Size(Batches!First(res.loaded))']
      BY <2>5, <2>7, <2>9 DEF MainKept, buffers, size
    <2>11. Decoding'
      BY <1>1, <1>3, <2>5, <2>7, <2>9, <2>10 DEF BatchesInv, Decoding, MainKept
    <2>12. Encoding'
      BY <1>1, <2>7 DEF Encoding, MainKept
    <2> QED BY <2>7, <2>8, <2>11, <2>12 DEF BatchesInv
  <1> QED BY <1>2, <1>3

\* A batch is decoded: an image past its buffer is not the one the buffers fit.
LEMMA BatchesDecodeBatch ==
  ASSUME Batches!BatchesAssumption, BatchesInv, Batches!DecodeBatch
  PROVE  BatchesInv'
  <1> DEFINE over == res.overrun \/ \E i \in res.loaded :
                       Batches!Overruns(i, res.buffers[Batches!Entry(i)])
  <1>1. /\ main.exit = "none" /\ main.program = "decoder" /\ main.pc = "decode"
        /\ UNCHANGED << thread, stream >>
        /\ main' = [main EXCEPT !.pc = "count"]
        /\ res' = [res EXCEPT !.decoded = res.decoded \cup res.loaded, !.overrun = over]
    BY DEF Batches!DecodeBatch, Batches!At, Batches!Running, Batches!Goto
  <1>2. main \in BatchMain /\ res \in BatchRes(main.files)
        /\ Cardinality(res.loaded) <= main.batch
    BY BatchesState
  <1>3. over \in BOOLEAN
    OBVIOUS
  <1>4. over => \E i, j \in res.decoded \cup res.loaded :
                  Batches!Size(i) # Batches!Size(j) /\ main.batch > 1
    <2>1. CASE res.overrun
      BY <2>1 DEF BatchesInv, Batches!ImagesFit
    <2>2. ASSUME NEW i \in res.loaded, Batches!Overruns(i, res.buffers[Batches!Entry(i)])
          PROVE  \E j \in res.loaded : Batches!Size(i) # Batches!Size(j) /\ main.batch > 1
      <3> DEFINE f == Batches!First(res.loaded)
      <3>1. /\ res.buffers = [b \in 1..main.batch |-> Batches!Size(f)]
            /\ Batches!Entry(i) \in 1..main.batch
            /\ main.batch = 1 => i = f
        BY <1>1 DEF BatchesInv, Decoding
      <3>2. main.files \in SUBSET (1..Len(main.dir)) /\ Len(main.dir) \in Nat
            /\ main.batch \in Nat \ {0}
        BY BatchFacts
      <3>3. res.loaded \in SUBSET Nat /\ res.loaded \in SUBSET (1..Len(main.dir))
        BY <1>2, <3>2 DEF BatchRes
      <3>4. f \in res.loaded
        BY <3>3, FirstOf
      <3>5. Batches!Size(i) \in Nat /\ Batches!Size(f) \in Nat
        BY <3>3, <3>4, BatchFacts
      <3> HIDE DEF f
      <3>6. Batches!Size(i) > Batches!Size(f)
        <4>1. res.buffers[Batches!Entry(i)] = Batches!Size(f)
          BY <3>1
        <4> QED BY <2>2, <4>1 DEF Batches!Overruns
      <3>7. Batches!Size(i) # Batches!Size(f)
        BY <3>5, <3>6
      <3>8. main.batch > 1
        <4>1. main.batch # 1
          BY <3>1, <3>7
        <4> QED BY <3>2, <4>1
      <3> QED BY <3>4, <3>7, <3>8
    <2> QED BY <2>1, <2>2
  <1> HIDE DEF over
  <1>5. /\ res' \in BatchRes(main.files) /\ res'.loaded = res.loaded
        /\ res'.buffers = res.buffers /\ res'.decoded = res.decoded \cup res.loaded
        /\ res'.encoded = res.encoded /\ res'.overrun = over
    BY <1>1, <1>2, <1>3 DEF BatchRes
  <1>6. main' = [main EXCEPT !.pc = "count", !.next = main.next, !.count = main.count]
    BY <1>1, <1>2 DEF BatchMain
  <1>7. /\ main'.pc = "count" /\ main'.next = main.next /\ main'.count = main.count
        /\ main'.files = main.files /\ main'.exit = "none" /\ MainKept
        /\ Batches!TypeOK' /\ Fresh' /\ Listing' /\ Returned'
    <2>1. /\ main.pc # "list" /\ main.count \in Nat /\ main.next \in 1..Len(main.dir) + 1
          /\ Cardinality(res'.loaded) <= main.batch
          /\ main.exit = "none" /\ UNCHANGED << thread, stream >>
      BY <1>1, <1>2, <1>5 DEF BatchMain
    <2> QED BY <1>5, <1>6, <2>1, BatchesGoto
  <1>8. /\ Dealt' = Dealt /\ \A i : Batches!Entry(i)' = Batches!Entry(i)
        /\ \A i : Batches!Size(i)' = Batches!Size(i)
    BY <1>5, <1>7, BatchesFrame
  <1>9. Batches!ImagesFit'
    BY <1>4, <1>5, <1>7, <1>8 DEF Batches!ImagesFit, MainKept
  <1>10. Decoding'
    BY <1>1, <1>5, <1>7, <1>8 DEF BatchesInv, Decoding, MainKept
  <1>11. Encoding'
    BY <1>1, <1>7 DEF Encoding, MainKept
  <1> QED BY <1>7, <1>9, <1>10, <1>11 DEF BatchesInv

\* The batch is counted, and its buffers freed.
LEMMA BatchesCount ==
  ASSUME Batches!BatchesAssumption, BatchesInv, Batches!CountAndFree
  PROVE  BatchesInv'
  <1>1. /\ main.exit = "none" /\ main.program = "decoder" /\ main.pc = "count"
        /\ UNCHANGED << thread, stream >>
        /\ main' = [main EXCEPT !.pc = "load", !.count = main.count + main.batch]
        /\ res' = [res EXCEPT !.buffers = << >>, !.loaded = {}]
    BY DEF Batches!CountAndFree, Batches!At, Batches!Running
  <1>2. main \in BatchMain /\ res \in BatchRes(main.files) /\ main.batch \in Nat
    BY BatchesState, BatchFacts
  <1>3. /\ res' \in BatchRes(main.files) /\ res'.loaded = {}
        /\ res'.buffers = << >> /\ res'.decoded = res.decoded
        /\ res'.encoded = res.encoded /\ res'.overrun = res.overrun
    BY <1>1, <1>2, EmptySeq DEF BatchRes
  <1> DEFINE count == main.count + main.batch
  <1>4. count \in Nat
    BY <1>2 DEF BatchMain
  <1>5. main' = [main EXCEPT !.pc = "load", !.next = main.next, !.count = count]
    BY <1>1, <1>2 DEF BatchMain
  <1> HIDE DEF count
  <1>6. /\ main'.pc = "load" /\ main'.next = main.next /\ main'.count = count
        /\ main'.files = main.files /\ main'.exit = "none" /\ MainKept
        /\ Batches!TypeOK' /\ Fresh' /\ Listing' /\ Returned'
    <2>1. main.pc # "list" /\ main.next \in 1..Len(main.dir) + 1
      BY <1>1, <1>2 DEF BatchMain
    <2>2. Cardinality(res'.loaded) <= main.batch
      BY <1>2, <1>3, FS_EmptySet
    <2>3. UNCHANGED << thread, stream >> /\ main.exit = "none"
      BY <1>1
    <2> QED BY <1>3, <1>4, <1>5, <2>1, <2>2, <2>3, BatchesGoto
  <1>7. Batches!ImagesFit'
    BY <1>3, <1>6, FitKept
  <1>8. Dealt' = Dealt
    BY <1>6, BatchesFrame
  <1>9. res.decoded # {}
    BY <1>1 DEF BatchesInv, Decoding
  <1>10. Decoding'
    BY <1>1, <1>3, <1>6, <1>8, <1>9 DEF BatchesInv, Decoding, MainKept
  <1>11. Encoding'
    BY <1>1, <1>6 DEF Encoding, MainKept
  <1> QED BY <1>6, <1>7, <1>10, <1>11 DEF BatchesInv

\* The encoder's image is passed over if it cannot be read.
LEMMA BatchesLoadFile ==
  ASSUME Batches!BatchesAssumption, BatchesInv, Batches!LoadFile
  PROVE  BatchesInv'
  <1>1. /\ main.exit = "none" /\ main.program = "encoder" /\ main.pc = "load"
        /\ UNCHANGED << thread, stream, res >> /\ Batches!Rest # {}
    BY DEF Batches!LoadFile, Batches!At, Batches!Running
  <1> DEFINE here == Batches!Here
  <1>2. main \in BatchMain /\ res \in BatchRes(main.files)
        /\ Cardinality(res.loaded) <= main.batch
    BY BatchesState
  <1>3. /\ Len(main.dir) \in Nat /\ main.next \in Nat /\ main.files \subseteq 1..Len(main.dir)
        /\ Batches!Due = { i \in main.files : Batches!Readable(i) }
        /\ here \in Batches!Rest /\ \A j \in Batches!Rest : here <= j
    BY <1>1, BatchFacts
  <1>4. here \in main.files /\ here \in 1..Len(main.dir) /\ here >= main.next
    BY <1>3 DEF Batches!Rest
  <1> HIDE DEF here
  <1> DEFINE pc == IF Batches!Readable(here) THEN "decode" ELSE "load"
  <1> DEFINE next == IF Batches!Readable(here) THEN main.next ELSE here + 1
  <1>5. main' = [main EXCEPT !.pc = pc, !.next = next, !.count = main.count]
    BY <1>1, <1>2 DEF Batches!LoadFile, Batches!Goto, BatchMain, here
  <1>6. pc \in {"load", "decode"} /\ next \in 1..Len(main.dir) + 1
    BY <1>2, <1>3, <1>4 DEF BatchMain
  <1>7. pc = "decode" => Batches!Readable(here) /\ next = main.next
    OBVIOUS
  <1>8. ASSUME NEW i \in Batches!Due PROVE i < next <=> i < main.next
    <2>1. CASE Batches!Readable(here)
      BY <2>1
    <2>2. CASE ~ Batches!Readable(here)
      <3>1. next = here + 1 /\ i # here /\ i \in 1..Len(main.dir)
        BY <1>3, <2>2
      <3>2. i >= main.next => i \in Batches!Rest
        BY <1>3 DEF Batches!Rest
      <3>3. i >= main.next => here <= i
        BY <1>3, <3>2
      <3> HIDE DEF next
      <3> QED BY <1>3, <1>4, <3>1, <3>3
    <2> QED BY <2>1, <2>2
  <1> HIDE DEF pc, next
  <1>9. /\ main'.pc = pc /\ main'.next = next /\ main'.count = main.count
        /\ main'.files = main.files /\ main'.exit = "none" /\ MainKept
        /\ Batches!TypeOK' /\ Fresh' /\ Listing' /\ Returned'
    <2>1. /\ main.pc # "list" /\ main.count \in Nat /\ main.exit = "none"
          /\ pc \in {"load", "query", "decode", "count", "encode", "free"}
      BY <1>1, <1>2, <1>6 DEF BatchMain
    <2>2. /\ res' \in BatchRes(main.files) /\ Cardinality(res'.loaded) <= main.batch
          /\ UNCHANGED << thread, stream >>
      BY <1>1, <1>2
    <2>3. next \in 1..Len(main.dir) + 1
      BY <1>6
    <2> QED BY <1>5, <2>1, <2>2, <2>3, BatchesGoto
  <1>10. Batches!ImagesFit'
    BY <1>1, <1>9, FitKept
  <1>11. Dealt' = Dealt
    <2>1. Dealt' = { i \in Batches!Due : i < next }
      BY <1>9, BatchesFrame
    <2> QED BY <1>8, <2>1 DEF Dealt
  <1>12. pc = "decode" => Batches!Rest' # {} /\ Batches!Readable(Batches!Here)'
    <2> SUFFICES ASSUME pc = "decode"
                 PROVE  Batches!Rest' # {} /\ Batches!Readable(Batches!Here)'
      OBVIOUS
    <2>1. main'.files = main.files /\ main'.next = main.next
      BY <1>7, <1>9
    <2>2. Batches!Rest' = Batches!Rest /\ Batches!Here' = here
      BY <1>9, <2>1, BatchesFrame DEF here
    <2>3. Batches!Readable(Batches!Here)' <=> Batches!Readable(here)
      BY <1>9, <2>2 DEF Batches!Readable, MainKept
    <2> QED BY <1>1, <1>7, <2>2, <2>3
  <1>13. Decoding'
    BY <1>1, <1>9 DEF Decoding, MainKept
  <1>14. Encoding'
    BY <1>1, <1>6, <1>9, <1>11, <1>12 DEF BatchesInv, Encoding, MainKept
  <1> QED BY <1>9, <1>10, <1>13, <1>14 DEF BatchesInv

\* The encoder decodes its image.
LEMMA BatchesDecode ==
  ASSUME Batches!BatchesAssumption, BatchesInv, Batches!Decode
  PROVE  BatchesInv'
  <1> DEFINE here == Batches!Here
  <1> DEFINE size == Batches!Size(here)
  <1>1. /\ main.exit = "none" /\ main.program = "encoder" /\ main.pc = "decode"
        /\ UNCHANGED << thread, stream >>
        /\ main' = [main EXCEPT !.pc = "encode"]
        /\ res' = [res EXCEPT !.buffers = << size >>, !.decoded = res.decoded \cup {here}]
    BY DEF Batches!Decode, Batches!At, Batches!Running, Batches!Goto
  <1>2. main \in BatchMain /\ res \in BatchRes(main.files)
        /\ Cardinality(res.loaded) <= main.batch
    BY BatchesState
  <1>3. Batches!Rest # {} /\ Batches!Readable(here)
    BY <1>1 DEF BatchesInv, Encoding
  <1>4. here \in main.files /\ size \in Nat
    <2>1. here \in Batches!Rest
      BY <1>3, BatchFacts
    <2>2. here \in main.files /\ main.files \subseteq 1..Len(main.dir)
      BY <2>1, BatchFacts DEF Batches!Rest
    <2> QED BY <2>2, BatchFacts
  <1> HIDE DEF here, size
  <1>5. << size >> \in Seq(Nat)
    BY <1>4
  <1>6. /\ res' \in BatchRes(main.files) /\ res'.loaded = res.loaded
        /\ res'.decoded = res.decoded \cup {here}
        /\ res'.encoded = res.encoded /\ res'.overrun = res.overrun
    BY <1>1, <1>2, <1>4, <1>5 DEF BatchRes
  <1>7. main' = [main EXCEPT !.pc = "encode", !.next = main.next, !.count = main.count]
    BY <1>1, <1>2 DEF BatchMain
  <1>8. /\ main'.pc = "encode" /\ main'.next = main.next /\ main'.count = main.count
        /\ main'.files = main.files /\ main'.exit = "none" /\ MainKept
        /\ Batches!TypeOK' /\ Fresh' /\ Listing' /\ Returned'
    <2>1. /\ main.pc # "list" /\ main.count \in Nat /\ main.next \in 1..Len(main.dir) + 1
          /\ Cardinality(res'.loaded) <= main.batch /\ main.exit = "none"
          /\ UNCHANGED << thread, stream >>
      BY <1>1, <1>2, <1>6 DEF BatchMain
    <2> QED BY <1>6, <1>7, <2>1, BatchesGoto
  <1>9. Batches!ImagesFit'
    BY <1>6, <1>8, FitKept
  <1>10. Dealt' = Dealt /\ Batches!Rest' = Batches!Rest /\ Batches!Here' = here
    BY <1>8, BatchesFrame DEF here
  <1>11. Batches!Readable(Batches!Here)'
    BY <1>3, <1>8, <1>10 DEF Batches!Readable, MainKept
  <1>12. Decoding'
    BY <1>1, <1>8 DEF Decoding, MainKept
  <1>13. Encoding'
    BY <1>1, <1>3, <1>6, <1>8, <1>10, <1>11 DEF BatchesInv, Encoding, MainKept
  <1> QED BY <1>8, <1>9, <1>12, <1>13 DEF BatchesInv

\* It encodes the image at every quality.
LEMMA BatchesEncode ==
  ASSUME Batches!BatchesAssumption, BatchesInv, Batches!EncodeAll
  PROVE  BatchesInv'
  <1> DEFINE here == Batches!Here
  <1> DEFINE made == { << here, Batches!QUALITY_LEVELS[q] >> : q \in 1..Len(Batches!QUALITY_LEVELS) }
  <1>1. /\ main.exit = "none" /\ main.program = "encoder" /\ main.pc = "encode"
        /\ UNCHANGED << thread, stream >>
        /\ main' = [main EXCEPT !.pc = "free"]
        /\ res' = [res EXCEPT !.encoded = res.encoded \cup made]
    BY DEF Batches!EncodeAll, Batches!At, Batches!Running, Batches!Goto
  <1>2. main \in BatchMain /\ res \in BatchRes(main.files)
        /\ Cardinality(res.loaded) <= main.batch
    BY BatchesState
  <1>3. Batches!Rest # {} /\ Batches!Readable(here)
    BY <1>1 DEF BatchesInv, Encoding
  <1>4. here \in main.files
    <2>1. here \in Batches!Rest
      BY <1>3, BatchFacts
    <2> QED BY <2>1 DEF Batches!Rest
  <1> HIDE DEF here
  <1>5. made = {here} \X Qualities
    <2> DEFINE Q == 1..Len(Batches!QUALITY_LEVELS)
    <2>1. made = { << here, Batches!QUALITY_LEVELS[q] >> : q \in Q }
      OBVIOUS
    <2>2. Qualities = { Batches!QUALITY_LEVELS[q] : q \in Q }
      BY DEF Qualities
    <2> HIDE DEF Q, made
    <2> QED BY <2>1, <2>2
  <1> HIDE DEF made
  <1>6. /\ res' \in BatchRes(main.files) /\ res'.loaded = res.loaded
        /\ res'.decoded = res.decoded /\ res'.buffers = res.buffers
        /\ res'.encoded = res.encoded \cup made /\ res'.overrun = res.overrun
    <2>1. made \subseteq main.files \X Qualities
      BY <1>4, <1>5
    <2> QED BY <1>1, <1>2, <2>1 DEF BatchRes
  <1>7. main' = [main EXCEPT !.pc = "free", !.next = main.next, !.count = main.count]
    BY <1>1, <1>2 DEF BatchMain
  <1>8. /\ main'.pc = "free" /\ main'.next = main.next /\ main'.count = main.count
        /\ main'.files = main.files /\ main'.exit = "none" /\ MainKept
        /\ Batches!TypeOK' /\ Fresh' /\ Listing' /\ Returned'
    <2>1. /\ main.pc # "list" /\ main.count \in Nat /\ main.next \in 1..Len(main.dir) + 1
          /\ Cardinality(res'.loaded) <= main.batch /\ main.exit = "none"
          /\ UNCHANGED << thread, stream >>
      BY <1>1, <1>2, <1>6 DEF BatchMain
    <2> QED BY <1>6, <1>7, <2>1, BatchesGoto
  <1>9. Batches!ImagesFit'
    BY <1>6, <1>8, FitKept
  <1>10. Dealt' = Dealt /\ Batches!Rest' = Batches!Rest /\ Batches!Here' = here
    BY <1>8, BatchesFrame DEF here
  <1>11. Batches!Readable(Batches!Here)'
    BY <1>3, <1>8, <1>10 DEF Batches!Readable, MainKept
  <1>12. res'.encoded = (Dealt \cup {here}) \X Qualities
    <2>1. res.encoded = Dealt \X Qualities
      BY <1>1 DEF BatchesInv, Encoding
    <2> QED BY <1>5, <1>6, <2>1
  <1>13. Decoding'
    BY <1>1, <1>8 DEF Decoding, MainKept
  <1>14. Encoding'
    <2>1. res.decoded = Dealt \cup {here}
      BY <1>1 DEF BatchesInv, Encoding, here
    <2>2. main'.batch = 1 /\ res'.loaded = {} /\ ~ res'.overrun /\ main'.count = Cardinality(Dealt)
      BY <1>1, <1>6, <1>8 DEF BatchesInv, Encoding, MainKept
    <2>3. Qualities' = Qualities
      BY DEF Qualities, Batches!QUALITY_LEVELS
    <2> QED BY <1>3, <1>6, <1>8, <1>10, <1>11, <1>12, <2>1, <2>2, <2>3 DEF Encoding
  <1> QED BY <1>8, <1>9, <1>13, <1>14 DEF BatchesInv

\* The image is dealt with, and counted once.
LEMMA BatchesFreeImage ==
  ASSUME Batches!BatchesAssumption, BatchesInv, Batches!FreeImage
  PROVE  BatchesInv'
  <1> DEFINE here == Batches!Here
  <1>1. /\ main.exit = "none" /\ main.program = "encoder" /\ main.pc = "free"
        /\ UNCHANGED << thread, stream >>
        /\ main' = [main EXCEPT !.pc = "load", !.next = here + 1, !.count = main.count + 1]
        /\ res' = [res EXCEPT !.buffers = << >>]
    BY DEF Batches!FreeImage, Batches!At, Batches!Running
  <1>2. main \in BatchMain /\ res \in BatchRes(main.files)
        /\ Cardinality(res.loaded) <= main.batch
    BY BatchesState
  <1>3. Batches!Rest # {} /\ Batches!Readable(here)
    BY <1>1 DEF BatchesInv, Encoding
  <1>4. /\ Len(main.dir) \in Nat /\ main.next \in Nat /\ main.files \subseteq 1..Len(main.dir)
        /\ Batches!Due = { i \in main.files : Batches!Readable(i) } /\ IsFiniteSet(Dealt)
        /\ here \in Batches!Rest /\ \A j \in Batches!Rest : here <= j
    BY <1>1, <1>3, BatchFacts
  <1>5. here \in main.files /\ here \in 1..Len(main.dir) /\ here >= main.next
    BY <1>4 DEF Batches!Rest
  <1> HIDE DEF here
  <1>6. /\ res' \in BatchRes(main.files) /\ res'.loaded = res.loaded
        /\ res'.decoded = res.decoded /\ res'.buffers = << >>
        /\ res'.encoded = res.encoded /\ res'.overrun = res.overrun
    BY <1>1, <1>2, EmptySeq DEF BatchRes
  <1> DEFINE next == here + 1
  <1> DEFINE count == main.count + 1
  <1>7. /\ next \in 1..Len(main.dir) + 1 /\ count \in Nat /\ main.count \in Nat
        /\ main' = [main EXCEPT !.pc = "load", !.next = next, !.count = count]
    BY <1>1, <1>2, <1>4, <1>5 DEF BatchMain
  <1>8. ASSUME NEW i \in Batches!Due PROVE i < next <=> i < main.next \/ i = here
    <2>1. i \in 1..Len(main.dir)
      BY <1>4
    <2>2. i >= main.next => here <= i
      BY <1>4 DEF Batches!Rest
    <2> QED BY <1>4, <1>5, <2>1, <2>2
  <1>9. here \in Batches!Due /\ here \notin Dealt
    BY <1>3, <1>4, <1>5 DEF Dealt
  <1> HIDE DEF next
  <1>10. count = Cardinality(Dealt \cup {here})
    <2>1. main.count = Cardinality(Dealt)
      BY <1>1 DEF BatchesInv, Encoding
    <2>2. Cardinality(Dealt \cup {here}) = Cardinality(Dealt) + 1
      BY <1>4, <1>9, FS_AddElement
    <2> QED BY <2>1, <2>2
  <1> HIDE DEF count
  <1>11. /\ main'.pc = "load" /\ main'.next = next /\ main'.count = count
         /\ main'.files = main.files /\ main'.exit = "none" /\ MainKept
         /\ Batches!TypeOK' /\ Fresh' /\ Listing' /\ Returned'
    <2>1. /\ main.pc # "list" /\ Cardinality(res'.loaded) <= main.batch
          /\ main.exit = "none" /\ UNCHANGED << thread, stream >>
      BY <1>1, <1>2, <1>6
    <2> QED BY <1>6, <1>7, <2>1, BatchesGoto
  <1>12. Batches!ImagesFit'
    BY <1>6, <1>11, FitKept
  <1>13. Dealt' = Dealt \cup {here}
    <2>1. Dealt' = { i \in Batches!Due : i < next }
      BY <1>11, BatchesFrame
    <2> QED BY <1>8, <1>9, <2>1 DEF Dealt
  <1>14. Decoding'
    BY <1>1, <1>11 DEF Decoding, MainKept
  <1>15. Encoding'
    <2>1. /\ res.decoded = Dealt \cup {here}
          /\ res.encoded = (Dealt \cup {here}) \X Qualities
      BY <1>1 DEF BatchesInv, Encoding, here
    <2>2. main'.batch = 1 /\ res'.loaded = {} /\ ~ res'.overrun
      BY <1>1, <1>6, <1>11 DEF BatchesInv, Encoding, MainKept
    <2>3. Qualities' = Qualities
      BY DEF Qualities, Batches!QUALITY_LEVELS
    <2> QED BY <1>6, <1>10, <1>11, <1>13, <2>1, <2>2, <2>3 DEF Encoding
  <1> QED BY <1>11, <1>12, <1>14, <1>15 DEF BatchesInv

\* Every step keeps the invariant.
LEMMA BatchesStep ==
  ASSUME Batches!BatchesAssumption, BatchesInv, [Batches!Next]_Batches!machine
  PROVE  BatchesInv'
  <1>1. ASSUME NEW program, Batches!ListFiles(program) PROVE BatchesInv'
    BY <1>1, BatchesList
  <1>2. ASSUME NEW program, Batches!CreateObjects(program) PROVE BatchesInv'
    BY <1>2, BatchesCreate
  <1>3. ASSUME NEW program, Batches!Cleanup(program) PROVE BatchesInv'
    BY <1>3, BatchesCleanup
  <1>4. CASE Batches!LoadBatch
    BY <1>4, BatchesLoad
  <1>5. CASE Batches!QueryFirst
    BY <1>5, BatchesQuery
  <1>6. CASE Batches!DecodeBatch
    BY <1>6, BatchesDecodeBatch
  <1>7. CASE Batches!CountAndFree
    BY <1>7, BatchesCount
  <1>8. CASE Batches!LoadFile
    BY <1>8, BatchesLoadFile
  <1>9. CASE Batches!Decode
    BY <1>9, BatchesDecode
  <1>10. CASE Batches!EncodeAll
    BY <1>10, BatchesEncode
  <1>11. CASE Batches!FreeImage
    BY <1>11, BatchesFreeImage
  <1>12. CASE Batches!ApiFails
    <2>1. /\ main.pc # "list" /\ main' = [main EXCEPT !.exit = "error"]
          /\ UNCHANGED << thread, stream, res >>
      BY <1>12 DEF Batches!ApiFails, Batches!Exit
    <2> QED BY <2>1, BatchesApiFails
  <1>13. CASE UNCHANGED Batches!machine
    <2>1. main' = main /\ thread' = thread /\ stream' = stream /\ res' = res
      BY <1>13 DEF Batches!machine
    <2>2. BatchesInv' <=> BatchesInv
      <3>1. MainKept
        BY <2>1 DEF MainKept
      <3>2. /\ Batches!Rest' = Batches!Rest /\ Batches!Here' = Batches!Here /\ Dealt' = Dealt
            /\ \A i : /\ Batches!Entry(i)' = Batches!Entry(i)
                      /\ Batches!Size(i)' = Batches!Size(i)
                      /\ Batches!Readable(i)' = Batches!Readable(i)
        BY <2>1, <3>1, BatchesFrame
      <3>3. Batches!TypeOK' <=> Batches!TypeOK
        BY <2>1 DEF Batches!TypeOK
      <3>4. Batches!ImagesFit' <=> Batches!ImagesFit
        BY <2>1, <3>2 DEF Batches!ImagesFit
      <3>5. (Fresh' <=> Fresh) /\ (Listing' <=> Listing)
        BY <2>1 DEF Fresh, Listing
      <3>6. Decoding' <=> Decoding
        BY <2>1, <3>2 DEF Decoding
      <3>7. Encoding' <=> Encoding
        BY <2>1, <3>2 DEF Encoding
      <3>8. Returned' <=> Returned
        BY <2>1, <3>2 DEF Returned
      <3> QED BY <3>3, <3>4, <3>5, <3>6, <3>7, <3>8 DEF BatchesInv
    <2> QED BY <2>2
  <1> QED BY <1>1, <1>2, <1>3, <1>4, <1>5, <1>6, <1>7, <1>8, <1>9, <1>10, <1>11, <1>12, <1>13
          DEF Batches!Next, Batches!Progress

\* What the invariant says of a sample that has ended.
LEMMA BatchesConclusions ==
  ASSUME Batches!BatchesAssumption, BatchesInv
  PROVE  Batches!TypeOK /\ Batches!ImagesFit /\ Batches!EveryImageDone /\ Batches!NothingLeaks
  <1>1. Batches!TypeOK /\ Batches!ImagesFit
    BY DEF BatchesInv
  <1>2. Batches!NothingLeaks
    BY DEF BatchesInv, Returned, Batches!NothingLeaks
  <1>3. ASSUME main.exit = "success"
        PROVE  /\ Batches!Due # {} /\ res.decoded = Batches!Due
               /\ main.program = "encoder" =>
                    /\ main.count = Batches!Cardinality(Batches!Due)
                    /\ res.encoded = Batches!Due \X Qualities
    <2>1. main.pc = "load" /\ Batches!Rest = {} /\ main.count > 0
      BY <1>3 DEF BatchesInv, Returned
    <2>2. /\ main.files \subseteq 1..Len(main.dir) /\ main.next \in Nat
          /\ Len(main.dir) \in Nat /\ Batches!Due = { i \in main.files : Batches!Readable(i) }
      BY <2>1, BatchFacts
    <2>3. Dealt = Batches!Due
      BY <2>1, <2>2 DEF Dealt, Batches!Rest
    <2>4. main.program \in {"encoder", "decoder"}
      BY BatchesState DEF BatchMain
    <2>5. CASE main.program = "decoder"
      BY <2>1, <2>3, <2>5 DEF BatchesInv, Decoding
    <2>6. CASE main.program = "encoder"
      <3>1. /\ main.count = Cardinality(Batches!Due) /\ res.decoded = Batches!Due
            /\ res.encoded = Batches!Due \X Qualities
        BY <2>1, <2>3, <2>6 DEF BatchesInv, Encoding
      <3>2. Batches!Due # {}
        BY <2>1, <3>1, FS_EmptySet
      <3> QED BY <3>1, <3>2, SameCardinality
    <2> QED BY <2>4, <2>5, <2>6
  <1>4. Batches!EveryImageDone
    BY <1>3 DEF Batches!EveryImageDone, Qualities
  <1> QED BY <1>1, <1>2, <1>4
-------------------------------------------------------------------------------
(* DeviceChoice                                                            *)

DeviceNumbers == 0..Choice!Count - 1

\* The device that a search must find: it depends on the line and the system only.
\* Without a request it is the first of the best if one has a figure of merit.
Chosen(d) ==
  /\ d \in DeviceNumbers
  /\ main.client \in Choice!Primary => d = 0
  /\ main.client \notin Choice!Primary /\ Choice!hasArg(main.args, "device") =>
       Choice!Allowed(d) /\ d = IF Choice!Requested < 0 THEN 0 ELSE Choice!Requested
  /\ main.client \notin Choice!Primary /\ ~ Choice!hasArg(main.args, "device") =>
       \/ d = 0 /\ \A e \in DeviceNumbers : Choice!Allowed(e) => Choice!Perf(e) = 0
       \/ /\ Choice!Allowed(d) /\ Choice!Perf(d) > 0
          /\ \A e \in DeviceNumbers : Choice!Allowed(e) => Choice!Perf(e) <= Choice!Perf(d)
          /\ \A e \in 0..d - 1 : Choice!Allowed(e) => Choice!Perf(e) < Choice!Perf(d)

\* The loop: `best` is what the search would find among the devices before `at`.
BestSoFar ==
  /\ thread.prohibited \in 0..thread.at
  /\ \/ /\ thread.best = 0 /\ thread.perf = 0
        /\ \A e \in 0..thread.at - 1 : Choice!Allowed(e) => Choice!Perf(e) = 0
     \/ /\ thread.best \in 0..thread.at - 1
        /\ Choice!Allowed(thread.best) /\ thread.perf = Choice!Perf(thread.best) /\ thread.perf > 0
        /\ \A e \in 0..thread.at - 1 : Choice!Allowed(e) => Choice!Perf(e) <= thread.perf
        /\ \A e \in 0..thread.best - 1 : Choice!Allowed(e) => Choice!Perf(e) < thread.perf

Searching ==
  /\ main.pc \in {"init", "scan"} => main.client \notin Choice!Primary
  /\ main.pc = "init" => Choice!hasArg(main.args, "device")
  /\ main.pc = "scan" => ~ Choice!hasArg(main.args, "device") /\ BestSoFar

\* An architecture is that of the device every search finds.
CompiledFor ==
  /\ main.pc \in {"compile", "load", "use"} => Chosen(stream.device)
  /\ stream.arch # None =>
       \E d \in DeviceNumbers : Chosen(d) /\ stream.arch = Choice!ArchName(Choice!Dev(d).capability)
  /\ stream.loaded # None => stream.arch # None /\ Chosen(stream.loaded)
  /\ main.pc = "load" => stream.arch # None

ChoiceInv == Choice!TypeOK /\ Searching /\ CompiledFor
-------------------------------------------------------------------------------
(* The command line.                                                       *)

LEMMA FirstIsMember ==
  ASSUME NEW S \in SUBSET Nat, S # {}
  PROVE  Choice!First(S) \in S
  <1>1. PICK i \in S : \A j \in S : ~ (<< j, i >> \in OpToRel(<, Nat))
    BY NatLessThanWellFounded, WFMin
  <1>2. \A j \in S : ~ (j < i)
    BY <1>1, Zenon DEF OpToRel
  <1>3. \A j \in S : i <= j
    BY <1>2
  <1> QED BY <1>3 DEF Choice!First

LEMMA RequestTyped ==
  ASSUME Choice!ChoiceAssumption, main.args \in Lines
  PROVE  Choice!Requested \in Int
  <1> DEFINE args == main.args
             M == Choice!Matched(args, "device", TRUE)
  <1>1. args \in Seq(Choice!Argument)
    BY DEF Choice!ChoiceAssumption
  <1>2. Len(args) \in Nat /\ \A i \in 1..Len(args) : args[i] \in Choice!Argument
    BY <1>1, LenProperties, ElementOfSeq
  <1>3. M \subseteq 1..Len(args) /\ M \in SUBSET Nat
    BY <1>2 DEF Choice!Matched
  <1>4. Choice!Requested = IF M = {} \/ args[Choice!First(M)].value = None THEN 0
                           ELSE args[Choice!First(M)].value
    BY DEF Choice!Requested, Choice!getArgInt
  <1> HIDE DEF M, args
  <1>5. CASE M # {}
    <2>1. Choice!First(M) \in 1..Len(args)
      BY <1>3, <1>5, FirstIsMember
    <2>2. args[Choice!First(M)].value \in Int \cup {None}
      BY <1>2, <2>1 DEF Choice!Argument
    <2> QED BY <1>4, <2>2
  <1> QED BY <1>4, <1>5

-------------------------------------------------------------------------------
(* The devices.                                                            *)

LEMMA DevicesTyped ==
  ASSUME Choice!ChoiceAssumption, res \in Systems
  PROVE  /\ Choice!Count \in Nat
         /\ \A d \in DeviceNumbers : Choice!Dev(d) \in Choice!Device /\ Choice!Perf(d) \in Nat
  <1>1. res \in Seq(Choice!Device)
    BY DEF Choice!ChoiceAssumption
  <1>2. Choice!Count \in Nat
    BY <1>1, LenProperties DEF Choice!Count
  <1>3. ASSUME NEW d \in DeviceNumbers
        PROVE  Choice!Dev(d) \in Choice!Device /\ Choice!Perf(d) \in Nat
    <2>1. d + 1 \in 1..Len(res)
      BY <1>2, <1>3 DEF DeviceNumbers, Choice!Count
    <2>2. Choice!Dev(d) \in Choice!Device
      BY <1>1, <2>1, ElementOfSeq DEF Choice!Dev
    <2>3. Choice!Dev(d).units \in Nat /\ Choice!Clock(d) \in Nat
      BY <2>2 DEF Choice!Device, Choice!Clock
    <2>4. Choice!Cores(Choice!Dev(d).capability) \in Nat
      BY DEF Choice!Cores
    <2>5. \A x, y, z \in Nat : x * y * z \in Nat
      OBVIOUS
    <2> QED BY <2>2, <2>3, <2>4, <2>5 DEF Choice!Perf
  <1> QED BY <1>2, <1>3

\* A line and a system leave one choice.
LEMMA ChoiceUnique ==
  ASSUME Choice!ChoiceAssumption, res \in Systems, NEW d, NEW e, Chosen(d), Chosen(e)
  PROVE  d = e
  <1>1. d \in DeviceNumbers /\ e \in DeviceNumbers /\ Choice!Count \in Nat
    BY DevicesTyped DEF Chosen
  <1>2. Choice!Perf(d) \in Nat /\ Choice!Perf(e) \in Nat /\ d \in Nat /\ e \in Nat
    BY <1>1, DevicesTyped DEF DeviceNumbers
  <1>3. CASE main.client \in Choice!Primary \/ Choice!hasArg(main.args, "device")
    BY <1>3 DEF Chosen
  <1>4. CASE main.client \notin Choice!Primary /\ ~ Choice!hasArg(main.args, "device")
    <2> DEFINE Best(x) == /\ Choice!Allowed(x) /\ Choice!Perf(x) > 0
                          /\ \A y \in DeviceNumbers :
                               Choice!Allowed(y) => Choice!Perf(y) <= Choice!Perf(x)
                          /\ \A y \in 0..x - 1 : Choice!Allowed(y) => Choice!Perf(y) < Choice!Perf(x)
               Worthless == \A y \in DeviceNumbers : Choice!Allowed(y) => Choice!Perf(y) = 0
    <2>1. (d = 0 /\ Worthless) \/ Best(d)
      BY <1>4 DEF Chosen
    <2>2. (e = 0 /\ Worthless) \/ Best(e)
      BY <1>4 DEF Chosen
    <2>3. ~ (Worthless /\ (Best(d) \/ Best(e)))
      BY <1>1, <1>2
    <2>4. ASSUME Best(d), Best(e) PROVE d = e
      <3>1. Choice!Perf(d) = Choice!Perf(e)
        BY <1>1, <1>2, <2>4
      <3>2. ~ (d < e) /\ ~ (e < d)
        BY <1>2, <2>4, <3>1
      <3> QED BY <1>2, <3>2
    <2> HIDE DEF Best, Worthless
    <2> QED BY <2>1, <2>2, <2>3, <2>4
  <1> QED BY <1>3, <1>4
-------------------------------------------------------------------------------
(* The steps.                                                              *)

LEMMA ChoiceInit == ASSUME Choice!ChoiceAssumption, Choice!Init PROVE ChoiceInv
  <1>1. PICK client \in Choice!Clients, args \in Lines :
          main = [client |-> client, args |-> args, options |-> << >>, pc |-> "parse",
                  exit |-> "none"]
    BY DEF Choice!Init
  <1>2. res \in Systems /\ Choice!Count \in Nat
    BY DevicesTyped DEF Choice!Init
  <1>3. /\ thread = [at |-> 0, best |-> 0, perf |-> 0, prohibited |-> 0]
        /\ stream = [device |-> None, arch |-> None, loaded |-> None]
    BY DEF Choice!Init
  <1> QED BY <1>1, <1>2, <1>3
             DEF ChoiceInv, Choice!TypeOK, Searching, CompiledFor, Choice!Places,
                 Choice!Statuses

\* The line and the system stay; so does what follows from them.
LEMMA ChoiceFrame ==
  ASSUME res' = res, main'.client = main.client, main'.args = main.args
  PROVE  /\ Choice!Count' = Choice!Count /\ DeviceNumbers' = DeviceNumbers
         /\ \A d : /\ Chosen(d)' <=> Chosen(d)
                  /\ Choice!Dev(d)' = Choice!Dev(d)
                  /\ (Choice!Allowed(d)' <=> Choice!Allowed(d)) /\ Choice!Perf(d)' = Choice!Perf(d)
  BY
     DEF Choice!Count, DeviceNumbers, Chosen, Choice!Dev, Choice!Allowed, Choice!Perf,
         Choice!Clock, Choice!Requested

LEMMA ChoiceFields ==
  ASSUME NEW options, NEW pc, NEW exit, Choice!State(options, pc, exit)
  PROVE  /\ main'.client = main.client /\ main'.args = main.args
         /\ main'.pc = pc /\ main'.exit = exit
  BY DEF Choice!State

\* The process ends where it is.
LEMMA ExitInvariant ==
  ASSUME Choice!ChoiceAssumption, ChoiceInv, NEW status \in Choice!Statuses, NEW options,
         Choice!State(options, main.pc, status), UNCHANGED << res, thread, stream >>
  PROVE  ChoiceInv'
  <1>1. /\ main'.client = main.client /\ main'.args = main.args
        /\ main'.pc = main.pc /\ main'.exit = status
    BY ChoiceFields
  <1>2. Choice!TypeOK'
    BY <1>1, ChoiceFrame DEF ChoiceInv, Choice!TypeOK
  <1>3. Searching'
    BY <1>1, ChoiceFrame DEF ChoiceInv, Searching, BestSoFar
  <1>4. CompiledFor'
    BY <1>1, ChoiceFrame DEF ChoiceInv, CompiledFor
  <1> QED BY <1>2, <1>3, <1>4 DEF ChoiceInv

\* A search ends with the device it must find.
LEMMA PickInvariant ==
  ASSUME Choice!ChoiceAssumption, ChoiceInv, NEW d, Chosen(d), Choice!Pick(d),
         UNCHANGED << res, thread >>
  PROVE  ChoiceInv'
  <1> DEFINE next == IF main.client \notin {"runtime_compile"} \cup Choice!Primary THEN "use"
                     ELSE IF stream.arch = None THEN "compile" ELSE "load"
  <1>1. /\ main'.client = main.client /\ main'.args = main.args
        /\ main'.pc = next /\ main'.exit = "none"
        /\ stream' = [device |-> d, arch |-> stream.arch, loaded |-> stream.loaded]
    BY ChoiceFields DEF Choice!Pick, Choice!Goto
  <1>2. next \in {"use", "compile", "load"} /\ (next = "load" => stream.arch # None)
    OBVIOUS
  <1> HIDE DEF next
  <1>3. d \in Nat
    BY DevicesTyped DEF Chosen, DeviceNumbers, ChoiceInv, Choice!TypeOK
  <1>4. Choice!TypeOK'
    BY <1>1, <1>2, <1>3, ChoiceFrame
       DEF ChoiceInv, Choice!TypeOK, Choice!Places, Choice!Statuses
  <1>5. Searching'
    BY <1>1, <1>2 DEF Searching
  <1>6. CompiledFor'
    BY <1>1, <1>2, ChoiceFrame DEF ChoiceInv, CompiledFor
  <1> QED BY <1>4, <1>5, <1>6 DEF ChoiceInv

LEMMA ParseInvariant ==
  ASSUME Choice!ChoiceAssumption, ChoiceInv, Choice!ParseOptions
  PROVE  ChoiceInv'
  <1>1. main.pc = "parse" /\ UNCHANGED << res, thread, stream >>
    BY DEF Choice!ParseOptions, Choice!At
  <1>2. \/ Choice!State(<< >>, "parse", "usage") \/ Choice!State(Choice!Given, "parse", "failure")
        \/ Choice!State(Choice!Given, "find", "none")
    BY DEF Choice!ParseOptions
  <1>3. /\ main'.client = main.client /\ main'.args = main.args
        /\ main'.pc \in {"parse", "find"} /\ main'.exit \in Choice!Statuses
    BY <1>2, ChoiceFields DEF Choice!Statuses
  <1>4. Choice!TypeOK'
    BY <1>1, <1>3, ChoiceFrame DEF ChoiceInv, Choice!TypeOK, Choice!Places
  <1>5. Searching' /\ CompiledFor'
    BY <1>1, <1>3, ChoiceFrame DEF ChoiceInv, Searching, CompiledFor
  <1> QED BY <1>4, <1>5 DEF ChoiceInv

LEMMA FindInvariant ==
  ASSUME Choice!ChoiceAssumption, ChoiceInv, Choice!FindDevice
  PROVE  ChoiceInv'
  <1>1. /\ main.client \notin Choice!Primary /\ UNCHANGED << res, stream >>
        /\ thread' = [at |-> 0, best |-> 0, perf |-> 0, prohibited |-> 0]
    BY DEF Choice!FindDevice, Choice!At
  <1>2. PICK pc \in {"init", "scan"} :
          /\ Choice!State(main.options, pc, "none")
          /\ pc = "init" <=> Choice!hasArg(main.args, "device")
    BY DEF Choice!FindDevice, Choice!Goto
  <1>3. /\ main'.client = main.client /\ main'.args = main.args
        /\ main'.pc = pc /\ main'.exit = "none"
    BY <1>2, ChoiceFields
  <1>4. Choice!Count \in Nat
    BY DevicesTyped DEF ChoiceInv, Choice!TypeOK
  <1>5. Choice!TypeOK'
    BY <1>1, <1>3, <1>4, ChoiceFrame
       DEF ChoiceInv, Choice!TypeOK, Choice!Places, Choice!Statuses
  <1>6. BestSoFar'
    BY <1>1 DEF BestSoFar
  <1>7. Searching' /\ CompiledFor'
    BY <1>1, <1>2, <1>3, <1>6, ChoiceFrame DEF ChoiceInv, Searching, CompiledFor
  <1> QED BY <1>5, <1>7 DEF ChoiceInv

LEMMA PrimaryInvariant ==
  ASSUME Choice!ChoiceAssumption, ChoiceInv, Choice!TakePrimary
  PROVE  ChoiceInv'
  <1>1. main.client \in Choice!Primary /\ UNCHANGED << res, thread >>
    BY DEF Choice!TakePrimary, Choice!At
  <1>2. CASE Choice!Count = 0
    BY <1>1, <1>2, ExitInvariant DEF Choice!TakePrimary, Choice!Exit, Choice!Statuses
  <1>3. CASE Choice!Count # 0
    <2>1. 0 \in DeviceNumbers
      BY <1>3, DevicesTyped DEF ChoiceInv, Choice!TypeOK, DeviceNumbers
    <2>2. Chosen(0)
      BY <1>1, <2>1 DEF Chosen
    <2> QED BY <1>1, <1>3, <2>2, PickInvariant DEF Choice!TakePrimary
  <1> QED BY <1>2, <1>3

LEMMA InitDeviceInvariant ==
  ASSUME Choice!ChoiceAssumption, ChoiceInv, Choice!InitDevice \/ Choice!InitDeviceDRV
  PROVE  ChoiceInv'
  <1> DEFINE d == IF Choice!Requested < 0 THEN 0 ELSE Choice!Requested
  <1>1. /\ main.pc = "init" /\ UNCHANGED << res, thread >>
        /\ main.client \notin Choice!Primary /\ Choice!hasArg(main.args, "device")
    BY DEF Choice!InitDevice, Choice!InitDeviceDRV, Choice!At, ChoiceInv, Searching
  <1>2. Choice!Requested \in Int /\ Choice!Count \in Nat
    BY RequestTyped, DevicesTyped DEF ChoiceInv, Choice!TypeOK
  <1>3. CASE \E status \in Choice!Statuses : Choice!Exit(status) /\ UNCHANGED stream
    BY <1>1, <1>3, ExitInvariant DEF Choice!Exit
  <1>4. CASE Choice!Pick(d) /\ Choice!Allowed(d) /\ d < Choice!Count
    <2>1. d \in DeviceNumbers
      BY <1>2, <1>4 DEF DeviceNumbers
    <2>2. Chosen(d)
      BY <1>1, <1>4, <2>1 DEF Chosen
    <2> QED BY <1>1, <1>4, <2>2, PickInvariant
  <1>5. CASE Choice!InitDevice
    <2>1. CASE \E status \in {"failure"} : Choice!Exit(status) /\ UNCHANGED stream
      BY <1>3, <2>1 DEF Choice!Statuses
    <2>2. CASE /\ ~ (Choice!Requested < 0 \/ Choice!Requested >= Choice!Count)
               /\ Choice!Allowed(Choice!Requested) /\ Choice!Pick(Choice!Requested)
      BY <1>2, <1>4, <2>2
    <2> QED BY <1>5, <2>1, <2>2 DEF Choice!InitDevice
  <1>6. CASE Choice!InitDeviceDRV
    <2>1. CASE \E status \in {"failure", "success"} : Choice!Exit(status) /\ UNCHANGED stream
      BY <1>3, <2>1 DEF Choice!Statuses
    <2>2. CASE ~ (d >= Choice!Count) /\ Choice!Allowed(d) /\ Choice!Pick(d)
      BY <1>2, <1>4, <2>2
    <2> QED BY <1>6, <2>1, <2>2 DEF Choice!InitDeviceDRV
  <1> QED BY <1>5, <1>6

LEMMA ScanInvariant ==
  ASSUME Choice!ChoiceAssumption, ChoiceInv, Choice!ScanDevice
  PROVE  ChoiceInv'
  <1>1. /\ main.pc = "scan" /\ thread.at < Choice!Count /\ UNCHANGED << main, res, stream >>
    BY DEF Choice!ScanDevice, Choice!At
  <1>2. /\ Choice!Count \in Nat /\ thread.at \in DeviceNumbers /\ thread.at \in Nat
        /\ thread.prohibited \in 0..thread.at /\ thread.best \in Nat /\ thread.perf \in Nat
        /\ \A e \in 0..thread.at : Choice!Perf(e) \in Nat
    <2>1. Choice!Count \in Nat /\ \A e \in DeviceNumbers : Choice!Perf(e) \in Nat
      BY DevicesTyped DEF ChoiceInv, Choice!TypeOK
    <2>2. /\ thread.at \in 0..Choice!Count /\ thread.best \in Nat /\ thread.perf \in Nat
          /\ thread.prohibited \in 0..thread.at
      BY <1>1 DEF ChoiceInv, Choice!TypeOK, Searching, BestSoFar
    <2> QED BY <1>1, <2>1, <2>2 DEF DeviceNumbers
  <1>3. CASE ~ Choice!Allowed(thread.at)
    <2>1. thread' = [at |-> thread.at + 1, best |-> thread.best, perf |-> thread.perf,
                   prohibited |-> thread.prohibited + 1]
      BY <1>3 DEF Choice!ScanDevice, Choice!Scanned
    <2>2. BestSoFar
      BY <1>1 DEF ChoiceInv, Searching
    <2>3. /\ thread'.prohibited \in 0..thread'.at
          /\ \A e \in 0..thread'.at - 1 : Choice!Allowed(e) => e \in 0..thread.at - 1
      BY <1>2, <1>3, <2>1
    <2>4. \/ /\ thread'.best = 0 /\ thread'.perf = 0
             /\ \A e \in 0..thread'.at - 1 : Choice!Allowed(e) => Choice!Perf(e) = 0
          \/ /\ thread'.best \in 0..thread'.at - 1
             /\ Choice!Allowed(thread'.best) /\ thread'.perf = Choice!Perf(thread'.best) /\ thread'.perf > 0
             /\ \A e \in 0..thread'.at - 1 : Choice!Allowed(e) => Choice!Perf(e) <= thread'.perf
             /\ \A e \in 0..thread'.best - 1 : Choice!Allowed(e) => Choice!Perf(e) < thread'.perf
      BY <1>2, <2>1, <2>2, <2>3 DEF BestSoFar
    <2>5. BestSoFar'
      BY <1>1, <2>3, <2>4, ChoiceFrame DEF BestSoFar
    <2>6. Choice!TypeOK'
      BY <1>1, <1>2, <2>1, ChoiceFrame DEF ChoiceInv, Choice!TypeOK, DeviceNumbers
    <2> QED BY <1>1, <2>5, <2>6, ChoiceFrame DEF ChoiceInv, Searching, CompiledFor
  <1>4. CASE Choice!Allowed(thread.at) /\ Choice!Perf(thread.at) > thread.perf
    <2>1. thread' = [at |-> thread.at + 1, best |-> thread.at, perf |-> Choice!Perf(thread.at),
                   prohibited |-> thread.prohibited]
      BY <1>4 DEF Choice!ScanDevice, Choice!Scanned
    <2>2. BestSoFar
      BY <1>1 DEF ChoiceInv, Searching
    <2>3. \A e \in 0..thread.at - 1 : Choice!Allowed(e) => Choice!Perf(e) < Choice!Perf(thread.at)
      BY <1>2, <1>4, <2>2 DEF BestSoFar
    <2>4. /\ thread'.prohibited \in 0..thread'.at /\ thread'.best \in 0..thread'.at - 1
          /\ Choice!Perf(thread.at) > 0
          /\ \A e \in 0..thread'.at - 1 : e \in 0..thread.at - 1 \/ e = thread.at
      BY <1>2, <1>4, <2>1
    <2>5. \A e \in 0..thread'.at - 1 : Choice!Allowed(e) => Choice!Perf(e) <= Choice!Perf(thread.at)
      BY <1>2, <2>3, <2>4
    <2>6. BestSoFar'
      BY <1>1, <1>4, <2>1, <2>3, <2>4, <2>5, ChoiceFrame DEF BestSoFar
    <2>7. Choice!TypeOK'
      BY <1>1, <1>2, <2>1, ChoiceFrame DEF ChoiceInv, Choice!TypeOK, DeviceNumbers
    <2> QED BY <1>1, <2>6, <2>7, ChoiceFrame DEF ChoiceInv, Searching, CompiledFor
  <1>5. CASE Choice!Allowed(thread.at) /\ ~ (Choice!Perf(thread.at) > thread.perf)
    <2>1. thread' = [at |-> thread.at + 1, best |-> thread.best, perf |-> thread.perf,
                   prohibited |-> thread.prohibited]
      BY <1>5 DEF Choice!ScanDevice, Choice!Scanned
    <2>2. BestSoFar
      BY <1>1 DEF ChoiceInv, Searching
    <2>3. /\ thread'.prohibited \in 0..thread'.at
          /\ \A e \in 0..thread'.at - 1 : e \in 0..thread.at - 1 \/ Choice!Perf(e) <= thread.perf
      BY <1>2, <1>5, <2>1
    <2>4. BestSoFar'
      <3>1. CASE thread.best = 0 /\ thread.perf = 0
                 /\ \A e \in 0..thread.at - 1 : Choice!Allowed(e) => Choice!Perf(e) = 0
        <4>1. \A e \in 0..thread'.at - 1 : Choice!Allowed(e) => Choice!Perf(e) = 0
          BY <1>2, <2>1, <2>3, <3>1
        <4> QED BY <1>1, <2>1, <2>3, <3>1, <4>1, ChoiceFrame DEF BestSoFar
      <3>2. CASE /\ thread.best \in 0..thread.at - 1
                 /\ Choice!Allowed(thread.best) /\ thread.perf = Choice!Perf(thread.best) /\ thread.perf > 0
                 /\ \A e \in 0..thread.at - 1 : Choice!Allowed(e) => Choice!Perf(e) <= thread.perf
                 /\ \A e \in 0..thread.best - 1 : Choice!Allowed(e) => Choice!Perf(e) < thread.perf
        <4>1. \A e \in 0..thread'.at - 1 : Choice!Allowed(e) => Choice!Perf(e) <= thread.perf
          BY <1>2, <2>1, <2>3, <3>2
        <4>2. thread.best \in 0..thread'.at - 1
          BY <1>2, <2>1, <3>2
        <4> QED BY <1>1, <2>1, <2>3, <3>2, <4>1, <4>2, ChoiceFrame DEF BestSoFar
      <3> QED BY <2>2, <3>1, <3>2 DEF BestSoFar
    <2>5. Choice!TypeOK'
      BY <1>1, <1>2, <2>1, ChoiceFrame DEF ChoiceInv, Choice!TypeOK, DeviceNumbers
    <2> QED BY <1>1, <2>4, <2>5, ChoiceFrame DEF ChoiceInv, Searching, CompiledFor
  <1> QED BY <1>3, <1>4, <1>5

LEMMA ScanEndsInvariant ==
  ASSUME Choice!ChoiceAssumption, ChoiceInv, Choice!ScanEnds
  PROVE  ChoiceInv'
  <1>1. /\ main.pc = "scan" /\ thread.at = Choice!Count /\ UNCHANGED << res, thread >>
        /\ main.client \notin Choice!Primary /\ ~ Choice!hasArg(main.args, "device") /\ BestSoFar
    BY DEF Choice!ScanEnds, Choice!At, ChoiceInv, Searching
  <1>2. Choice!Count \in Nat
    BY DevicesTyped DEF ChoiceInv, Choice!TypeOK
  <1>3. CASE thread.prohibited = Choice!Count
    BY <1>1, <1>3, ExitInvariant DEF Choice!ScanEnds, Choice!Exit, Choice!Statuses
  <1>4. CASE thread.prohibited # Choice!Count
    <2>1. Choice!Count > 0
      BY <1>1, <1>2, <1>4 DEF BestSoFar
    <2>2. thread.best \in DeviceNumbers
      BY <1>1, <1>2, <2>1 DEF BestSoFar, DeviceNumbers
    <2>3. \/ thread.best = 0 /\ \A e \in DeviceNumbers : Choice!Allowed(e) => Choice!Perf(e) = 0
          \/ /\ Choice!Allowed(thread.best) /\ Choice!Perf(thread.best) > 0
             /\ \A e \in DeviceNumbers : Choice!Allowed(e) => Choice!Perf(e) <= Choice!Perf(thread.best)
             /\ \A e \in 0..thread.best - 1 : Choice!Allowed(e) => Choice!Perf(e) < Choice!Perf(thread.best)
      BY <1>1 DEF BestSoFar, DeviceNumbers
    <2>4. Chosen(thread.best)
      BY <1>1, <2>2, <2>3 DEF Chosen
    <2> QED BY <1>1, <1>4, <2>4, PickInvariant DEF Choice!ScanEnds
  <1> QED BY <1>3, <1>4

LEMMA CompileInvariant ==
  ASSUME Choice!ChoiceAssumption, ChoiceInv, Choice!Compile
  PROVE  ChoiceInv'
  <1> DEFINE d == stream.device
             arch == Choice!ArchName(Choice!Dev(stream.device).capability)
  <1>1. /\ main.pc = "compile" /\ UNCHANGED << res, thread >>
        /\ stream' = [device |-> d, arch |-> arch, loaded |-> None]
    BY DEF Choice!Compile, Choice!At
  <1>2. /\ main'.client = main.client /\ main'.args = main.args
        /\ main'.pc = IF main.client \in Choice!Primary THEN "load" ELSE "find"
        /\ main'.exit = "none"
    BY ChoiceFields DEF Choice!Compile, Choice!Goto
  <1>3. Chosen(d) /\ d \in DeviceNumbers
    BY <1>1 DEF ChoiceInv, CompiledFor, Chosen
  <1>4. arch \in Choice!Architectures /\ None \notin Choice!Architectures
    BY DEF Choice!ArchName, Choice!Architectures, Choice!ChoiceAssumption
  <1>5. Choice!TypeOK'
    BY <1>1, <1>2, <1>4, ChoiceFrame
       DEF ChoiceInv, Choice!TypeOK, Choice!Places, Choice!Statuses
  <1>6. Searching'
    BY <1>2 DEF Searching
  <1>7. CompiledFor'
    BY <1>1, <1>2, <1>3, <1>4, ChoiceFrame DEF CompiledFor
  <1> QED BY <1>5, <1>6, <1>7 DEF ChoiceInv

LEMMA LoadInvariant ==
  ASSUME Choice!ChoiceAssumption, ChoiceInv, Choice!Load
  PROVE  ChoiceInv'
  <1>1. /\ main.pc = "load" /\ UNCHANGED << res, thread >>
        /\ stream' = [device |-> stream.device, arch |-> stream.arch, loaded |-> stream.device]
    BY DEF Choice!Load, Choice!At
  <1>2. /\ main'.client = main.client /\ main'.args = main.args
        /\ main'.pc = "use" /\ main'.exit = "none"
    BY ChoiceFields DEF Choice!Load, Choice!Goto
  <1>3. Choice!TypeOK'
    BY <1>1, <1>2, ChoiceFrame
       DEF ChoiceInv, Choice!TypeOK, Choice!Places, Choice!Statuses
  <1>4. Searching' /\ CompiledFor'
    BY <1>1, <1>2, ChoiceFrame DEF ChoiceInv, Searching, CompiledFor
  <1> QED BY <1>3, <1>4 DEF ChoiceInv

LEMMA ChoiceStep ==
  ASSUME Choice!ChoiceAssumption, ChoiceInv, [Choice!Next]_Choice!choice
  PROVE  ChoiceInv'
  <1>1. CASE UNCHANGED Choice!choice
    BY <1>1, ChoiceFrame
       DEF Choice!choice, ChoiceInv, Choice!TypeOK, Searching, BestSoFar, CompiledFor
  <1>2. CASE Choice!ScanFails
    BY <1>2, ExitInvariant DEF Choice!ScanFails, Choice!At, Choice!Exit, Choice!Statuses
  <1>3. CASE Choice!Use
    BY <1>3, ExitInvariant DEF Choice!Use, Choice!At, Choice!Exit, Choice!Statuses
  <1>4. CASE Choice!ApiFails
    BY <1>4, ExitInvariant DEF Choice!ApiFails, Choice!Exit, Choice!Statuses
  <1> QED BY <1>1, <1>2, <1>3, <1>4, ParseInvariant, FindInvariant, PrimaryInvariant,
             InitDeviceInvariant, ScanInvariant, ScanEndsInvariant, CompileInvariant,
             LoadInvariant DEF Choice!Next, Choice!Progress

-------------------------------------------------------------------------------
LEMMA ChoiceConclusions ==
  ASSUME Choice!ChoiceAssumption, ChoiceInv
  PROVE  Choice!TypeOK /\ Choice!BestAllowedDevice /\ Choice!ModuleFitsDevice
  <1>1. Choice!TypeOK
    BY DEF ChoiceInv
  <1>2. Choice!BestAllowedDevice
    BY DEF ChoiceInv, CompiledFor, Chosen, DeviceNumbers, Choice!BestAllowedDevice
  <1>3. Choice!ModuleFitsDevice
    BY ChoiceUnique DEF ChoiceInv, Choice!TypeOK, CompiledFor, Choice!ModuleFitsDevice
  <1> QED BY <1>1, <1>2, <1>3
-------------------------------------------------------------------------------
(* StreamProgram                                                           *)

\* What the theorems about the calls of programs assume; the runs show it of the
\* samples' programs.
AllOrdered == OrderedPrograms = DOMAIN Programs

\* An order that the program enforces.
CallsBefore == CHOOSE before : Calls!WellOrdered(Calls!Program, before)

Issued(j) == j < main.at \/ main.exit = "finished"

\* The calls that have taken effect.
Done(j) == Issued(j) /\ ~ Calls!InQueue(j)

\* All that call i waits for has taken effect.
Ready(i) == \A j \in Calls!Enforced(Calls!Program, i) : Done(j)

\* A stream holds calls it was given, in their order.
CallQueues ==
  /\ \A s \in DOMAIN stream : \A k \in 1..Len(stream[s]) : \A j \in Calls!Calls :
       stream[s][k] = j =>
         Calls!Program[j].kind = "stream" /\ Calls!Program[j].on = s /\ Issued(j)
  /\ \A s \in DOMAIN stream : \A k, l \in 1..Len(stream[s]) :
       k < l => stream[s][k] < stream[s][l]

SameStream(i, j) ==
  /\ Calls!Program[i].kind = "stream" /\ Calls!Program[j].kind = "stream"
  /\ Calls!Program[i].on = Calls!Program[j].on

\* Of two calls on a stream the first does not outlast the second.
FirstComesFirst ==
  \A i \in Calls!Calls : \A j \in 1..i - 1 :
    SameStream(i, j) /\ Issued(i) /\ Calls!InQueue(j) => Calls!InQueue(i)

\* What precedes a call that has taken effect has taken effect.
Closed == \A i \in Calls!Calls : Done(i) => \A j \in CallsBefore[i] : Done(j)

\* A buffer holds the latest call done that stores to it.
Latest ==
  \A b \in DOMAIN res :
    /\ \A j \in Calls!Calls : Done(j) /\ b \in Calls!Program[j].writes => j <= res[b]
    /\ \A j \in Calls!Calls : res[b] = j => Done(j) /\ b \in Calls!Program[j].writes

\* The inductive invariant.
CallsInv == Calls!TypeOK /\ CallQueues /\ FirstComesFirst /\ Closed /\ Latest
-------------------------------------------------------------------------------
(* Sequences as queues                                                     *)

\* What a sequence holds when an element is appended.
LEMMA AppendElements ==
  ASSUME NEW S, NEW q \in Seq(S), NEW e \in S
  PROVE  \A x : (\E k \in 1..Len(Append(q, e)) : Append(q, e)[k] = x)
                  <=> (\E k \in 1..Len(q) : q[k] = x) \/ x = e
  <1>1. Len(Append(q, e)) = Len(q) + 1 /\ Len(q) \in Nat
    OBVIOUS
  <1>2. \A k \in 1..Len(q) : Append(q, e)[k] = q[k]
    OBVIOUS
  <1>3. Append(q, e)[Len(q) + 1] = e
    OBVIOUS
  <1> QED
    BY <1>1, <1>2, <1>3

\* What an increasing sequence holds when its head is taken off.
LEMMA TailElements ==
  ASSUME NEW S \in SUBSET Nat, NEW q \in Seq(S), q # << >>,
         \A k, l \in 1..Len(q) : k < l => q[k] < q[l]
  PROVE  \A x : (\E k \in 1..Len(Tail(q)) : Tail(q)[k] = x)
                  <=> (\E k \in 1..Len(q) : q[k] = x) /\ x # Head(q)
  <1>1. Len(Tail(q)) = Len(q) - 1 /\ Len(q) \in Nat \ {0} /\ Head(q) = q[1]
    OBVIOUS
  <1>2. \A k \in 1..Len(q) - 1 : Tail(q)[k] = q[k + 1]
    OBVIOUS
  <1>3. \A k \in 2..Len(q) : q[k] # q[1]
    <2> TAKE k \in 2..Len(q)
    <2>1. q[1] < q[k]
      BY <1>1
    <2>2. \A x, y \in S : x < y => x # y
      OBVIOUS
    <2>3. q[1] \in S /\ q[k] \in S
      BY <1>1
    <2> QED
      BY <2>1, <2>2, <2>3
  <1>4. ASSUME NEW x, NEW k \in 1..Len(Tail(q)), Tail(q)[k] = x
        PROVE  (\E l \in 1..Len(q) : q[l] = x) /\ x # Head(q)
    <2>1. k + 1 \in 2..Len(q) /\ q[k + 1] = x
      BY <1>1, <1>2, <1>4
    <2> QED
      BY <1>1, <1>3, <2>1
  <1>5. ASSUME NEW x, NEW k \in 1..Len(q), q[k] = x, x # Head(q)
        PROVE  \E l \in 1..Len(Tail(q)) : Tail(q)[l] = x
    <2>1. k # 1
      BY <1>1, <1>5
    <2>2. k - 1 \in 1..Len(Tail(q)) /\ Tail(q)[k - 1] = q[(k - 1) + 1] /\ (k - 1) + 1 = k
      BY <1>1, <1>2, <2>1
    <2> QED
      BY <1>5, <2>2
  <1> QED
    BY <1>4, <1>5
-------------------------------------------------------------------------------
\* The program that runs is ordered by CallsBefore.
LEMMA ProgramOrdered ==
  ASSUME AllOrdered, Calls!TypeOK
  PROVE  Calls!WellOrdered(Calls!Program, CallsBefore)
  BY DEF AllOrdered, OrderedPrograms, Calls!TypeOK, CallsBefore, Calls!Program

\* Its calls are numbered from 1.
LEMMA LengthPositive ==
  ASSUME AllOrdered, Calls!TypeOK
  PROVE  Len(Calls!Program) \in Nat \ {0}
  BY ProgramOrdered DEF Calls!WellOrdered, Calls!IsProgram

\* A step leaves the program as it is.
LEMMA SampleKept ==
  ASSUME Calls!TypeOK, [Calls!Next]_Calls!machine
  PROVE  /\ main'.sample = main.sample
         /\ Calls!Program' = Calls!Program /\ CallsBefore' = CallsBefore
         /\ Calls!Calls' = Calls!Calls
  <1>1. main'.sample = main.sample
    BY DEF Calls!TypeOK, Calls!Next, Calls!Progress, Calls!GiveToStream, Calls!HostAccess,
           Calls!HostWaits, Calls!StreamRuns, Calls!ApiFails, Calls!NextCall,
           Calls!machine
  <1>2. Calls!Program' = Calls!Program
    BY <1>1 DEF Calls!Program
  <1> QED
    BY <1>1, <1>2 DEF CallsBefore, Calls!Calls
\* A call is given to a stream that exists.
LEMMA OnStreams ==
  ASSUME Calls!TypeOK, NEW j \in Calls!Calls, Calls!Program[j].kind = "stream"
  PROVE  Calls!Program[j].on \in DOMAIN stream
  BY DEF Calls!TypeOK, Calls!Streams, Calls!Calls

\* main goes on: the call it was at has been issued.
LEMMA NextCallMoves ==
  ASSUME AllOrdered, Calls!TypeOK, Calls!Running, Calls!NextCall
  PROVE  /\ main' \in [sample : DOMAIN Programs, at : Calls!Calls,
                       exit : {"none", "finished", "error"}]
         /\ \A j \in Calls!Calls : Issued(j)' <=> Issued(j) \/ j = main.at
  <1> DEFINE n == Len(Calls!Program)
  <1>1. n \in Nat \ {0} /\ Calls!Calls = 1..n
    BY LengthPositive DEF Calls!Calls
  <1>2. main.at \in 1..n /\ main.exit = "none"
    BY <1>1 DEF Calls!TypeOK, Calls!Running
  <1>3. CASE main.at < n
    <2>1. main' = [main EXCEPT !.at = main.at + 1]
      BY <1>3 DEF Calls!NextCall
    <2>2. main.at + 1 \in 1..n
      BY <1>1, <1>2, <1>3
    <2>3. main'.at = main.at + 1 /\ main'.exit = "none"
      BY <2>1, <1>2 DEF Calls!TypeOK
    <2>4. \A j \in Calls!Calls : j < main.at + 1 <=> j < main.at \/ j = main.at
      BY <1>1, <1>2
    <2> QED
      BY <1>1, <1>2, <2>1, <2>2, <2>3, <2>4 DEF Calls!TypeOK, Issued
  <1>4. CASE ~ (main.at < n)
    <2>1. main' = [main EXCEPT !.exit = "finished"]
      BY <1>4 DEF Calls!NextCall
    <2>2. main'.exit = "finished"
      BY <2>1 DEF Calls!TypeOK
    <2>3. \A j \in Calls!Calls : j < main.at \/ j = main.at
      BY <1>1, <1>2, <1>4
    <2> QED
      BY <2>1, <2>2, <2>3 DEF Calls!TypeOK, Issued
  <1> QED
    BY <1>3, <1>4

\* Steps of the streams, and failures, issue no call.
LEMMA IssuedKept ==
  ASSUME Calls!TypeOK, \/ UNCHANGED main
                       \/ Calls!Running /\ main' = [main EXCEPT !.exit = "error"]
  PROVE  \A j : Issued(j)' <=> Issued(j)
  BY DEF Calls!TypeOK, Issued, Calls!Running

\* A stream holds numbers of calls.
LEMMA QueuesNumbered ==
  ASSUME AllOrdered, Calls!TypeOK, NEW s \in DOMAIN stream
  PROVE  Calls!Calls \in SUBSET Nat /\ stream[s] \in Seq(Calls!Calls)
  BY LengthPositive DEF Calls!TypeOK, Calls!Calls

\* A call given to a stream is in its queue from then on.
LEMMA Queued ==
  ASSUME AllOrdered, Calls!TypeOK, Calls!GiveToStream
  PROVE  /\ stream' \in [Calls!Streams(Calls!Program) -> Seq(Calls!Calls)]
         /\ \A j \in Calls!Calls : Calls!InQueue(j)' <=> Calls!InQueue(j) \/ j = main.at
  <1> DEFINE i == main.at
             q == stream[Calls!Program[i].on]
  <1>1. /\ i \in Calls!Calls
        /\ Calls!Program[i].kind = "stream" /\ Calls!Program[i].on \in DOMAIN stream
    BY OnStreams DEF Calls!TypeOK, Calls!GiveToStream
  <1>2. q \in Seq(Calls!Calls) /\ Append(q, i) \in Seq(Calls!Calls)
    BY <1>1, QueuesNumbered
  <1>3. stream' = [stream EXCEPT ![Calls!Program[i].on] = Append(q, i)]
    BY DEF Calls!GiveToStream, Calls!Enqueued
  <1>4. Calls!Program' = Calls!Program
    BY SampleKept DEF Calls!Next, Calls!Progress
  <1>5. ASSUME NEW j \in Calls!Calls
        PROVE  Calls!InQueue(j)' <=> Calls!InQueue(j) \/ j = i
    <2>1. CASE Calls!Program[j].kind # "stream"
      BY <1>1, <1>4, <2>1 DEF Calls!InQueue
    <2>2. CASE Calls!Program[j].kind = "stream" /\ Calls!Program[j].on # Calls!Program[i].on
      <3>1. stream'[Calls!Program[j].on] = stream[Calls!Program[j].on]
        BY <1>3, <2>2, OnStreams
      <3> QED
        BY <1>4, <2>2, <3>1 DEF Calls!InQueue, Calls!Pending
    <2>3. CASE Calls!Program[j].kind = "stream" /\ Calls!Program[j].on = Calls!Program[i].on
      <3>1. stream'[Calls!Program[i].on] = Append(q, i)
        BY <1>1, <1>3
      <3>2. (\E k \in 1..Len(Append(q, i)) : Append(q, i)[k] = j)
              <=> (\E k \in 1..Len(q) : q[k] = j) \/ j = i
        <4>1. \A x : (\E k \in 1..Len(Append(q, i)) : Append(q, i)[k] = x)
                       <=> (\E k \in 1..Len(q) : q[k] = x) \/ x = i
          <5>1. q \in Seq(Calls!Calls) /\ i \in Calls!Calls
            BY <1>1, <1>2
          <5> HIDE DEF q, i
          <5> QED BY <5>1, AppendElements
        <4> QED BY <4>1
      <3> QED
        BY <1>4, <2>3, <3>1, <3>2 DEF Calls!InQueue, Calls!Pending
    <2> QED
      BY <2>1, <2>2, <2>3
  <1> QED
    BY <1>2, <1>3, <1>5 DEF Calls!TypeOK

\* The call a stream runs is the only one that leaves a queue.
LEMMA Unqueued ==
  ASSUME AllOrdered, Calls!TypeOK, CallQueues, NEW s \in DOMAIN stream, Calls!StreamRuns(s)
  PROVE  /\ stream' \in [Calls!Streams(Calls!Program) -> Seq(Calls!Calls)]
         /\ Head(stream[s]) \in Calls!Calls
         /\ Calls!Program[Head(stream[s])].kind = "stream"
         /\ Calls!Program[Head(stream[s])].on = s
         /\ Calls!InQueue(Head(stream[s])) /\ Issued(Head(stream[s]))
         /\ \A j \in Calls!Calls : Calls!InQueue(j)' <=> Calls!InQueue(j) /\ j # Head(stream[s])
  <1> DEFINE q == stream[s]
             i == Head(q)
  <1>1. q \in Seq(Calls!Calls) /\ Calls!Calls \in SUBSET Nat /\ q # << >>
    BY QueuesNumbered DEF Calls!StreamRuns, Calls!CanRun
  <1>2. Tail(q) \in Seq(Calls!Calls) /\ i = q[1] /\ 1 \in 1..Len(q) /\ i \in Calls!Calls
    BY <1>1
  <1>3. Calls!Program[i].kind = "stream" /\ Calls!Program[i].on = s /\ Issued(i)
    BY <1>2 DEF CallQueues
  <1>4. Calls!InQueue(i)
    BY <1>2, <1>3 DEF Calls!InQueue, Calls!Pending
  <1>5. stream' = [stream EXCEPT ![s] = Tail(q)]
    BY DEF Calls!StreamRuns, Calls!Popped
  <1>6. Calls!Program' = Calls!Program
    BY SampleKept DEF Calls!Next, Calls!Progress
  <1>7. \A x : (\E k \in 1..Len(Tail(q)) : Tail(q)[k] = x)
                 <=> (\E k \in 1..Len(q) : q[k] = x) /\ x # i
    BY <1>1, TailElements DEF CallQueues
  <1>8. ASSUME NEW j \in Calls!Calls
        PROVE  Calls!InQueue(j)' <=> Calls!InQueue(j) /\ j # i
    <2>1. CASE Calls!Program[j].kind # "stream"
      BY <1>6, <2>1 DEF Calls!InQueue
    <2>2. CASE Calls!Program[j].kind = "stream" /\ Calls!Program[j].on # s
      <3>1. stream'[Calls!Program[j].on] = stream[Calls!Program[j].on]
        BY <1>5, <2>2, OnStreams
      <3> QED
        BY <1>3, <1>6, <2>2, <3>1 DEF Calls!InQueue, Calls!Pending
    <2>3. CASE Calls!Program[j].kind = "stream" /\ Calls!Program[j].on = s
      <3>1. stream'[s] = Tail(q)
        BY <1>5
      <3>2. Calls!InQueue(j) <=> \E k \in 1..Len(q) : q[k] = j
        BY <2>3 DEF Calls!InQueue, Calls!Pending
      <3>3. Calls!InQueue(j)' <=> \E k \in 1..Len(Tail(q)) : Tail(q)[k] = j
        BY <1>6, <2>3, <3>1 DEF Calls!InQueue, Calls!Pending
      <3> QED
        BY <1>7, <3>2, <3>3
    <2> QED
      BY <2>1, <2>2, <2>3
  <1> QED
    BY <1>2, <1>3, <1>4, <1>5, <1>8 DEF Calls!TypeOK
-------------------------------------------------------------------------------
\* Calls of the host are never in a queue.
LEMMA HostCallsDone ==
  ASSUME NEW i \in Nat, ~ (main.at < i), NEW j \in 1..i - 1, AllOrdered, Calls!TypeOK,
         Calls!Program[j].kind = "stream" => ~ Calls!InQueue(j)
  PROVE  Done(j)
  BY LengthPositive DEF Done, Issued, Calls!InQueue, Calls!TypeOK, Calls!Calls

\* The host's next call is ready: main makes its calls one after the other.
LEMMA HostReady ==
  ASSUME AllOrdered, Calls!TypeOK, Calls!Running, Calls!Program[main.at].kind = "host"
  PROVE  main.at \in Calls!Calls /\ ~ Done(main.at) /\ Ready(main.at)
  <1>1. main.at \in Calls!Calls /\ main.at \in Nat /\ ~ (main.at < main.at)
    BY LengthPositive DEF Calls!TypeOK, Calls!Calls
  <1>2. ~ Done(main.at)
    BY <1>1 DEF Done, Issued, Calls!Running
  <1>3. ASSUME NEW j \in Calls!Enforced(Calls!Program, main.at)
        PROVE  Done(j)
    <2>1. j \in 1..main.at - 1 /\ Calls!Program[j].kind # "stream"
      BY DEF Calls!Enforced
    <2> QED
      BY <1>1, <2>1, HostCallsDone
  <1> QED
    BY <1>1, <1>2, <1>3 DEF Ready

\* A wait that ends has found done what it waits for.
LEMMA WaitReady ==
  ASSUME AllOrdered, Calls!TypeOK, Calls!HostWaits
  PROVE  main.at \in Calls!Calls /\ ~ Done(main.at) /\ Ready(main.at)
  <1>1. main.at \in Calls!Calls /\ main.at \in Nat /\ ~ (main.at < main.at)
    BY LengthPositive DEF Calls!TypeOK, Calls!Calls
  <1>2. ~ Done(main.at)
    BY <1>1 DEF Done, Issued, Calls!Running, Calls!HostWaits
  <1>3. ASSUME NEW j \in Calls!Enforced(Calls!Program, main.at)
        PROVE  Done(j)
    <2>1. j \in 1..main.at - 1 /\ j \in Calls!Calls
      BY <1>1, LengthPositive DEF Calls!Enforced, Calls!Calls
    <2>2. ASSUME Calls!Program[j].kind = "stream", Calls!InQueue(j)
          PROVE  FALSE
      <3>1. Calls!Awaited(Calls!Program[main.at].on, Calls!Program[j].on)
        BY <2>2 DEF Calls!Enforced, Calls!HostWaits
      <3>2. stream[Calls!Program[j].on] = << >>
        BY <2>1, <2>2, <3>1, OnStreams DEF Calls!HostWaits
      <3> QED
        BY <2>2, <3>2 DEF Calls!InQueue, Calls!Pending
    <2> QED
      BY <1>1, <2>1, <2>2, HostCallsDone
  <1> QED
    BY <1>1, <1>2, <1>3 DEF Ready

\* A stream that can run has found done what its oldest call waits for.
LEMMA StreamReady ==
  ASSUME AllOrdered, Calls!TypeOK, CallQueues, NEW s \in DOMAIN stream, Calls!CanRun(s)
  PROVE  Head(stream[s]) \in Calls!Calls /\ ~ Done(Head(stream[s])) /\ Ready(Head(stream[s]))
  <1> DEFINE q == stream[s]
             i == Head(q)
  <1>1. q \in Seq(Calls!Calls) /\ q # << >> /\ i = q[1] /\ 1 \in 1..Len(q) /\ i \in Calls!Calls
    BY QueuesNumbered DEF Calls!CanRun
  <1>2. Calls!Program[i].kind = "stream" /\ Calls!Program[i].on = s /\ Issued(i)
    BY <1>1 DEF CallQueues
  <1>3. Calls!InQueue(i)
    BY <1>1, <1>2 DEF Calls!InQueue, Calls!Pending
  <1>4. i \in Nat /\ ~ (main.at < i)
    BY <1>1, <1>2, LengthPositive DEF Calls!Calls, Issued, Calls!CanRun, Calls!Running,
                                      Calls!TypeOK
  <1>5. ASSUME NEW j \in Calls!Enforced(Calls!Program, i)
        PROVE  Done(j)
    <2>1. j \in 1..i - 1 /\ j \in Calls!Calls
      BY <1>1, <1>4, LengthPositive DEF Calls!Enforced, Calls!Calls
    <2>2. ASSUME Calls!Program[j].kind = "stream", Calls!InQueue(j)
          PROVE  FALSE
      <3>1. Calls!Program[j].on = s
        BY <1>2, <2>2 DEF Calls!Enforced, Calls!CanRun
      <3>2. PICK k \in 1..Len(q) : q[k] = j
        BY <2>2, <3>1 DEF Calls!InQueue, Calls!Pending
      <3>3. k # 1
        BY <1>1, <2>1, <3>2
      <3>4. q[1] < q[k]
        BY <1>1, <3>2, <3>3 DEF CallQueues
      <3> QED
        BY <1>1, <1>4, <2>1, <3>2, <3>4
    <2> QED
      BY <1>4, <2>1, <2>2, HostCallsDone
  <1> QED
    BY <1>1, <1>3, <1>5 DEF Ready, Done

\* A call that could take effect now has not, and what it waits for has.
LEMMA DueReady ==
  ASSUME AllOrdered, Calls!TypeOK, CallQueues, NEW i \in Calls!Due
  PROVE  i \in Calls!Calls /\ ~ Done(i) /\ Ready(i)
  BY HostReady, StreamReady DEF Calls!Due
-------------------------------------------------------------------------------
\* Call i takes effect: it had not, and what it waits for had.
Takes(i) ==
  /\ ~ Done(i) /\ Ready(i)
  /\ \A j \in Calls!Calls : Done(j)' <=> Done(j) \/ j = i
  /\ Calls!Stored(i)

\* A step changes the buffers and what is done only as one call takes effect.
LEMMA StepEffect ==
  ASSUME AllOrdered, Calls!TypeOK, CallQueues, [Calls!Next]_Calls!machine
  PROVE  \/ res' = res /\ \A j \in Calls!Calls : Done(j)' <=> Done(j)
         \/ \E i \in Calls!Calls : Takes(i)
  <1>1. CASE Calls!GiveToStream
    <2>1. \A j \in Calls!Calls : Issued(j)' <=> Issued(j) \/ j = main.at
      BY <1>1, NextCallMoves DEF Calls!GiveToStream
    <2>2. \A j \in Calls!Calls : Calls!InQueue(j)' <=> Calls!InQueue(j) \/ j = main.at
      BY <1>1, Queued
    <2>3. main.at \in Calls!Calls /\ ~ Issued(main.at)
      BY <1>1, LengthPositive DEF Calls!TypeOK, Calls!Calls, Issued, Calls!GiveToStream,
                                  Calls!Running
    <2> QED
      BY <1>1, <2>1, <2>2, <2>3 DEF Done, Calls!GiveToStream
  <1>2. CASE Calls!HostAccess
    <2>1. \A j \in Calls!Calls : Issued(j)' <=> Issued(j) \/ j = main.at
      BY <1>2, NextCallMoves DEF Calls!HostAccess
    <2>2. \A j \in Calls!Calls : Calls!InQueue(j)' <=> Calls!InQueue(j)
      BY <1>2, SampleKept DEF Calls!InQueue, Calls!Pending, Calls!HostAccess
    <2>3. main.at \in Calls!Calls /\ ~ Done(main.at) /\ Ready(main.at)
      BY <1>2, HostReady DEF Calls!HostAccess
    <2>4. ~ Calls!InQueue(main.at)
      BY <1>2 DEF Calls!HostAccess, Calls!InQueue
    <2>5. \A j \in Calls!Calls : Done(j)' <=> Done(j) \/ j = main.at
      BY <2>1, <2>2, <2>4 DEF Done
    <2> QED
      BY <1>2, <2>3, <2>5 DEF Takes, Calls!HostAccess
  <1>3. CASE Calls!HostWaits
    <2>1. \A j \in Calls!Calls : Issued(j)' <=> Issued(j) \/ j = main.at
      BY <1>3, NextCallMoves DEF Calls!HostWaits
    <2>2. \A j \in Calls!Calls : Calls!InQueue(j)' <=> Calls!InQueue(j)
      BY <1>3, SampleKept DEF Calls!InQueue, Calls!Pending, Calls!HostWaits
    <2>3. main.at \in Calls!Calls /\ ~ Done(main.at) /\ Ready(main.at)
      BY <1>3, WaitReady
    <2>4. ~ Calls!InQueue(main.at)
      BY <1>3 DEF Calls!HostWaits, Calls!InQueue
    <2>5. \A j \in Calls!Calls : Done(j)' <=> Done(j) \/ j = main.at
      BY <2>1, <2>2, <2>4 DEF Done
    <2>6. Calls!Program[main.at].writes = {}
      BY <1>3, <2>3, ProgramOrdered DEF Calls!WellOrdered, Calls!IsProgram,
                                        Calls!HostWaits, Calls!Calls
    <2>7. Calls!Stored(main.at)
      BY <1>3, <2>6 DEF Calls!Stored, Calls!HostWaits, Calls!TypeOK
    <2> QED
      BY <2>3, <2>5, <2>7 DEF Takes
  <1>4. ASSUME NEW s \in DOMAIN stream, Calls!StreamRuns(s)
        PROVE  \E i \in Calls!Calls : Takes(i)
    <2> DEFINE i == Head(stream[s])
    <2>1. i \in Calls!Calls /\ ~ Done(i) /\ Ready(i)
      BY <1>4, StreamReady DEF Calls!StreamRuns
    <2>2. \A j \in Calls!Calls : Calls!InQueue(j)' <=> Calls!InQueue(j) /\ j # i
      BY <1>4, Unqueued
    <2>3. Issued(i)
      BY <1>4, Unqueued
    <2>4. \A j : Issued(j)' <=> Issued(j)
      BY <1>4, IssuedKept DEF Calls!StreamRuns
    <2>5. \A j \in Calls!Calls : Done(j)' <=> Done(j) \/ j = i
      BY <2>2, <2>3, <2>4 DEF Done
    <2>6. Calls!Stored(i)
      BY <1>4 DEF Calls!StreamRuns
    <2> QED
      BY <2>1, <2>5, <2>6 DEF Takes
  <1>5. CASE Calls!ApiFails \/ UNCHANGED Calls!machine
    <2>1. \A j : Issued(j)' <=> Issued(j)
      BY <1>5, IssuedKept DEF Calls!ApiFails, Calls!machine
    <2>2. \A j \in Calls!Calls : Calls!InQueue(j)' <=> Calls!InQueue(j)
      BY <1>5, SampleKept DEF Calls!InQueue, Calls!Pending, Calls!ApiFails, Calls!machine
    <2> QED
      BY <1>5, <2>1, <2>2 DEF Done, Calls!ApiFails, Calls!machine
  <1> QED
    BY <1>1, <1>2, <1>3, <1>4, <1>5 DEF Calls!Next, Calls!Progress

\* A step keeps the types.
LEMMA TypeKept ==
  ASSUME AllOrdered, Calls!TypeOK, CallQueues, [Calls!Next]_Calls!machine
  PROVE  Calls!TypeOK'
  <1>1. Calls!Program' = Calls!Program /\ Calls!Calls' = Calls!Calls
    BY SampleKept
  <1>2. /\ Calls!Streams(Calls!Program)' = Calls!Streams(Calls!Program)
        /\ Calls!Buffers(Calls!Program)' = Calls!Buffers(Calls!Program)
    BY <1>1 DEF Calls!Streams, Calls!Buffers
  <1>3. main' \in [sample : DOMAIN Programs, at : Calls!Calls,
                    exit : {"none", "finished", "error"}]
    BY NextCallMoves DEF Calls!Next, Calls!Progress, Calls!GiveToStream, Calls!HostAccess,
                         Calls!HostWaits, Calls!StreamRuns, Calls!ApiFails, Calls!machine,
                         Calls!TypeOK
  <1>4. stream' \in [Calls!Streams(Calls!Program) -> Seq(Calls!Calls)]
    BY Queued, Unqueued DEF Calls!Next, Calls!Progress, Calls!HostAccess, Calls!HostWaits,
                            Calls!ApiFails, Calls!machine, Calls!TypeOK
  <1>5. res' \in [Calls!Buffers(Calls!Program) -> Calls!Calls \cup {0}]
    <2>1. CASE res' = res
      BY <2>1 DEF Calls!TypeOK
    <2>2. ASSUME NEW i \in Calls!Calls, Takes(i)
          PROVE  res' \in [Calls!Buffers(Calls!Program) -> Calls!Calls \cup {0}]
      BY <2>2 DEF Takes, Calls!Stored, Calls!TypeOK
    <2> QED
      BY <2>1, <2>2, StepEffect
  <1> QED
    BY <1>1, <1>2, <1>3, <1>4, <1>5 DEF Calls!TypeOK
\* A call once issued stays issued.
LEMMA IssuedGrows ==
  ASSUME AllOrdered, Calls!TypeOK, [Calls!Next]_Calls!machine
  PROVE  \A j \in Calls!Calls : Issued(j) => Issued(j)'
  BY NextCallMoves, IssuedKept
     DEF Calls!Next, Calls!Progress, Calls!GiveToStream, Calls!HostAccess,
         Calls!HostWaits, Calls!StreamRuns, Calls!ApiFails, Calls!machine

\* A step keeps the order of the queues.
LEMMA QueuesKept ==
  ASSUME AllOrdered, Calls!TypeOK, CallQueues, [Calls!Next]_Calls!machine
  PROVE  CallQueues'
  <1>1. /\ Calls!Program' = Calls!Program /\ Calls!Calls' = Calls!Calls
        /\ \A j \in Calls!Calls : Issued(j) => Issued(j)'
    BY SampleKept, IssuedGrows
  <1>2. \A j \in Calls!Calls : \A s :
                Calls!Program[j].kind = "stream" /\ Calls!Program[j].on = s /\ Issued(j)
                => Calls!Program'[j].kind = "stream" /\ Calls!Program'[j].on = s /\ Issued(j)'
    BY <1>1
  <1>3. CASE UNCHANGED stream
    BY <1>1, <1>2, <1>3 DEF CallQueues
  <1>4. CASE Calls!GiveToStream
    <2>0. PICK i \in Calls!Calls : i = main.at
      BY DEF Calls!TypeOK
    <2> DEFINE t == Calls!Program[i].on
               q == stream[t]
    <2>1. /\ i \in Calls!Calls /\ Calls!Program[i].kind = "stream" /\ t \in DOMAIN stream
          /\ q \in Seq(Calls!Calls) /\ Calls!Calls \in SUBSET Nat
      BY <1>4, <2>0, OnStreams, QueuesNumbered DEF Calls!GiveToStream
    <2>2. stream' = [stream EXCEPT ![t] = Append(q, i)]
      BY <1>4, <2>0 DEF Calls!GiveToStream, Calls!Enqueued
    <2>3. Issued(i)'
      BY <1>4, <2>0, NextCallMoves DEF Calls!GiveToStream
    <2>4. /\ Len(Append(q, i)) = Len(q) + 1 /\ Append(q, i)[Len(q) + 1] = i
          /\ \A k \in 1..Len(q) : Append(q, i)[k] = q[k]
          /\ Len(q) \in Nat
      BY <2>1
    <2>5. \A k, l \in 1..Len(q) + 1 :
            k < l => k \in 1..Len(q) /\ (l \in 1..Len(q) \/ l = Len(q) + 1)
      <3>1. Len(q) \in Nat
        BY <2>4
      <3> QED
        BY <3>1
    <2>6. \A k \in 1..Len(q) : q[k] < i /\ q[k] \in Calls!Calls
      <3> TAKE k \in 1..Len(q)
      <3>1. PICK j \in Calls!Calls : q[k] = j
        BY <2>1
      <3>2. Issued(j)
        BY <2>1, <3>1 DEF CallQueues
      <3> QED
        BY <1>4, <2>0, <3>1, <3>2 DEF Issued, Calls!GiveToStream, Calls!Running
    <2>7. ASSUME NEW s \in DOMAIN stream
          PROVE  /\ \A k \in 1..Len(stream'[s]) : \A j \in Calls!Calls :
                      stream'[s][k] = j =>
                        /\ Calls!Program'[j].kind = "stream"
                        /\ Calls!Program'[j].on = s /\ Issued(j)'
                 /\ \A k, l \in 1..Len(stream'[s]) : k < l => stream'[s][k] < stream'[s][l]
      <3>1. CASE s # t
        <4>1. stream'[s] = stream[s]
          BY <2>2, <3>1
        <4> QED
          BY <1>2, <4>1 DEF CallQueues
      <3>2. CASE s = t
        <4>1. stream'[s] = Append(q, i)
          BY <2>1, <2>2, <3>2
        <4>2. \A k \in 1..Len(q) : \A j \in Calls!Calls :
                q[k] = j => /\ Calls!Program'[j].kind = "stream"
                            /\ Calls!Program'[j].on = s /\ Issued(j)'
          BY <1>2, <2>1, <3>2 DEF CallQueues
        <4>3. \A k, l \in 1..Len(q) : k < l => q[k] < q[l]
          BY <2>1 DEF CallQueues
        <4>4. \A k \in 1..Len(q) + 1 : \A j \in Calls!Calls :
                Append(q, i)[k] = j =>
                  Calls!Program'[j].kind = "stream" /\ Calls!Program'[j].on = s /\ Issued(j)'
          <5> TAKE k \in 1..Len(q) + 1
          <5>1. CASE k \in 1..Len(q)
            BY <2>4, <4>2, <5>1
          <5>2. CASE k = Len(q) + 1
            <6> SUFFICES ASSUME Append(q, i)[k] = i
                         PROVE  /\ Calls!Program'[i].kind = "stream"
                                /\ Calls!Program'[i].on = s /\ Issued(i)'
              BY <2>4, <5>2
            <6> QED
              BY <1>1, <2>1, <2>3, <3>2
          <5> QED
            BY <2>4, <5>1, <5>2
        <4>5. \A k, l \in 1..Len(q) + 1 : k < l => Append(q, i)[k] < Append(q, i)[l]
          <5> TAKE k, l \in 1..Len(q) + 1
          <5> QED
            BY <2>4, <2>6, <2>5, <4>3
        <4> QED
          BY <2>4, <4>1, <4>4, <4>5
      <3> QED
        BY <3>1, <3>2
    <2>8. DOMAIN stream' = DOMAIN stream
      BY <2>2
    <2> QED
      BY <1>1, <2>7, <2>8 DEF CallQueues
  <1>5. ASSUME NEW t \in DOMAIN stream, Calls!StreamRuns(t)
        PROVE  CallQueues'
    <2> DEFINE q == stream[t]
    <2>1. q \in Seq(Calls!Calls) /\ q # << >>
      BY <1>5, QueuesNumbered DEF Calls!StreamRuns, Calls!CanRun
    <2>2. stream' = [stream EXCEPT ![t] = Tail(q)]
      BY <1>5 DEF Calls!StreamRuns, Calls!Popped
    <2>3. /\ Len(q) \in Nat \ {0} /\ Len(Tail(q)) = Len(q) - 1
          /\ \A k \in 1..Len(q) - 1 : k + 1 \in 1..Len(q) /\ Tail(q)[k] = q[k + 1]
      BY <2>1
    <2>4. ASSUME NEW s \in DOMAIN stream
          PROVE  /\ \A k \in 1..Len(stream'[s]) : \A j \in Calls!Calls :
                      stream'[s][k] = j =>
                        /\ Calls!Program'[j].kind = "stream"
                        /\ Calls!Program'[j].on = s /\ Issued(j)'
                 /\ \A k, l \in 1..Len(stream'[s]) : k < l => stream'[s][k] < stream'[s][l]
      <3>1. CASE s # t
        <4>1. stream'[s] = stream[s]
          BY <2>2, <3>1
        <4> QED
          BY <1>2, <4>1 DEF CallQueues
      <3>2. CASE s = t
        <4>1. stream'[s] = Tail(q)
          BY <2>2, <3>2
        <4>2. \A k \in 1..Len(q) : \A j \in Calls!Calls :
                q[k] = j => /\ Calls!Program'[j].kind = "stream"
                            /\ Calls!Program'[j].on = s /\ Issued(j)'
          BY <1>2, <2>1, <3>2 DEF CallQueues
        <4>3. \A k, l \in 1..Len(q) : k < l => q[k] < q[l]
          BY DEF CallQueues
        <4>4. \A k, l \in 1..Len(q) - 1 : k < l => q[k + 1] < q[l + 1]
          BY <2>3, <4>3
        <4> QED
          BY <2>3, <4>1, <4>2, <4>4
      <3> QED
        BY <3>1, <3>2
    <2>5. DOMAIN stream' = DOMAIN stream
      BY <2>2
    <2> QED
      BY <1>1, <2>4, <2>5 DEF CallQueues
  <1> QED
    BY <1>3, <1>4, <1>5 DEF Calls!Next, Calls!Progress, Calls!HostAccess, Calls!HostWaits,
                            Calls!ApiFails, Calls!machine

\* A step keeps first-come-first-served.
LEMMA OrderKept ==
  ASSUME AllOrdered, Calls!TypeOK, CallQueues, FirstComesFirst, [Calls!Next]_Calls!machine
  PROVE  FirstComesFirst'
  <1>1. Calls!Program' = Calls!Program /\ Calls!Calls' = Calls!Calls
    BY SampleKept
  <1>2. SUFFICES ASSUME NEW i \in Calls!Calls, NEW j \in 1..i - 1,
                        SameStream(i, j), Issued(i)', Calls!InQueue(j)'
                 PROVE  Calls!InQueue(i)'
    BY <1>1 DEF FirstComesFirst, SameStream
  <1>3. j \in Calls!Calls /\ j < i /\ i \in Nat /\ j \in Nat
    BY LengthPositive DEF Calls!Calls
  <1>4. Issued(i) /\ Calls!InQueue(j) => Calls!InQueue(i)
    BY <1>2 DEF FirstComesFirst
  <1>5. CASE Calls!GiveToStream
    <2>1. Issued(i) \/ i = main.at
      BY <1>2, <1>5, NextCallMoves DEF Calls!GiveToStream
    <2>2. Calls!InQueue(j) \/ j = main.at
      BY <1>2, <1>3, <1>5, Queued
    <2>3. Issued(i) => i < main.at
      BY <1>5 DEF Issued, Calls!GiveToStream, Calls!Running
    <2>4. main.at \in Nat
      BY LengthPositive DEF Calls!TypeOK, Calls!Calls
    <2> QED
      BY <1>3, <1>4, <1>5, <2>1, <2>2, <2>3, <2>4, Queued
  <1>6. ASSUME NEW s \in DOMAIN stream, Calls!StreamRuns(s)
        PROVE  Calls!InQueue(i)'
    <2> DEFINE h == Head(stream[s])
    <2>1. Issued(i)
      BY <1>2, <1>6, IssuedKept DEF Calls!StreamRuns
    <2>2. Calls!InQueue(j)
      BY <1>3, <1>2, <1>6, Unqueued
    <2>3. i # h
      <3> SUFFICES ASSUME i = h PROVE FALSE
        OBVIOUS
      <3>1. j \in Calls!Enforced(Calls!Program, i)
        BY <1>2 DEF Calls!Enforced, SameStream
      <3>2. Done(j)
        BY <1>6, <3>1, StreamReady DEF Calls!StreamRuns, Ready
      <3> QED
        BY <2>2, <3>2 DEF Done
    <2> QED
      BY <1>4, <1>6, <2>1, <2>2, <2>3, Unqueued
  <1>7. CASE Calls!HostAccess \/ Calls!HostWaits
    <2>1. Issued(i) \/ i = main.at
      BY <1>2, <1>7, NextCallMoves DEF Calls!HostAccess, Calls!HostWaits
    <2>2. i # main.at
      BY <1>2, <1>7 DEF Calls!HostAccess, Calls!HostWaits, SameStream
    <2> QED
      BY <1>1, <1>2, <1>4, <1>7, <2>1, <2>2
         DEF Calls!InQueue, Calls!Pending, Calls!HostAccess, Calls!HostWaits
  <1>8. CASE Calls!ApiFails \/ UNCHANGED Calls!machine
    <2>1. Issued(i)
      BY <1>2, <1>8, IssuedKept DEF Calls!ApiFails, Calls!machine
    <2> QED
      BY <1>1, <1>2, <1>4, <1>8, <2>1 DEF Calls!InQueue, Calls!Pending, Calls!ApiFails,
                                          Calls!machine
  <1> QED
    BY <1>5, <1>6, <1>7, <1>8 DEF Calls!Next, Calls!Progress
-------------------------------------------------------------------------------
\* What precedes a call does so directly or through another.
LEMMA OrderFacts ==
  ASSUME AllOrdered, Calls!TypeOK
  PROVE  /\ \A i \in Calls!Calls : CallsBefore[i] \subseteq Calls!Calls
         /\ \A i \in Calls!Calls : \A j \in CallsBefore[i] :
              \/ j \in Calls!Enforced(Calls!Program, i)
              \/ \E k \in Calls!Enforced(Calls!Program, i) : j \in CallsBefore[k]
  BY ProgramOrdered DEF Calls!WellOrdered, Calls!IsOrderOf, Calls!Calls

\* All that precedes a call that is ready is done.
LEMMA BeforeReady ==
  ASSUME AllOrdered, Calls!TypeOK, Closed, NEW i \in Calls!Calls, Ready(i)
  PROVE  \A j \in CallsBefore[i] : Done(j)
  <1> TAKE j \in CallsBefore[i]
  <1>1. CASE j \in Calls!Enforced(Calls!Program, i)
    BY <1>1 DEF Ready
  <1>2. ASSUME NEW k \in Calls!Enforced(Calls!Program, i), j \in CallsBefore[k]
        PROVE  Done(j)
    <2>1. k \in Calls!Calls
      BY LengthPositive DEF Calls!Enforced, Calls!Calls
    <2> QED
      BY <1>2, <2>1 DEF Ready, Closed
  <1> QED
    BY <1>1, <1>2, OrderFacts

\* A step keeps what is done closed: a call takes effect after what precedes it.
LEMMA ClosedKept ==
  ASSUME AllOrdered, Calls!TypeOK, CallQueues, Closed, [Calls!Next]_Calls!machine
  PROVE  Closed'
  <1>1. CallsBefore' = CallsBefore /\ Calls!Calls' = Calls!Calls
    BY SampleKept
  <1>2. CASE \A j \in Calls!Calls : Done(j)' <=> Done(j)
    BY <1>1, <1>2, OrderFacts DEF Closed
  <1>3. ASSUME NEW i \in Calls!Calls, Takes(i)
        PROVE  Closed'
    <2>1. \A j \in CallsBefore[i] : Done(j)
      BY <1>3, BeforeReady DEF Takes
    <2> QED
      BY <1>1, <1>3, <2>1, OrderFacts DEF Closed, Takes
  <1> QED
    BY <1>2, <1>3, StepEffect

\* Of two calls that store in one buffer, or of which one stores what the other
\* touches, the second has not taken effect unless the first has.
LEMMA ConflictsInOrder ==
  ASSUME AllOrdered, Calls!TypeOK, NEW i \in Calls!Calls, NEW j \in Calls!Calls, j < i, NEW b,
         \/ b \in Calls!Program[j].writes /\ b \in Calls!Touched(Calls!Program, i)
         \/ b \in Calls!Touched(Calls!Program, j) /\ b \in Calls!Program[i].writes
  PROVE  j \in CallsBefore[i]
  <1>1. j \in 1..i - 1 /\ i \in 1..Len(Calls!Program)
    BY LengthPositive DEF Calls!Calls
  <1>2. \/ Calls!Program[j].writes \cap Calls!Touched(Calls!Program, i) # {}
        \/ Calls!Touched(Calls!Program, j) \cap Calls!Program[i].writes # {}
    OBVIOUS
  <1> QED
    BY <1>1, <1>2, ProgramOrdered DEF Calls!WellOrdered, Calls!OrdersConflicts

\* A step keeps the latest store: no store is made after a later one.
LEMMA LatestKept ==
  ASSUME AllOrdered, Calls!TypeOK, CallQueues, Closed, Latest, [Calls!Next]_Calls!machine
  PROVE  Latest'
  <1>1. Calls!Program' = Calls!Program /\ Calls!Calls' = Calls!Calls
    BY SampleKept
  <1>2. CASE res' = res /\ \A j \in Calls!Calls : Done(j)' <=> Done(j)
    BY <1>1, <1>2 DEF Latest, Calls!TypeOK
  <1>3. ASSUME NEW i \in Calls!Calls, Takes(i)
        PROVE  Latest'
    <2>1. DOMAIN res' = DOMAIN res
      BY <1>3 DEF Takes, Calls!Stored
    <2>2. ASSUME NEW b \in DOMAIN res, b \in Calls!Program[i].writes
          PROVE  /\ \A j \in Calls!Calls :
                      Done(j)' /\ b \in Calls!Program[j].writes => j <= res'[b]
                 /\ \A j \in Calls!Calls :
                      res'[b] = j => Done(j)' /\ b \in Calls!Program[j].writes
      <3>1. res'[b] = i
        BY <1>3, <2>2 DEF Takes, Calls!Stored
      <3>2. ASSUME NEW j \in Calls!Calls, Done(j)', b \in Calls!Program[j].writes
            PROVE  ~ (i < j)
        <4> SUFFICES ASSUME i < j PROVE FALSE
          OBVIOUS
        <4>1. Done(j)
          BY <1>3, <3>2, LengthPositive DEF Takes, Calls!Calls
        <4>2. i \in CallsBefore[j]
          BY <2>2, <3>2, ConflictsInOrder DEF Calls!Touched
        <4> QED
          BY <1>3, <4>1, <4>2 DEF Closed, Takes
      <3>3. \A j \in Calls!Calls : ~ (i < j) => j <= i
        BY LengthPositive DEF Calls!Calls
      <3> QED
        BY <1>3, <2>2, <3>1, <3>2, <3>3 DEF Takes
    <2>3. ASSUME NEW b \in DOMAIN res, b \notin Calls!Program[i].writes
          PROVE  /\ \A j \in Calls!Calls :
                      Done(j)' /\ b \in Calls!Program[j].writes => j <= res'[b]
                 /\ \A j \in Calls!Calls :
                      res'[b] = j => Done(j)' /\ b \in Calls!Program[j].writes
      <3>1. res'[b] = res[b]
        BY <1>3, <2>3 DEF Takes, Calls!Stored
      <3> QED
        BY <1>3, <2>3, <3>1 DEF Takes, Latest
    <2> QED
      BY <1>1, <2>1, <2>2, <2>3 DEF Latest
  <1> QED
    BY <1>2, <1>3, StepEffect
-------------------------------------------------------------------------------
\* The invariant holds initially.
LEMMA CallsInit ==
  ASSUME AllOrdered, Calls!Init
  PROVE  CallsInv
  <1>1. PICK p \in DOMAIN Programs :
          /\ main = [sample |-> p, at |-> 1, exit |-> "none"]
          /\ stream = [s \in Calls!Streams(Programs[p]) |-> << >>]
          /\ res = [b \in Calls!Buffers(Programs[p]) |-> 0]
    BY DEF Calls!Init
  <1>2. Calls!Program = Programs[p]
    BY <1>1 DEF Calls!Program
  <1>3. Len(Calls!Program) \in Nat \ {0}
    BY <1>2 DEF AllOrdered, OrderedPrograms, Calls!WellOrdered, Calls!IsProgram
  <1>4. Calls!TypeOK
    BY <1>1, <1>2, <1>3 DEF Calls!TypeOK, Calls!Calls
  <1>5. \A j \in Calls!Calls : ~ Issued(j)
    BY <1>1, <1>3 DEF Issued, Calls!Calls
  <1>6. \A s \in DOMAIN stream : stream[s] = << >>
    BY <1>1
  <1>7. CallQueues /\ FirstComesFirst
    BY <1>5, <1>6 DEF CallQueues, FirstComesFirst
  <1>8. Closed
    BY <1>5 DEF Closed, Done
  <1>9. Latest
    BY <1>1, <1>3, <1>5 DEF Latest, Done, Calls!Calls
  <1> QED
    BY <1>4, <1>7, <1>8, <1>9 DEF CallsInv

\* Every step keeps the invariant.
LEMMA CallsStep ==
  ASSUME AllOrdered, CallsInv, [Calls!Next]_Calls!machine
  PROVE  CallsInv'
  BY TypeKept, QueuesKept, OrderKept, ClosedKept, LatestKept DEF CallsInv
-------------------------------------------------------------------------------
\* A call touches buffers of the program.
LEMMA TouchedBuffers ==
  ASSUME Calls!TypeOK, NEW i \in Calls!Calls
  PROVE  /\ Calls!Touched(Calls!Program, i) \subseteq DOMAIN res
         /\ Calls!Program[i].reads \subseteq DOMAIN res
         /\ Calls!Program[i].writes \subseteq DOMAIN res
  BY DEF Calls!TypeOK, Calls!Touched, Calls!Buffers, Calls!Calls

\* The stores a call due for buffer b comes after are done, those after it are not.
LEMMA StoresAround ==
  ASSUME AllOrdered, CallsInv, NEW i \in Calls!Due, NEW b \in Calls!Touched(Calls!Program, i),
         NEW j \in Calls!Calls, b \in Calls!Program[j].writes
  PROVE  /\ j < i => Done(j)
         /\ Done(j) => j < i
  <1>1. i \in Calls!Calls /\ ~ Done(i) /\ \A k \in CallsBefore[i] : Done(k)
    BY DueReady, BeforeReady DEF CallsInv
  <1>2. j < i => Done(j)
    BY <1>1, ConflictsInOrder DEF CallsInv
  <1>3. i < j => ~ Done(j)
    BY <1>1, ConflictsInOrder DEF CallsInv, Closed
  <1> QED
    BY <1>1, <1>2, <1>3, LengthPositive DEF Calls!Calls, CallsInv

\* The invariant gives every call what program order would.
LEMMA AccessesSerial ==
  ASSUME AllOrdered, CallsInv
  PROVE  Calls!SerialAccess
  <1> SUFFICES ASSUME NEW i \in Calls!Due, NEW b \in Calls!Touched(Calls!Program, i)
               PROVE  res[b] = Calls!InOrder(Calls!Program, i, b)
    BY DEF Calls!SerialAccess
  <1> DEFINE stores == { j \in 1..i - 1 : b \in Calls!Program[j].writes }
  <1>1. /\ i \in Calls!Calls /\ Calls!Calls \in SUBSET Nat
        /\ Calls!Calls = 1..Len(Calls!Program) /\ Len(Calls!Program) \in Nat
    BY DueReady, LengthPositive DEF CallsInv, Calls!Calls
  <1>2. b \in DOMAIN res /\ res[b] \in Calls!Calls \cup {0}
    BY <1>1, TouchedBuffers DEF CallsInv, Calls!TypeOK
  <1>3. \A j \in stores : j \in Calls!Calls /\ j <= res[b] /\ j # 0
    <2> TAKE j \in stores
    <2>1. j \in Calls!Calls /\ j < i /\ j # 0
      BY <1>1
    <2>2. Done(j)
      BY <2>1, StoresAround
    <2> QED
      BY <1>2, <2>1, <2>2 DEF CallsInv, Latest
  <1>4. res[b] # 0 => res[b] \in stores
    <2> SUFFICES ASSUME res[b] # 0
                 PROVE  res[b] \in stores
      OBVIOUS
    <2>1. PICK j \in Calls!Calls : res[b] = j
      BY <1>2
    <2>2. Done(j) /\ b \in Calls!Program[j].writes
      BY <1>2, <2>1 DEF CallsInv, Latest
    <2>3. j < i
      BY <2>2, StoresAround
    <2> QED
      BY <1>1, <2>1, <2>2, <2>3
  <1>5. CASE stores = {}
    BY <1>4, <1>5 DEF Calls!InOrder
  <1>6. CASE stores # {}
    <2>1. res[b] \in stores
      BY <1>2, <1>3, <1>4, <1>6
    <2>2. \A j \in stores : (\A k \in stores : k <= j) => j = res[b]
      BY <1>1, <1>3, <2>1
    <2>3. \E j \in stores : \A k \in stores : k <= j
      BY <1>3, <2>1
    <2>4. (CHOOSE j \in stores : \A k \in stores : k <= j) = res[b]
      BY <2>2, <2>3
    <2> QED
      BY <1>6, <2>4 DEF Calls!InOrder
  <1> QED
    BY <1>5, <1>6

\* The invariant keeps calls from reading what holds no value.
LEMMA ReadsStored ==
  ASSUME AllOrdered, CallsInv
  PROVE  Calls!NoGarbageRead
  <1> SUFFICES ASSUME NEW i \in Calls!Due, ~ Calls!Program[i].clear,
                      NEW b \in Calls!Program[i].reads
               PROVE  res[b] # 0 /\ ~ Calls!Program[res[b]].clear
    BY DEF Calls!NoGarbageRead
  <1>1. /\ i \in Calls!Calls /\ ~ Done(i) /\ CallsBefore[i] \subseteq Calls!Calls
        /\ \A j \in CallsBefore[i] : Done(j)
    BY DueReady, BeforeReady, OrderFacts DEF CallsInv
  <1>2. /\ \E j \in CallsBefore[i] : Calls!Stores(Calls!Program, j, b)
        /\ \A c \in Calls!Calls : Calls!Clears(Calls!Program, c, b) =>
             \/ i \in CallsBefore[c]
             \/ \E j \in CallsBefore[i] : j > c /\ Calls!Stores(Calls!Program, j, b)
    BY <1>1, ProgramOrdered DEF CallsInv, Calls!WellOrdered, Calls!OrdersReads,
                                Calls!Calls
  <1>3. /\ b \in DOMAIN res /\ res[b] \in Calls!Calls \cup {0}
        /\ Calls!Calls \in SUBSET Nat /\ 0 \notin Calls!Calls
    BY <1>1, TouchedBuffers, LengthPositive DEF CallsInv, Calls!TypeOK, Calls!Calls
  <1>4. \A j \in CallsBefore[i] :
          Calls!Stores(Calls!Program, j, b) => j \in Calls!Calls /\ j <= res[b]
    BY <1>1, <1>3 DEF CallsInv, Latest, Calls!Stores
  <1>5. res[b] # 0
    BY <1>2, <1>3, <1>4
  <1>6. PICK c \in Calls!Calls : res[b] = c
    BY <1>3, <1>5
  <1>7. Done(c) /\ b \in Calls!Program[c].writes
    BY <1>3, <1>6 DEF CallsInv, Latest
  <1>8. ~ Calls!Clears(Calls!Program, c, b)
    <2> SUFFICES ASSUME Calls!Clears(Calls!Program, c, b) PROVE FALSE
      OBVIOUS
    <2>1. i \notin CallsBefore[c]
      BY <1>1, <1>7 DEF CallsInv, Closed
    <2>2. PICK j \in CallsBefore[i] : j > c /\ Calls!Stores(Calls!Program, j, b)
      BY <1>2, <2>1
    <2>3. j \in Calls!Calls /\ j <= c
      BY <1>4, <1>6, <2>2
    <2> QED
      BY <1>3, <2>2, <2>3
  <1> QED
    BY <1>5, <1>6, <1>7, <1>8 DEF Calls!Clears

\* The invariant leaves the streams empty in the end.
LEMMA StreamsEmptyAtEnd ==
  ASSUME AllOrdered, CallsInv
  PROVE  Calls!EndsQuiescent
  <1> SUFFICES ASSUME main.exit = "finished", NEW s \in DOMAIN stream, stream[s] # << >>
               PROVE  FALSE
    BY DEF Calls!EndsQuiescent
  <1>1. stream[s] \in Seq(Calls!Calls)
    BY QueuesNumbered DEF CallsInv
  <1>2. PICK j \in Calls!Calls : stream[s][1] = j /\ 1 \in 1..Len(stream[s])
    BY <1>1
  <1>3. Calls!Program[j].kind = "stream" /\ Calls!Program[j].on = s
    BY <1>2 DEF CallsInv, CallQueues
  <1>4. Calls!InQueue(j)
    BY <1>2, <1>3 DEF Calls!InQueue, Calls!Pending
  <1>5. PICK i \in Calls!Calls : Calls!Program[i].kind # "stream" /\ j \in CallsBefore[i]
    BY <1>3, ProgramOrdered DEF CallsInv, Calls!WellOrdered, Calls!OrdersEnd, Calls!Calls
  <1>6. Done(i)
    BY <1>5 DEF Done, Issued, Calls!InQueue
  <1>7. Done(j)
    BY <1>5, <1>6 DEF CallsInv, Closed
  <1> QED
    BY <1>4, <1>7 DEF Done

\* What the invariant says of every state.
LEMMA CallsConclusions ==
  ASSUME AllOrdered, CallsInv
  PROVE  Calls!TypeOK /\ Calls!SerialAccess /\ Calls!NoGarbageRead /\ Calls!EndsQuiescent
  BY AccessesSerial, ReadsStored, StreamsEmptyAtEnd DEF CallsInv
-------------------------------------------------------------------------------
(* HostPrograms                                                            *)

CtxThms == INSTANCE CtxManagementProofs WITH NumThreads <- NumWorkers

HostInv ==
  /\ sample = "ctx_management"    => CtxThms!IInv
  /\ sample = "multi_device_mmap" => MmapInv
  /\ sample = "managed_streams"   => ManagedInv
  /\ sample = "stream_program" /\ AllOrdered => CallsInv
  /\ sample = "device_choice"     => ChoiceInv
  /\ sample = "sliced_dispatch"   => SlicesInv
  /\ sample = "hg_jpeg"           => BatchesInv

\* The machine of CtxManagementProofs is that of HostPrograms.
LEMMA SameContexts ==
  /\ Contexts!SizesAssumption <=> CtxThms!SizesAssumption
  /\ Contexts!Init <=> CtxThms!Init
  /\ [Contexts!Next]_Contexts!machine <=> [CtxThms!Next]_CtxThms!machine
  /\ Contexts!TypeOK <=> CtxThms!TypeOK
  /\ Contexts!ContextsOutliveTheirUse <=> CtxThms!ContextsOutliveTheirUse
  /\ Contexts!KernelsOwnTheirBlock <=> CtxThms!KernelsOwnTheirBlock
  /\ Contexts!ResultReflectsThreads <=> CtxThms!ResultReflectsThreads
  BY DEF Contexts!machine, Contexts!Running, Contexts!Enqueued, Contexts!Popped,
         Contexts!Pending, Contexts!SizesAssumption, Contexts!Ctx, Contexts!Thread,
         Contexts!Main, Contexts!Block, Contexts!CtxOf, Contexts!Free, Contexts!Garbage,
         Contexts!Init, Contexts!Goto, Contexts!At, Contexts!Available,
         Contexts!PushCurrent, Contexts!PushRefused, Contexts!MemAlloc,
         Contexts!LaunchKernel, Contexts!Own, Contexts!ReadBack, Contexts!MemFree,
         Contexts!PopCurrent, Contexts!Count, Contexts!Worker, Contexts!FillKernel,
         Contexts!Step, Contexts!CreateContext, Contexts!StartThread, Contexts!JoinThread,
         Contexts!DestroyContext, Contexts!Report, Contexts!ApiFails, Contexts!MainStep,
         Contexts!Progress, Contexts!Next, Contexts!Stages, Contexts!TypeOK,
         Contexts!ContextsOutliveTheirUse, Contexts!KernelsOwnTheirBlock,
         Contexts!ResultReflectsThreads, CtxThms!machine, CtxThms!Running,
         CtxThms!Enqueued, CtxThms!Popped, CtxThms!Pending, CtxThms!SizesAssumption,
         CtxThms!Ctx, CtxThms!Thread, CtxThms!Main, CtxThms!Block, CtxThms!CtxOf,
         CtxThms!Free, CtxThms!Garbage, CtxThms!Init, CtxThms!Goto, CtxThms!At,
         CtxThms!Available, CtxThms!PushCurrent, CtxThms!PushRefused, CtxThms!MemAlloc,
         CtxThms!LaunchKernel, CtxThms!Own, CtxThms!ReadBack, CtxThms!MemFree,
         CtxThms!PopCurrent, CtxThms!Count, CtxThms!Worker, CtxThms!FillKernel,
         CtxThms!Step, CtxThms!CreateContext, CtxThms!StartThread, CtxThms!JoinThread,
         CtxThms!DestroyContext, CtxThms!Report, CtxThms!ApiFails, CtxThms!MainStep,
         CtxThms!Progress, CtxThms!Next, CtxThms!Stages, CtxThms!TypeOK,
         CtxThms!ContextsOutliveTheirUse, CtxThms!KernelsOwnTheirBlock,
         CtxThms!ResultReflectsThreads

\* The machine that runs has its invariant at first.
LEMMA HostInit == ASSUME Init PROVE HostInv
  <1>1. ASSUME sample = "ctx_management", Contexts!Init PROVE HostInv
    <2>1. CtxThms!IInv
      BY <1>1, SameContexts, HostAssumption, CtxThms!InitInvariant
    <2> QED BY <1>1, <2>1 DEF HostInv
  <1>2. ASSUME sample = "multi_device_mmap", Mmap!Init PROVE HostInv
    <2>1. MmapInv
      BY <1>2, HostAssumption, MmapInit
    <2> QED BY <1>2, <2>1 DEF HostInv
  <1>3. ASSUME sample = "managed_streams", Managed!Init PROVE HostInv
    <2>1. ManagedInv
      BY <1>3, HostAssumption, ManagedInit
    <2> QED BY <1>3, <2>1 DEF HostInv
  <1>4. ASSUME sample = "stream_program", Calls!Init PROVE HostInv
    <2>1. AllOrdered => CallsInv
      BY <1>4, CallsInit
    <2> QED BY <1>4, <2>1 DEF HostInv
  <1>5. ASSUME sample = "device_choice", Choice!Init PROVE HostInv
    <2>1. ChoiceInv
      BY <1>5, HostAssumption, ChoiceInit
    <2> QED BY <1>5, <2>1 DEF HostInv
  <1>6. ASSUME sample = "sliced_dispatch", Slices!Init PROVE HostInv
    <2>1. SlicesInv
      BY <1>6, HostAssumption, SlicesInit
    <2> QED BY <1>6, <2>1 DEF HostInv
  <1>7. ASSUME sample = "hg_jpeg", Batches!Init PROVE HostInv
    <2>1. BatchesInv
      BY <1>7, HostAssumption, BatchesInit
    <2> QED BY <1>7, <2>1 DEF HostInv
  <1> QED BY <1>1, <1>2, <1>3, <1>4, <1>5, <1>6, <1>7 DEF Init

\* A step is one of the machine that runs, or changes nothing.
LEMMA HostMoves ==
  ASSUME [Next]_vars
  PROVE  /\ sample' = sample
         /\ sample = "ctx_management"    => [Contexts!Next]_Contexts!machine
         /\ sample = "multi_device_mmap" => [Mmap!Next]_Mmap!machine
         /\ sample = "managed_streams"   => [Managed!Next]_Managed!machine
         /\ sample = "stream_program"    => [Calls!Next]_Calls!machine
         /\ sample = "device_choice"     => [Choice!Next]_Choice!choice
         /\ sample = "sliced_dispatch"   => [Slices!Next]_Slices!machine
         /\ sample = "hg_jpeg"           => [Batches!Next]_Batches!machine
  <1>1. CASE Next
    BY <1>1 DEF Next
  <1>2. CASE UNCHANGED vars
    BY <1>2 DEF vars, Contexts!machine, Mmap!machine, Managed!machine, Calls!machine,
                Choice!choice, Slices!machine, Batches!machine
  <1> QED BY <1>1, <1>2

\* Every step keeps the invariant.
LEMMA HostStep == ASSUME HostInv, [Next]_vars PROVE HostInv'
  <1>1. sample' = sample
    BY HostMoves
  <1>2. ASSUME sample = "ctx_management" PROVE CtxThms!IInv'
    <2>1. CtxThms!SizesAssumption /\ CtxThms!IInv /\ [CtxThms!Next]_CtxThms!machine
      BY <1>2, HostMoves, SameContexts, HostAssumption DEF HostInv
    <2> QED BY <2>1, CtxThms!StepInvariant
  <1>3. ASSUME sample = "multi_device_mmap" PROVE MmapInv'
    BY <1>3, HostMoves, HostAssumption, MmapStep DEF HostInv
  <1>4. ASSUME sample = "managed_streams" PROVE ManagedInv'
    BY <1>4, HostMoves, HostAssumption, ManagedStep DEF HostInv
  <1>5. ASSUME sample = "stream_program", AllOrdered PROVE CallsInv'
    BY <1>5, HostMoves, CallsStep DEF HostInv
  <1>6. ASSUME sample = "device_choice" PROVE ChoiceInv'
    BY <1>6, HostMoves, HostAssumption, ChoiceStep DEF HostInv
  <1>7. ASSUME sample = "sliced_dispatch" PROVE SlicesInv'
    BY <1>7, HostMoves, HostAssumption, SlicesStep DEF HostInv
  <1>8. ASSUME sample = "hg_jpeg" PROVE BatchesInv'
    BY <1>8, HostMoves, HostAssumption, BatchesStep DEF HostInv
  <1>9. AllOrdered' <=> AllOrdered
    BY DEF AllOrdered, OrderedPrograms
  <1> QED BY <1>1, <1>2, <1>3, <1>4, <1>5, <1>6, <1>7, <1>8, <1>9 DEF HostInv

\* The machine that runs keeps its invariant.
THEOREM HostInvariance == Spec => []HostInv
  <1>1. Init => HostInv
    BY HostInit
  <1>2. HostInv /\ [Next]_vars => HostInv'
    BY HostStep
  <1> QED BY <1>1, <1>2, PTL DEF Spec

\* What the invariants of the machines say.
LEMMA HostConclusions ==
  ASSUME HostInv
  PROVE  /\ sample = "ctx_management" =>
              /\ Contexts!TypeOK /\ Contexts!ContextsOutliveTheirUse
              /\ Contexts!KernelsOwnTheirBlock /\ Contexts!ResultReflectsThreads
         /\ sample = "multi_device_mmap" =>
              Mmap!TypeOK /\ Mmap!BuffersWhole /\ Mmap!NothingLeaks
         /\ sample = "managed_streams" =>
              /\ Managed!TypeOK /\ Managed!NoForeignAccess
              /\ Managed!ResourcesOutliveWork /\ Managed!SuccessMeansComputed
         /\ sample = "stream_program" /\ AllOrdered =>
              Calls!TypeOK /\ Calls!SerialAccess /\ Calls!NoGarbageRead /\ Calls!EndsQuiescent
         /\ sample = "device_choice" =>
              Choice!TypeOK /\ Choice!BestAllowedDevice /\ Choice!ModuleFitsDevice
         /\ sample = "sliced_dispatch" =>
              /\ Slices!TypeOK /\ Slices!NoForeignAccess
              /\ Slices!SuccessIsEarned /\ Slices!NothingLeaks
         /\ sample = "hg_jpeg" =>
              /\ Batches!TypeOK /\ Batches!ImagesFit
              /\ Batches!EveryImageDone /\ Batches!NothingLeaks
  <1>1. ASSUME sample = "ctx_management"
        PROVE  /\ Contexts!TypeOK /\ Contexts!ContextsOutliveTheirUse
               /\ Contexts!KernelsOwnTheirBlock /\ Contexts!ResultReflectsThreads
    <2>1. CtxThms!SizesAssumption /\ CtxThms!IInv
      BY <1>1, SameContexts, HostAssumption DEF HostInv
    <2> QED BY <2>1, CtxThms!Conclusions, SameContexts
  <1>2. ASSUME sample = "multi_device_mmap"
        PROVE  Mmap!TypeOK /\ Mmap!BuffersWhole /\ Mmap!NothingLeaks
    BY <1>2, HostAssumption, MmapConclusions DEF HostInv
  <1>3. ASSUME sample = "managed_streams"
        PROVE  /\ Managed!TypeOK /\ Managed!NoForeignAccess
               /\ Managed!ResourcesOutliveWork /\ Managed!SuccessMeansComputed
    BY <1>3, HostAssumption, ManagedConclusions DEF HostInv
  <1>4. ASSUME sample = "stream_program", AllOrdered
        PROVE  Calls!TypeOK /\ Calls!SerialAccess /\ Calls!NoGarbageRead /\ Calls!EndsQuiescent
    BY <1>4, CallsConclusions DEF HostInv
  <1>5. ASSUME sample = "device_choice"
        PROVE  Choice!TypeOK /\ Choice!BestAllowedDevice /\ Choice!ModuleFitsDevice
    BY <1>5, HostAssumption, ChoiceConclusions DEF HostInv
  <1>6. ASSUME sample = "sliced_dispatch"
        PROVE  /\ Slices!TypeOK /\ Slices!NoForeignAccess
               /\ Slices!SuccessIsEarned /\ Slices!NothingLeaks
    BY <1>6, HostAssumption, SlicesConclusions DEF HostInv
  <1>7. ASSUME sample = "hg_jpeg"
        PROVE  /\ Batches!TypeOK /\ Batches!ImagesFit
               /\ Batches!EveryImageDone /\ Batches!NothingLeaks
    BY <1>7, HostAssumption, BatchesConclusions DEF HostInv
  <1> QED BY <1>1, <1>2, <1>3, <1>4, <1>5, <1>6, <1>7
-------------------------------------------------------------------------------
\* The state of the machine that runs keeps its type, if the programs of
\* StreamProgram enforce the order that their calls rely on.
THEOREM TypeCorrect == AllOrdered => (Spec => []TypeOK)
  <1> SUFFICES ASSUME AllOrdered PROVE Spec => []TypeOK
    OBVIOUS
  <1>1. HostInv => TypeOK
    <2> SUFFICES ASSUME HostInv PROVE TypeOK
      OBVIOUS
    <2>1. sample = "stream_program" => main.sample \in DOMAIN Programs
      BY HostConclusions DEF Calls!TypeOK
    <2> QED BY <2>1, HostConclusions DEF TypeOK, AllOrdered
  <1> QED BY <1>1, HostInvariance, PTL

\* However many threads share the contexts of ctx_management, or the tasks of
\* unified_memory_models, none finds its context, its memory or its stream gone.
THEOREM ResourcesOutlive == Spec => []ResourcesOutliveTheirUse
  <1>1. HostInv => ResourcesOutliveTheirUse
    BY HostConclusions DEF ResourcesOutliveTheirUse
  <1> QED BY <1>1, HostInvariance, PTL

\* In no interleaving does a worker, a kernel or a task touch what is another's, and
\* no image passes its buffer in a batch of one size.
THEOREM AccessIsOwn == Spec => []NoForeignAccess
  <1>1. HostInv => NoForeignAccess
    BY HostConclusions DEF NoForeignAccess
  <1> QED BY <1>1, HostInvariance, PTL

\* Success is reported only of work that is all done: every thread, task, element
\* and image.
THEOREM SuccessMeansDone == Spec => []SuccessIsEarned
  <1>1. HostInv => SuccessIsEarned
    BY HostConclusions DEF SuccessIsEarned
  <1> QED BY <1>1, HostInvariance, PTL

\* However many devices back the buffers of multi_device_mmap and whatever their
\* granularities, a buffer in use is mapped from end to end.
THEOREM BuffersAreWhole == Spec => []BuffersWhole
  <1>1. HostInv => BuffersWhole
    BY HostConclusions DEF BuffersWhole
  <1> QED BY <1>1, HostInvariance, PTL

\* multi_device_mmap, the samples that slice by device and the JPEG samples give back
\* what they took.
THEOREM AllIsFreed == Spec => []NothingLeaks
  <1>1. HostInv => NothingLeaks
    BY HostConclusions DEF NothingLeaks
  <1> QED BY <1>1, HostInvariance, PTL

\* Of programs that enforce their order: whatever order the streams run in, a call
\* finds its buffers as if the calls ran one after the other.
THEOREM AccessIsSerial == AllOrdered => (Spec => []SerialAccess)
  <1> SUFFICES ASSUME AllOrdered PROVE Spec => []SerialAccess
    OBVIOUS
  <1>1. HostInv => SerialAccess
    BY HostConclusions DEF SerialAccess
  <1> QED BY <1>1, HostInvariance, PTL

\* Of programs that enforce their order: no call reads what was never stored, or was
\* freed.
THEOREM NoGarbageIsRead == AllOrdered => (Spec => []NoGarbageRead)
  <1> SUFFICES ASSUME AllOrdered PROVE Spec => []NoGarbageRead
    OBVIOUS
  <1>1. HostInv => NoGarbageRead
    BY HostConclusions DEF NoGarbageRead
  <1> QED BY <1>1, HostInvariance, PTL

\* Of programs that enforce their order: no stream has work left when main returns.
THEOREM QuiescentAtEnd == AllOrdered => (Spec => []EndsQuiescent)
  <1> SUFFICES ASSUME AllOrdered PROVE Spec => []EndsQuiescent
    OBVIOUS
  <1>1. HostInv => EndsQuiescent
    BY HostConclusions DEF EndsQuiescent
  <1> QED BY <1>1, HostInvariance, PTL

\* Whatever the line and the devices, the device is the one asked for, or the first
\* of the best that may be used.
THEOREM DeviceIsBest == Spec => []BestAllowedDevice
  <1>1. HostInv => BestAllowedDevice
    BY HostConclusions DEF BestAllowedDevice
  <1> QED BY <1>1, HostInvariance, PTL

\* A module is loaded on the device that it was compiled for.
THEOREM ModuleFits == Spec => []ModuleFitsDevice
  <1>1. HostInv => ModuleFitsDevice
    BY HostConclusions DEF ModuleFitsDevice
  <1> QED BY <1>1, HostInvariance, PTL
===============================================================================
