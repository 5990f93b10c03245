-------------------------- MODULE CtxManagementProofs --------------------------
(***************************************************************************)
(* Theorems about ctx_management.cpp for any number of contexts and of     *)
(* worker threads that share them, whether or not a push of a context that *)
(* is held elsewhere waits: contexts outlive their use, a kernel finds its *)
(* own block, and the exit status tells whether every thread got its       *)
(* context.                                                                *)
(***************************************************************************)
EXTENDS CtxManagement, FiniteSetTheorems, SequenceTheorems, TLAPS

\* Where a thread has pushed its context, and where it has a block in it.
Pushed == {"alloc", "launch", "sync", "free", "pop"}
Owning == {"launch", "sync", "free"}

InSeq(x, seq) == \E i \in 1..Len(seq) : seq[i] = x

Typed ==
  /\ main \in [pc : {"create", "start", "join", "destroy", "report"}, at : Nat,
               exit : {"none", "success", "failure", "error"}, passed : Nat,
               exclusive : BOOLEAN, refused : SUBSET Thread]
  /\ thread \in [Thread -> [pc : Stages, block : Block \cup {0}, pass : BOOLEAN]]
  /\ stream \in [Ctx -> Seq(Thread)]
  /\ res \in [ctx : [Ctx -> {"none", "alive", "destroyed"}],
              holds : SUBSET ((Thread \cup {Main}) \X Ctx),
              memory : [Ctx -> [Block -> Thread \cup {Free, Garbage}]]]

\* What main has done: no thread runs before all contexts are alive, nor after
\* the first is destroyed.
Phase ==
  /\ main.pc = "create" => /\ main.at \in Ctx
                           /\ \A t \in Thread : thread[t].pc = "unborn"
                           /\ \A c \in Ctx : c < main.at => res.ctx[c] = "alive"
  /\ main.pc \in {"start", "join"} => /\ main.at \in Thread
                                      /\ \A c \in Ctx : res.ctx[c] = "alive"
  /\ main.pc = "start" => \A t \in Thread : t >= main.at => thread[t].pc = "unborn"
  /\ main.pc = "join" => \A t \in Thread : t < main.at => thread[t].pc = "returned"
  /\ main.pc = "destroy" => main.at \in Ctx
  /\ main.pc \in {"destroy", "report"} => \A t \in Thread : thread[t].pc = "returned"

\* A context is held, its memory allocated and its kernels launched by threads
\* that use it.
InUse ==
  /\ \A h \in res.holds : /\ h[1] \in Thread /\ h[2] = CtxOf(h[1])
                          /\ thread[h[1]].pc \in Pushed
  /\ \A c \in Ctx : \A b \in Block : res.memory[c][b] # Free =>
       \E t \in Thread : CtxOf(t) = c /\ thread[t].pc \in Owning /\ thread[t].block = b
  /\ \A c \in Ctx : \A t \in Thread :
       InSeq(t, stream[c]) => c = CtxOf(t) /\ thread[t].pc = "sync"
  /\ \A c \in Ctx : \A i, j \in 1..Len(stream[c]) : stream[c][i] = stream[c][j] => i = j

\* A thread's block is its own; the kernel, once, stores the thread's number in it.
OwnBlock ==
  \A t \in Thread : thread[t].pc \in Owning =>
    /\ thread[t].block \in Block
    /\ \A u \in Thread \ {t} :
         CtxOf(u) = CtxOf(t) /\ thread[u].pc \in Owning => thread[u].block # thread[t].block
    /\ thread[t].pc = "launch" => Own(t) = Garbage
    /\ InSeq(t, stream[CtxOf(t)]) => Own(t) = Garbage
    /\ thread[t].pc # "launch" /\ ~ InSeq(t, stream[CtxOf(t)]) => Own(t) = t

Counted == { t \in Thread : thread[t].pc = "returned" } \ main.refused

\* Who has its result passes and is counted; only threads that return early are not.
Results ==
  /\ \A t \in Thread : thread[t].pc \in {"free", "pop", "count"} => thread[t].pass = TRUE
  /\ \A t \in main.refused : thread[t].pc = "returned"
  /\ main.passed = Cardinality(Counted)

IInv == Typed /\ Phase /\ InUse /\ OwnBlock /\ Results /\ ResultReflectsThreads
-------------------------------------------------------------------------------
LEMMA CtxOfType ==
  ASSUME SizesAssumption, NEW t \in Thread
  PROVE  CtxOf(t) \in Ctx
  BY DEF SizesAssumption, Thread, Ctx, CtxOf

LEMMA AppendMember ==
  ASSUME NEW S, NEW seq \in Seq(S), NEW e \in S
  PROVE  /\ Append(seq, e) \in Seq(S)
         /\ \A x : InSeq(x, Append(seq, e)) <=> InSeq(x, seq) \/ x = e
         /\ (\A i, j \in 1..Len(seq) : seq[i] = seq[j] => i = j) /\ ~ InSeq(e, seq) =>
              \A i, j \in 1..Len(Append(seq, e)) : Append(seq, e)[i] = Append(seq, e)[j] => i = j
  BY AppendProperties, LenProperties DEF InSeq

LEMMA TailMember ==
  ASSUME NEW S, NEW seq \in Seq(S), seq # << >>,
         \A i, j \in 1..Len(seq) : seq[i] = seq[j] => i = j
  PROVE  /\ Head(seq) \in S /\ Tail(seq) \in Seq(S) /\ InSeq(Head(seq), seq)
         /\ \A x : InSeq(x, Tail(seq)) <=> InSeq(x, seq) /\ x # Head(seq)
         /\ \A i, j \in 1..Len(Tail(seq)) : Tail(seq)[i] = Tail(seq)[j] => i = j
  <1>1. /\ Len(seq) \in Nat \ {0}
        /\ Head(seq) \in S /\ Tail(seq) \in Seq(S)
        /\ Len(Tail(seq)) = Len(seq) - 1
        /\ \A i \in 1..Len(Tail(seq)) : Tail(seq)[i] = seq[i + 1]
        /\ Head(seq) = seq[1]
    BY HeadTailProperties, EmptySeq
  <1>2. ASSUME NEW x, InSeq(x, seq), x # Head(seq) PROVE InSeq(x, Tail(seq))
    <2>1. PICK i \in 1..Len(seq) : seq[i] = x
      BY <1>2 DEF InSeq
    <2>2. i - 1 \in 1..Len(Tail(seq)) /\ Tail(seq)[i - 1] = x
      BY <1>1, <1>2, <2>1
    <2> QED BY <2>2 DEF InSeq
  <1>3. ASSUME NEW x, InSeq(x, Tail(seq)) PROVE InSeq(x, seq) /\ x # Head(seq)
    <2>1. PICK i \in 1..Len(Tail(seq)) : Tail(seq)[i] = x
      BY <1>3 DEF InSeq
    <2>2. i + 1 \in 1..Len(seq) /\ seq[i + 1] = x /\ i + 1 # 1 /\ 1 \in 1..Len(seq)
      BY <1>1, <2>1
    <2> QED BY <1>1, <2>2 DEF InSeq
  <1>4. InSeq(Head(seq), seq)
    BY <1>1 DEF InSeq
  <1>5. \A i, j \in 1..Len(Tail(seq)) : Tail(seq)[i] = Tail(seq)[j] => i = j
    BY <1>1
  <1> QED BY <1>1, <1>2, <1>3, <1>4, <1>5

\* Counting: the threads are NumThreads many.
LEMMA ThreadsFinite ==
  ASSUME SizesAssumption
  PROVE  /\ IsFiniteSet(Thread) /\ Cardinality(Thread) = NumThreads
         /\ \A S \in SUBSET Thread : IsFiniteSet(S) /\ Cardinality(S) \in 0..NumThreads
         /\ \A S \in SUBSET Thread : Cardinality(S) = NumThreads <=> S = Thread
  <1>1. NumThreads \in Nat /\ NumThreads # 0
    BY DEF SizesAssumption
  <1>2. 0 \in Int /\ NumThreads - 1 \in Int /\ ~ (0 > NumThreads - 1)
        /\ NumThreads - 1 - 0 + 1 = NumThreads
    BY <1>1
  <1>3. IsFiniteSet(Thread) /\ Cardinality(Thread) = NumThreads
    BY <1>2, FS_Interval DEF Thread
  <1>4. ASSUME NEW S \in SUBSET Thread
        PROVE  /\ IsFiniteSet(S) /\ Cardinality(S) \in Nat /\ Cardinality(S) <= NumThreads
               /\ Cardinality(S) = NumThreads => S = Thread
    BY <1>3, FS_Subset, FS_CardinalityType
  <1> QED BY <1>1, <1>3, <1>4

LEMMA InitInvariant == ASSUME SizesAssumption, Init PROVE IInv
  <1>1. NumContexts \in Nat \ {0} /\ NumThreads \in Nat \ {0}
    BY DEF SizesAssumption
  <1>2. PICK e \in BOOLEAN :
          main = [pc |-> "create", at |-> 0, exit |-> "none", passed |-> 0,
                  exclusive |-> e, refused |-> {}]
    BY DEF Init
  <1>3. /\ thread = [t \in Thread |-> [pc |-> "unborn", block |-> 0, pass |-> FALSE]]
        /\ stream = [c \in Ctx |-> << >>]
        /\ res = [ctx |-> [c \in Ctx |-> "none"], holds |-> {},
                  memory |-> [c \in Ctx |-> [b \in Block |-> Free]]]
    BY DEF Init
  <1>4. Typed
    <2>1. stream \in [Ctx -> Seq(Thread)]
      BY <1>3
    <2>2. thread \in [Thread -> [pc : Stages, block : Block \cup {0}, pass : BOOLEAN]]
      BY <1>3 DEF Stages
    <2>3. res \in [ctx : [Ctx -> {"none", "alive", "destroyed"}],
                   holds : SUBSET ((Thread \cup {Main}) \X Ctx),
                   memory : [Ctx -> [Block -> Thread \cup {Free, Garbage}]]]
      BY <1>3
    <2> QED BY <1>2, <2>1, <2>2, <2>3 DEF Typed
  <1>5. Phase
    BY <1>1, <1>2, <1>3 DEF Phase, Ctx
  <1>6. InUse
    BY <1>3 DEF InUse, InSeq
  <1>7. OwnBlock
    <2>1. \A t \in Thread : thread[t].pc = "unborn"
      BY <1>3
    <2> QED BY <2>1 DEF OwnBlock, Owning
  <1>8. Results
    <2>1. Counted = {}
      BY <1>2, <1>3 DEF Counted
    <2> QED BY <1>2, <1>3, <2>1, FS_EmptySet DEF Results
  <1> QED BY <1>2, <1>4, <1>5, <1>6, <1>7, <1>8 DEF IInv, ResultReflectsThreads
-------------------------------------------------------------------------------
(* The steps of a worker.                                                  *)

\* What a step leaves as it is.
LEMMA ResultsFrame ==
  ASSUME Typed, Results, UNCHANGED main,
         \A u \in Thread : thread[u].pc = "returned" <=> thread'[u].pc = "returned",
         \A u \in Thread : thread'[u].pc \in {"free", "pop", "count"} => thread'[u].pass = TRUE
  PROVE  Results'
  <1>1. Counted' = Counted
    BY DEF Counted
  <1>2. \A t \in main.refused : thread'[t].pc = "returned"
    BY DEF Typed, Results
  <1> QED BY <1>1, <1>2 DEF Results

LEMMA OwnBlockFrame ==
  ASSUME OwnBlock,
         \A u \in Thread : thread'[u].pc \in Owning =>
           /\ thread[u].pc \in Owning
           /\ thread'[u].block = thread[u].block /\ Own(u)' = Own(u)
           /\ (thread[u].pc = "launch" \/ InSeq(u, stream[CtxOf(u)]))
                <=> (thread'[u].pc = "launch" \/ InSeq(u, stream'[CtxOf(u)]))
  PROVE  OwnBlock'
  BY DEF OwnBlock

LEMMA ThreadFields ==
  ASSUME Typed, NEW t \in Thread, NEW r \in [pc : Stages, block : Block \cup {0}, pass : BOOLEAN],
         thread' = [thread EXCEPT ![t] = r]
  PROVE  /\ thread' \in [Thread -> [pc : Stages, block : Block \cup {0}, pass : BOOLEAN]]
         /\ thread'[t] = r
         /\ \A u \in Thread \ {t} : thread'[u] = thread[u]
  BY DEF Typed

LEMMA InUseFrame ==
  ASSUME Typed, InUse, UNCHANGED stream, res'.holds = res.holds, res'.memory = res.memory,
         \A u \in Thread : thread[u].pc \in Pushed => thread'[u].pc \in Pushed,
         \A u \in Thread : thread[u].pc \in Owning =>
           thread'[u].pc \in Owning /\ thread'[u].block = thread[u].block,
         \A u \in Thread : InSeq(u, stream[CtxOf(u)]) => thread'[u].pc = thread[u].pc
  PROVE  InUse'
  <1>1. \A h \in res'.holds : /\ h[1] \in Thread /\ h[2] = CtxOf(h[1])
                              /\ thread'[h[1]].pc \in Pushed
    BY DEF InUse
  <1>2. \A c \in Ctx : \A b \in Block : res'.memory[c][b] # Free =>
          \E t \in Thread : CtxOf(t) = c /\ thread'[t].pc \in Owning /\ thread'[t].block = b
    BY DEF InUse
  <1>3. \A c \in Ctx : \A t \in Thread :
          InSeq(t, stream[c]) => c = CtxOf(t) /\ thread'[t].pc = "sync"
    BY DEF InUse
  <1> QED BY <1>1, <1>2, <1>3 DEF InUse

LEMMA GotoFields ==
  ASSUME Typed, NEW t \in Thread, NEW label \in Stages, Goto(t, label)
  PROVE  /\ thread' \in [Thread -> [pc : Stages, block : Block \cup {0}, pass : BOOLEAN]]
         /\ thread'[t].pc = label
         /\ thread'[t].block = thread[t].block /\ thread'[t].pass = thread[t].pass
         /\ \A u \in Thread \ {t} : thread'[u] = thread[u]
  <1> DEFINE r == [thread[t] EXCEPT !.pc = label]
  <1>1. thread' = [thread EXCEPT ![t] = r]
    BY DEF Goto
  <1>2. thread[t] \in [pc : Stages, block : Block \cup {0}, pass : BOOLEAN]
    BY DEF Typed
  <1>3. /\ r \in [pc : Stages, block : Block \cup {0}, pass : BOOLEAN]
        /\ r.pc = label /\ r.block = thread[t].block /\ r.pass = thread[t].pass
    BY <1>2
  <1> HIDE DEF r
  <1> QED BY <1>1, <1>3, ThreadFields

LEMMA PushInvariant ==
  ASSUME SizesAssumption, IInv, NEW t \in Thread, PushCurrent(t)
  PROVE  IInv'
  <1>1. /\ thread[t].pc = "push" /\ Goto(t, "alloc")
        /\ res' = [res EXCEPT !.holds = @ \cup { << t, CtxOf(t) >> }]
        /\ UNCHANGED << main, stream >>
    BY DEF PushCurrent, At
  <1>2. /\ res'.ctx = res.ctx /\ res'.memory = res.memory
        /\ res'.holds = res.holds \cup { << t, CtxOf(t) >> }
    BY <1>1 DEF IInv, Typed
  <1>3. /\ thread' \in [Thread -> [pc : Stages, block : Block \cup {0}, pass : BOOLEAN]]
        /\ thread'[t].pc = "alloc"
        /\ \A u \in Thread \ {t} : thread'[u] = thread[u]
    BY <1>1, GotoFields DEF IInv, Stages
  <1>4. Typed'
    <2>1. << t, CtxOf(t) >> \in (Thread \cup {Main}) \X Ctx
      BY CtxOfType
    <2>2. res' \in [ctx : [Ctx -> {"none", "alive", "destroyed"}],
                    holds : SUBSET ((Thread \cup {Main}) \X Ctx),
                    memory : [Ctx -> [Block -> Thread \cup {Free, Garbage}]]]
      BY <1>1, <2>1 DEF IInv, Typed
    <2> QED BY <1>1, <1>3, <2>2 DEF IInv, Typed
  <1>5. Phase'
    BY <1>1, <1>2, <1>3 DEF IInv, Phase
  <1>6. InUse'
    BY <1>1, <1>2, <1>3 DEF IInv, InUse, Pushed, Owning
  <1>7. OwnBlock'
    BY <1>1, <1>2, <1>3 DEF IInv, OwnBlock, Owning, Own
  <1>8. Results'
    BY <1>1, <1>3, ResultsFrame DEF IInv, Results
  <1> QED BY <1>1, <1>4, <1>5, <1>6, <1>7, <1>8 DEF IInv, ResultReflectsThreads

LEMMA AllocInvariant ==
  ASSUME SizesAssumption, IInv, NEW t \in Thread, MemAlloc(t)
  PROVE  IInv'
  <1> DEFINE c == CtxOf(t)
  <1>1. PICK b \in Block :
          /\ res.memory[c][b] = Free
          /\ res' = [res EXCEPT !.memory[c][b] = Garbage]
          /\ thread' = [thread EXCEPT ![t].pc = "launch", ![t].block = b]
    BY DEF MemAlloc
  <1>2. thread[t].pc = "alloc" /\ c \in Ctx /\ UNCHANGED << main, stream >>
    BY CtxOfType DEF MemAlloc, At
  <1> HIDE DEF c
  <1>3. /\ thread' \in [Thread -> [pc : Stages, block : Block \cup {0}, pass : BOOLEAN]]
        /\ thread'[t].pc = "launch" /\ thread'[t].block = b
        /\ \A u \in Thread \ {t} : thread'[u] = thread[u]
    <2> DEFINE r == [thread[t] EXCEPT !.pc = "launch", !.block = b]
    <2>1. thread' = [thread EXCEPT ![t] = r]
      BY <1>1
    <2>2. thread[t] \in [pc : Stages, block : Block \cup {0}, pass : BOOLEAN]
      BY DEF IInv, Typed
    <2>3. /\ r \in [pc : Stages, block : Block \cup {0}, pass : BOOLEAN]
          /\ r.pc = "launch" /\ r.block = b
      BY <2>2 DEF Stages
    <2> HIDE DEF r
    <2> QED BY <2>1, <2>3, ThreadFields DEF IInv
  <1>4. /\ res'.ctx = res.ctx /\ res'.holds = res.holds
        /\ res'.memory = [res.memory EXCEPT ![c][b] = Garbage]
    BY <1>1, <1>2 DEF IInv, Typed
  <1>5. /\ res'.memory[c][b] = Garbage
        /\ \A d \in Ctx : \A a \in Block :
             d # c \/ a # b => res'.memory[d][a] = res.memory[d][a]
    BY <1>2, <1>4 DEF IInv, Typed
  <1>6. Typed'
    <2>1. res' \in [ctx : [Ctx -> {"none", "alive", "destroyed"}],
                    holds : SUBSET ((Thread \cup {Main}) \X Ctx),
                    memory : [Ctx -> [Block -> Thread \cup {Free, Garbage}]]]
      BY <1>1, <1>2 DEF IInv, Typed
    <2> QED BY <1>2, <1>3, <2>1 DEF IInv, Typed
  <1>7. Phase'
    BY <1>2, <1>3, <1>4 DEF IInv, Phase
  <1>8. InUse'
    <2>1. \A h \in res'.holds : /\ h[1] \in Thread /\ h[2] = CtxOf(h[1])
                                /\ thread'[h[1]].pc \in Pushed
      BY <1>3, <1>4 DEF IInv, InUse, Pushed
    <2>2. ASSUME NEW d \in Ctx, NEW a \in Block, res'.memory[d][a] # Free
          PROVE  \E u \in Thread : CtxOf(u) = d /\ thread'[u].pc \in Owning /\ thread'[u].block = a
      <3>1. CASE d = c /\ a = b
        BY <1>3, <3>1 DEF Owning, c
      <3>2. CASE d # c \/ a # b
        <4>1. PICK u \in Thread : CtxOf(u) = d /\ thread[u].pc \in Owning /\ thread[u].block = a
          BY <1>5, <2>2, <3>2 DEF IInv, InUse
        <4>2. u # t
          BY <1>2, <4>1 DEF Owning
        <4> QED BY <1>3, <4>1, <4>2
      <3> QED BY <3>1, <3>2
    <2>3. \A d \in Ctx : \A u \in Thread :
            InSeq(u, stream[d]) => d = CtxOf(u) /\ thread'[u].pc = "sync"
      BY <1>2, <1>3 DEF IInv, InUse
    <2> QED BY <1>2, <2>1, <2>2, <2>3 DEF IInv, InUse
  <1>9. \A u \in Thread \ {t} :
          thread[u].pc \in Owning /\ CtxOf(u) = c => thread[u].block # b
    <2>1. TAKE u \in Thread \ {t}
    <2>2. HAVE thread[u].pc \in Owning /\ CtxOf(u) = c
    <2>3. Own(u) \in {Garbage, u}
      BY <2>2 DEF IInv, OwnBlock, Owning
    <2>4. Own(u) # Free
      BY <2>3 DEF Free, Garbage, Thread
    <2> QED BY <1>1, <2>2, <2>4 DEF Own
  <1>10. OwnBlock'
    <2>1. \A u \in Thread \ {t} : thread[u].pc \in Owning =>
            thread[u].block \in Block /\ Own(u)' = Own(u)
      BY <1>2, <1>3, <1>5, <1>9, CtxOfType DEF IInv, OwnBlock, Own
    <2>2. Own(t)' = Garbage
      BY <1>2, <1>3, <1>5 DEF Own, c
    <2> QED BY <1>2, <1>3, <1>9, <2>1, <2>2 DEF IInv, OwnBlock, Owning, c
  <1>11. Results'
    BY <1>2, <1>3, ResultsFrame DEF IInv, Results
  <1> QED BY <1>2, <1>6, <1>7, <1>8, <1>10, <1>11 DEF IInv, ResultReflectsThreads

LEMMA LaunchInvariant ==
  ASSUME SizesAssumption, IInv, NEW t \in Thread, LaunchKernel(t)
  PROVE  IInv'
  <1> DEFINE c == CtxOf(t)
  <1>1. /\ thread[t].pc = "launch" /\ Goto(t, "sync") /\ UNCHANGED << main, res >>
        /\ stream' = [stream EXCEPT ![c] = Append(@, t)]
        /\ c \in Ctx
    BY CtxOfType DEF LaunchKernel, At, Enqueued
  <1> HIDE DEF c
  <1>2. /\ thread' \in [Thread -> [pc : Stages, block : Block \cup {0}, pass : BOOLEAN]]
        /\ thread'[t].pc = "sync" /\ thread'[t].block = thread[t].block
        /\ \A u \in Thread \ {t} : thread'[u] = thread[u]
    BY <1>1, GotoFields DEF IInv, Stages
  <1>3. stream[c] \in Seq(Thread) /\ ~ InSeq(t, stream[c])
    BY <1>1 DEF IInv, Typed, InUse
  <1>4. /\ stream'[c] = Append(stream[c], t)
        /\ \A d \in Ctx \ {c} : stream'[d] = stream[d]
    BY <1>1 DEF IInv, Typed
  <1>5. /\ stream'[c] \in Seq(Thread)
        /\ \A u : InSeq(u, stream'[c]) <=> InSeq(u, stream[c]) \/ u = t
        /\ \A i, j \in 1..Len(stream'[c]) : stream'[c][i] = stream'[c][j] => i = j
    BY <1>1, <1>3, <1>4, AppendMember DEF IInv, InUse
  <1>6. Typed'
    BY <1>1, <1>2, <1>4, <1>5 DEF IInv, Typed
  <1>7. Phase'
    BY <1>1, <1>2 DEF IInv, Phase
  <1>8. InUse'
    <2>1. ASSUME NEW d \in Ctx, NEW u \in Thread, InSeq(u, stream'[d])
          PROVE  d = CtxOf(u) /\ thread'[u].pc = "sync"
      <3>1. InSeq(u, stream[d]) \/ (d = c /\ u = t)
        BY <1>4, <1>5, <2>1
      <3>2. CASE InSeq(u, stream[d])
        <4>1. d = CtxOf(u) /\ thread[u].pc = "sync"
          BY <3>2 DEF IInv, InUse
        <4> QED BY <1>1, <1>2, <4>1
      <3> QED BY <1>2, <3>1, <3>2 DEF c
    <2>2. \A d \in Ctx : \A i, j \in 1..Len(stream'[d]) : stream'[d][i] = stream'[d][j] => i = j
      BY <1>4, <1>5 DEF IInv, InUse
    <2> QED BY <1>1, <1>2, <2>1, <2>2 DEF IInv, InUse, Pushed, Owning
  <1>9. OwnBlock'
    <2>1. \A u \in Thread : Own(u)' = Own(u) /\ thread'[u].block = thread[u].block
      BY <1>1, <1>2 DEF Own
    <2>2. \A u \in Thread \ {t} : InSeq(u, stream'[CtxOf(u)]) <=> InSeq(u, stream[CtxOf(u)])
      BY <1>4, <1>5, CtxOfType
    <2>3. InSeq(t, stream'[CtxOf(t)])
      BY <1>5 DEF c
    <2> QED BY <1>1, <1>2, <2>1, <2>2, <2>3, OwnBlockFrame DEF IInv, Owning
  <1>10. Results'
    BY <1>1, <1>2, ResultsFrame DEF IInv, Results
  <1> QED BY <1>1, <1>6, <1>7, <1>8, <1>9, <1>10 DEF IInv, ResultReflectsThreads

LEMMA ReadBackInvariant ==
  ASSUME SizesAssumption, IInv, NEW t \in Thread, ReadBack(t)
  PROVE  IInv'
  <1>1. /\ thread[t].pc = "sync" /\ ~ InSeq(t, stream[CtxOf(t)])
        /\ thread' = [thread EXCEPT ![t].pc = "free", ![t].pass = (Own(t) = t)]
        /\ UNCHANGED << main, stream, res >>
    BY DEF ReadBack, At, Pending, InSeq
  <1>2. Own(t) = t
    BY <1>1 DEF IInv, OwnBlock, Owning
  <1>3. thread' = [thread EXCEPT ![t].pc = "free", ![t].pass = TRUE]
    BY <1>1, <1>2, Zenon
  <1>4. /\ thread' \in [Thread -> [pc : Stages, block : Block \cup {0}, pass : BOOLEAN]]
        /\ thread'[t].pc = "free" /\ thread'[t].block = thread[t].block
        /\ thread'[t].pass = TRUE
        /\ \A u \in Thread \ {t} : thread'[u] = thread[u]
    <2> DEFINE r == [thread[t] EXCEPT !.pc = "free", !.pass = TRUE]
    <2>1. thread' = [thread EXCEPT ![t] = r]
      BY <1>3
    <2>2. thread[t] \in [pc : Stages, block : Block \cup {0}, pass : BOOLEAN]
      BY DEF IInv, Typed
    <2>3. /\ r \in [pc : Stages, block : Block \cup {0}, pass : BOOLEAN]
          /\ r.pc = "free" /\ r.block = thread[t].block /\ r.pass = TRUE
      BY <2>2 DEF Stages
    <2> HIDE DEF r
    <2> QED BY <2>1, <2>3, ThreadFields DEF IInv
  <1>5. Typed'
    BY <1>1, <1>4 DEF IInv, Typed
  <1>6. Phase'
    BY <1>1, <1>4 DEF IInv, Phase
  <1>7. InUse'
    BY <1>1, <1>4, InUseFrame DEF IInv, Pushed, Owning
  <1>8. OwnBlock'
    BY <1>1, <1>4, OwnBlockFrame DEF IInv, Owning, Own
  <1>9. Results'
    BY <1>1, <1>4, ResultsFrame DEF IInv, Results
  <1> QED BY <1>1, <1>5, <1>6, <1>7, <1>8, <1>9 DEF IInv, ResultReflectsThreads

LEMMA MemFreeInvariant ==
  ASSUME SizesAssumption, IInv, NEW t \in Thread, MemFree(t)
  PROVE  IInv'
  <1> DEFINE c == CtxOf(t)
             b == thread[t].block
  <1>1. /\ thread[t].pc = "free" /\ Goto(t, "pop") /\ UNCHANGED << main, stream >>
        /\ res' = [res EXCEPT !.memory[c][b] = Free]
        /\ c \in Ctx /\ b \in Block
    BY CtxOfType DEF MemFree, At, IInv, OwnBlock, Owning
  <1> HIDE DEF c, b
  <1>2. /\ thread' \in [Thread -> [pc : Stages, block : Block \cup {0}, pass : BOOLEAN]]
        /\ thread'[t].pc = "pop" /\ thread'[t].pass = thread[t].pass
        /\ \A u \in Thread \ {t} : thread'[u] = thread[u]
    BY <1>1, GotoFields DEF IInv, Stages
  <1>3. /\ res'.ctx = res.ctx /\ res'.holds = res.holds
        /\ res'.memory = [res.memory EXCEPT ![c][b] = Free]
    BY <1>1 DEF IInv, Typed
  <1>4. /\ res'.memory[c][b] = Free
        /\ \A d \in Ctx : \A a \in Block :
             d # c \/ a # b => res'.memory[d][a] = res.memory[d][a]
    BY <1>1, <1>3 DEF IInv, Typed
  <1>5. Typed'
    <2>1. res' \in [ctx : [Ctx -> {"none", "alive", "destroyed"}],
                    holds : SUBSET ((Thread \cup {Main}) \X Ctx),
                    memory : [Ctx -> [Block -> Thread \cup {Free, Garbage}]]]
      BY <1>1 DEF IInv, Typed
    <2> QED BY <1>1, <1>2, <2>1 DEF IInv, Typed
  <1>6. Phase'
    BY <1>1, <1>2, <1>3 DEF IInv, Phase
  <1>7. InUse'
    <2>1. ASSUME NEW d \in Ctx, NEW a \in Block, res'.memory[d][a] # Free
          PROVE  \E u \in Thread : CtxOf(u) = d /\ thread'[u].pc \in Owning /\ thread'[u].block = a
      <3>1. res.memory[d][a] # Free /\ (d # c \/ a # b)
        BY <1>4, <2>1
      <3>2. PICK u \in Thread : CtxOf(u) = d /\ thread[u].pc \in Owning /\ thread[u].block = a
        BY <3>1 DEF IInv, InUse
      <3>3. u # t
        BY <3>1, <3>2 DEF c, b
      <3> QED BY <1>2, <3>2, <3>3
    <2> QED BY <1>1, <1>2, <1>3, <2>1 DEF IInv, InUse, Pushed
  <1>8. OwnBlock'
    <2>1. \A u \in Thread \ {t} : thread[u].pc \in Owning => Own(u)' = Own(u)
      BY <1>1, <1>2, <1>4, CtxOfType DEF IInv, OwnBlock, Owning, Own, c, b
    <2> QED BY <1>1, <1>2, <2>1, OwnBlockFrame DEF IInv, Owning
  <1>9. Results'
    BY <1>1, <1>2, ResultsFrame DEF IInv, Results
  <1> QED BY <1>1, <1>5, <1>6, <1>7, <1>8, <1>9 DEF IInv, ResultReflectsThreads

LEMMA PopInvariant ==
  ASSUME SizesAssumption, IInv, NEW t \in Thread, PopCurrent(t)
  PROVE  IInv'
  <1>1. /\ thread[t].pc = "pop" /\ Goto(t, "count") /\ UNCHANGED << main, stream >>
        /\ res' = [res EXCEPT !.holds = @ \ { << t, CtxOf(t) >> }]
    BY DEF PopCurrent, At
  <1>2. /\ res'.ctx = res.ctx /\ res'.memory = res.memory
        /\ res'.holds = res.holds \ { << t, CtxOf(t) >> }
    BY <1>1 DEF IInv, Typed
  <1>3. /\ thread' \in [Thread -> [pc : Stages, block : Block \cup {0}, pass : BOOLEAN]]
        /\ thread'[t].pc = "count" /\ thread'[t].pass = thread[t].pass
        /\ \A u \in Thread \ {t} : thread'[u] = thread[u]
    BY <1>1, GotoFields DEF IInv, Stages
  <1>4. Typed'
    <2>1. res' \in [ctx : [Ctx -> {"none", "alive", "destroyed"}],
                    holds : SUBSET ((Thread \cup {Main}) \X Ctx),
                    memory : [Ctx -> [Block -> Thread \cup {Free, Garbage}]]]
      BY <1>1 DEF IInv, Typed
    <2> QED BY <1>1, <1>3, <2>1 DEF IInv, Typed
  <1>5. Phase'
    BY <1>1, <1>2, <1>3 DEF IInv, Phase
  <1>6. InUse'
    <2>1. ASSUME NEW h \in res'.holds
          PROVE  h[1] \in Thread /\ h[2] = CtxOf(h[1]) /\ thread'[h[1]].pc \in Pushed
      <3>1. h \in res.holds /\ h # << t, CtxOf(t) >> /\ h \in (Thread \cup {Main}) \X Ctx
        BY <1>2, <2>1 DEF IInv, Typed
      <3>2. h[1] \in Thread /\ h[2] = CtxOf(h[1]) /\ thread[h[1]].pc \in Pushed
        BY <3>1 DEF IInv, InUse
      <3>3. h[1] # t
        BY <3>1, <3>2
      <3> QED BY <1>3, <3>2, <3>3
    <2> QED BY <1>1, <1>2, <1>3, <2>1 DEF IInv, InUse, Owning
  <1>7. OwnBlock'
    BY <1>1, <1>2, <1>3 DEF IInv, OwnBlock, Owning, Own
  <1>8. Results'
    BY <1>1, <1>3, ResultsFrame DEF IInv, Results
  <1> QED BY <1>1, <1>4, <1>5, <1>6, <1>7, <1>8 DEF IInv, ResultReflectsThreads

\* The count goes up by a thread that passed and had not been counted.
LEMMA CountInvariant ==
  ASSUME SizesAssumption, IInv, NEW t \in Thread, Count(t)
  PROVE  IInv'
  <1>1. /\ thread[t].pc = "count" /\ thread[t].pass = TRUE
        /\ Goto(t, "returned") /\ UNCHANGED << stream, res >>
        /\ main.exit = "none"
    BY DEF Count, At, Running, IInv, Results
  <1>2. main' = [main EXCEPT !.passed = main.passed + 1]
    BY <1>1 DEF Count
  <1>3. /\ main'.pc = main.pc /\ main'.at = main.at /\ main'.exit = main.exit
        /\ main'.refused = main.refused /\ main'.passed = main.passed + 1
    BY <1>2 DEF IInv, Typed
  <1>4. /\ thread' \in [Thread -> [pc : Stages, block : Block \cup {0}, pass : BOOLEAN]]
        /\ thread'[t].pc = "returned"
        /\ \A u \in Thread \ {t} : thread'[u] = thread[u]
    BY <1>1, GotoFields DEF IInv, Stages
  <1>5. Typed'
    <2>1. main.passed + 1 \in Nat
      BY DEF IInv, Typed
    <2> QED BY <1>1, <1>2, <1>4, <2>1 DEF IInv, Typed
  <1>6. Phase'
    BY <1>1, <1>3, <1>4 DEF IInv, Phase
  <1>7. InUse'
    BY <1>1, <1>4 DEF IInv, InUse, Pushed, Owning
  <1>8. OwnBlock'
    BY <1>1, <1>4, OwnBlockFrame DEF IInv, Owning, Own
  <1>9. Results'
    <2>1. t \notin main.refused /\ t \notin Counted
      BY <1>1 DEF IInv, Results, Counted
    <2>2. Counted' = Counted \cup {t}
      BY <1>3, <1>4, <2>1 DEF Counted
    <2>3. IsFiniteSet(Counted)
      BY ThreadsFinite DEF Counted
    <2>4. Cardinality(Counted') = Cardinality(Counted) + 1
      BY <2>1, <2>2, <2>3, FS_AddElement
    <2>5. \A u \in main'.refused : thread'[u].pc = "returned"
      BY <1>3, <1>4, <2>1 DEF IInv, Typed, Results
    <2>6. \A u \in Thread : thread'[u].pc \in {"free", "pop", "count"} => thread'[u].pass = TRUE
      BY <1>4 DEF IInv, Results
    <2> QED BY <1>3, <2>4, <2>5, <2>6 DEF IInv, Results
  <1> QED BY <1>1, <1>3, <1>5, <1>6, <1>7, <1>8, <1>9 DEF IInv, ResultReflectsThreads

LEMMA RefusedInvariant ==
  ASSUME SizesAssumption, IInv, NEW t \in Thread, PushRefused(t)
  PROVE  IInv'
  <1>1. /\ thread[t].pc = "push" /\ main.exit = "none"
        /\ main' = [main EXCEPT !.refused = @ \cup {t}]
        /\ Goto(t, "returned") /\ UNCHANGED << stream, res >>
    BY DEF PushRefused, At, Running
  <1>2. /\ main'.pc = main.pc /\ main'.at = main.at /\ main'.exit = main.exit
        /\ main'.refused = main.refused \cup {t} /\ main'.passed = main.passed
    BY <1>1 DEF IInv, Typed
  <1>3. /\ thread' \in [Thread -> [pc : Stages, block : Block \cup {0}, pass : BOOLEAN]]
        /\ thread'[t].pc = "returned"
        /\ \A u \in Thread \ {t} : thread'[u] = thread[u]
    BY <1>1, GotoFields DEF IInv, Stages
  <1>4. Typed'
    BY <1>1, <1>3 DEF IInv, Typed
  <1>5. Phase'
    BY <1>1, <1>2, <1>3 DEF IInv, Phase
  <1>6. InUse'
    BY <1>1, <1>3 DEF IInv, InUse, Pushed, Owning
  <1>7. OwnBlock'
    BY <1>1, <1>3, OwnBlockFrame DEF IInv, Owning, Own
  <1>8. Results'
    <2>1. Counted' = Counted
      BY <1>1, <1>2, <1>3 DEF Counted
    <2>2. \A u \in main'.refused : thread'[u].pc = "returned"
      BY <1>2, <1>3 DEF IInv, Typed, Results
    <2>3. \A u \in Thread : thread'[u].pc \in {"free", "pop", "count"} => thread'[u].pass = TRUE
      BY <1>3 DEF IInv, Results
    <2> QED BY <1>2, <2>1, <2>2, <2>3 DEF IInv, Results
  <1> QED BY <1>1, <1>2, <1>4, <1>5, <1>6, <1>7, <1>8 DEF IInv, ResultReflectsThreads

LEMMA WorkerInvariant ==
  ASSUME SizesAssumption, IInv, NEW t \in Thread, Worker(t)
  PROVE  IInv'
  BY PushInvariant, AllocInvariant, LaunchInvariant, ReadBackInvariant, MemFreeInvariant,
     PopInvariant, CountInvariant DEF Worker
-------------------------------------------------------------------------------
(* The device.                                                             *)

LEMMA FillInvariant ==
  ASSUME SizesAssumption, IInv, NEW c \in Ctx, FillKernel(c)
  PROVE  IInv'
  <1>0. PICK t \in Thread : t = Head(stream[c])
    BY TailMember DEF FillKernel, IInv, Typed, InUse
  <1> DEFINE b == thread[t].block
  <1>1. /\ stream[c] # << >> /\ stream[c] \in Seq(Thread) /\ main.exit = "none"
        /\ res' = [res EXCEPT !.memory[c][b] = t]
        /\ stream' = [stream EXCEPT ![c] = Tail(@)]
        /\ UNCHANGED << main, thread >>
    BY <1>0 DEF FillKernel, Popped, Running, IInv, Typed
  <1>2. /\ Tail(stream[c]) \in Seq(Thread) /\ InSeq(t, stream[c])
        /\ \A x : InSeq(x, Tail(stream[c])) <=> InSeq(x, stream[c]) /\ x # t
        /\ \A i, j \in 1..Len(Tail(stream[c])) : Tail(stream[c])[i] = Tail(stream[c])[j] => i = j
    BY <1>0, <1>1, TailMember DEF IInv, InUse
  <1>3. c = CtxOf(t) /\ thread[t].pc = "sync"
    BY <1>2 DEF IInv, InUse
  <1>4. b \in Block
    BY <1>2, <1>3 DEF IInv, OwnBlock, Owning
  <1> HIDE DEF b
  <1>5. /\ stream'[c] = Tail(stream[c])
        /\ \A d \in Ctx \ {c} : stream'[d] = stream[d]
    BY <1>1 DEF IInv, Typed
  <1>6. /\ res'.ctx = res.ctx /\ res'.holds = res.holds
        /\ res'.memory = [res.memory EXCEPT ![c][b] = t]
    BY <1>1, <1>4 DEF IInv, Typed
  <1>7. /\ res'.memory[c][b] = t
        /\ \A d \in Ctx : \A a \in Block :
             d # c \/ a # b => res'.memory[d][a] = res.memory[d][a]
    BY <1>4, <1>6 DEF IInv, Typed
  <1>8. Typed'
    <2>1. res' \in [ctx : [Ctx -> {"none", "alive", "destroyed"}],
                    holds : SUBSET ((Thread \cup {Main}) \X Ctx),
                    memory : [Ctx -> [Block -> Thread \cup {Free, Garbage}]]]
      BY <1>1, <1>2, <1>4 DEF IInv, Typed
    <2>2. stream' \in [Ctx -> Seq(Thread)]
      BY <1>1, <1>2 DEF IInv, Typed
    <2> QED BY <1>1, <2>1, <2>2 DEF IInv, Typed
  <1>9. Phase'
    BY <1>1, <1>6 DEF IInv, Phase
  <1>10. InUse'
    <2>1. ASSUME NEW d \in Ctx, NEW a \in Block, res'.memory[d][a] # Free
          PROVE  \E u \in Thread : CtxOf(u) = d /\ thread[u].pc \in Owning /\ thread[u].block = a
      <3>1. CASE d = c /\ a = b
        BY <1>2, <1>3, <3>1 DEF Owning, b
      <3>2. CASE d # c \/ a # b
        BY <1>7, <2>1, <3>2 DEF IInv, InUse
      <3> QED BY <3>1, <3>2
    <2>2. ASSUME NEW d \in Ctx, NEW u \in Thread, InSeq(u, stream'[d])
          PROVE  d = CtxOf(u) /\ thread[u].pc = "sync"
      <3>1. InSeq(u, stream[d])
        BY <1>2, <1>5, <2>2
      <3> QED BY <3>1 DEF IInv, InUse
    <2>3. \A d \in Ctx : \A i, j \in 1..Len(stream'[d]) : stream'[d][i] = stream'[d][j] => i = j
      BY <1>2, <1>5 DEF IInv, InUse
    <2> QED BY <1>1, <1>6, <2>1, <2>2, <2>3 DEF IInv, InUse
  <1>11. OwnBlock'
    <2>1. Own(t)' = t /\ ~ InSeq(t, stream'[CtxOf(t)])
      <3>1. Own(t)' = res'.memory[c][b]
        BY <1>1, <1>3 DEF Own, b
      <3>2. ~ InSeq(t, stream'[c])
        BY <1>2, <1>5
      <3> QED BY <1>3, <1>7, <3>1, <3>2
    <2>2. ASSUME NEW u \in Thread \ {t}, thread[u].pc \in Owning
          PROVE  /\ Own(u)' = Own(u)
                 /\ InSeq(u, stream'[CtxOf(u)]) <=> InSeq(u, stream[CtxOf(u)])
      <3>1. CtxOf(u) # c \/ thread[u].block # b
        BY <1>2, <1>3, <2>2 DEF IInv, OwnBlock, Owning, b
      <3>2. CtxOf(u) \in Ctx /\ thread[u].block \in Block
        BY <2>2, CtxOfType DEF IInv, OwnBlock
      <3>3. Own(u)' = Own(u)
        BY <1>1, <1>7, <3>1, <3>2 DEF Own
      <3> QED BY <1>2, <1>5, <3>2, <3>3
    <2>3. \A u \in Thread : thread[u].pc \in Owning =>
            /\ thread[u].pc = "launch" => Own(u)' = Garbage
            /\ InSeq(u, stream'[CtxOf(u)]) => Own(u)' = Garbage
            /\ thread[u].pc # "launch" /\ ~ InSeq(u, stream'[CtxOf(u)]) => Own(u)' = u
      BY <1>3, <2>1, <2>2 DEF IInv, OwnBlock
    <2> QED BY <1>1, <2>3 DEF IInv, OwnBlock
  <1>12. Results'
    BY <1>1, ResultsFrame DEF IInv, Results
  <1> QED BY <1>1, <1>8, <1>9, <1>10, <1>11, <1>12 DEF IInv, ResultReflectsThreads
-------------------------------------------------------------------------------
(* The steps of main.                                                      *)

LEMMA StepFields ==
  ASSUME Typed, NEW size \in Nat, NEW loop \in {"start", "join", "destroy", "report"},
         Step(size, loop)
  PROVE  /\ main' \in [pc : {"create", "start", "join", "destroy", "report"}, at : Nat,
                       exit : {"none", "success", "failure", "error"}, passed : Nat,
                       exclusive : BOOLEAN, refused : SUBSET Thread]
         /\ main'.exit = main.exit /\ main'.passed = main.passed
         /\ main'.refused = main.refused
         /\ \/ /\ main.at + 1 < size
               /\ main'.at = main.at + 1 /\ main'.pc = main.pc
            \/ /\ main.at + 1 >= size
               /\ main'.at = 0 /\ main'.pc = loop
  <1>1. main.at + 1 \in Nat
    BY DEF Typed
  <1>2. CASE main.at + 1 < size
    <2>1. main' = [main EXCEPT !.at = main.at + 1]
      BY <1>2 DEF Step
    <2> QED BY <1>1, <1>2, <2>1 DEF Typed
  <1>3. CASE ~ (main.at + 1 < size)
    <2>1. main' = [main EXCEPT !.at = 0, !.pc = loop]
      BY <1>3 DEF Step
    <2>2. main.at + 1 >= size
      BY <1>1, <1>3
    <2> QED BY <2>1, <2>2 DEF Typed
  <1> QED BY <1>2, <1>3

LEMMA WorkFrame ==
  ASSUME InUse, OwnBlock, UNCHANGED << thread, stream >>,
         res'.holds = res.holds, res'.memory = res.memory
  PROVE  InUse' /\ OwnBlock'
  <1>1. InUse'
    BY DEF InUse
  <1>2. \A t \in Thread : Own(t)' = Own(t)
    BY DEF Own
  <1> QED BY <1>1, <1>2, OwnBlockFrame

LEMMA CountedFrame ==
  ASSUME Results, UNCHANGED thread,
         main'.passed = main.passed, main'.refused = main.refused
  PROVE  Results'
  <1>1. Counted' = Counted
    BY DEF Counted
  <1> QED BY <1>1 DEF Results

LEMMA CreateInvariant ==
  ASSUME SizesAssumption, IInv, CreateContext
  PROVE  IInv'
  <1>1. /\ main.pc = "create" /\ main.exit = "none" /\ main.at \in Ctx
        /\ res' = [res EXCEPT !.ctx[main.at] = "alive"]
        /\ Step(NumContexts, "start") /\ UNCHANGED << thread, stream >>
        /\ NumContexts \in Nat /\ NumThreads \in Nat \ {0}
    BY DEF CreateContext, Running, IInv, Phase, SizesAssumption
  <1>2. /\ main' \in [pc : {"create", "start", "join", "destroy", "report"}, at : Nat,
                      exit : {"none", "success", "failure", "error"}, passed : Nat,
                      exclusive : BOOLEAN, refused : SUBSET Thread]
        /\ main'.exit = main.exit /\ main'.passed = main.passed
        /\ main'.refused = main.refused
        /\ \/ /\ main.at + 1 < NumContexts
              /\ main'.at = main.at + 1 /\ main'.pc = "create"
           \/ /\ main.at + 1 >= NumContexts
              /\ main'.at = 0 /\ main'.pc = "start"
    BY <1>1, StepFields DEF IInv
  <1>3. /\ res'.holds = res.holds /\ res'.memory = res.memory
        /\ res'.ctx = [res.ctx EXCEPT ![main.at] = "alive"]
    BY <1>1 DEF IInv, Typed
  <1>4. \A c \in Ctx : c < main.at + 1 => res'.ctx[c] = "alive"
    BY <1>1, <1>3 DEF IInv, Typed, Phase, Ctx
  <1>5. Typed'
    <2>1. res' \in [ctx : [Ctx -> {"none", "alive", "destroyed"}],
                    holds : SUBSET ((Thread \cup {Main}) \X Ctx),
                    memory : [Ctx -> [Block -> Thread \cup {Free, Garbage}]]]
      BY <1>1 DEF IInv, Typed
    <2> QED BY <1>1, <1>2, <2>1 DEF IInv, Typed
  <1>6. Phase'
    <2>1. \A t \in Thread : thread'[t].pc = "unborn"
      BY <1>1 DEF IInv, Phase
    <2>2. CASE main.at + 1 < NumContexts
      BY <1>1, <1>2, <1>4, <2>1, <2>2 DEF Phase, Ctx
    <2>3. CASE main.at + 1 >= NumContexts
      BY <1>1, <1>2, <1>4, <2>1, <2>3 DEF Phase, Ctx, Thread
    <2> QED BY <1>2, <2>2, <2>3
  <1>7. InUse' /\ OwnBlock'
    BY <1>1, <1>3, WorkFrame DEF IInv
  <1>8. Results'
    BY <1>1, <1>2, CountedFrame DEF IInv
  <1> QED BY <1>1, <1>2, <1>5, <1>6, <1>7, <1>8 DEF IInv, ResultReflectsThreads

LEMMA StartInvariant ==
  ASSUME SizesAssumption, IInv, StartThread
  PROVE  IInv'
  <1> DEFINE t == main.at
  <1>1. /\ main.pc = "start" /\ main.exit = "none" /\ t \in Thread
        /\ thread[t].pc = "unborn" /\ Goto(t, "push")
        /\ Step(NumThreads, "join") /\ UNCHANGED << stream, res >>
        /\ NumThreads \in Nat \ {0}
    BY DEF StartThread, Running, IInv, Phase, SizesAssumption, Thread
  <1>2. /\ main' \in [pc : {"create", "start", "join", "destroy", "report"}, at : Nat,
                      exit : {"none", "success", "failure", "error"}, passed : Nat,
                      exclusive : BOOLEAN, refused : SUBSET Thread]
        /\ main'.exit = main.exit /\ main'.passed = main.passed
        /\ main'.refused = main.refused
        /\ \/ /\ main.at + 1 < NumThreads
              /\ main'.at = main.at + 1 /\ main'.pc = "start"
           \/ /\ main.at + 1 >= NumThreads
              /\ main'.at = 0 /\ main'.pc = "join"
    BY <1>1, StepFields DEF IInv
  <1>3. /\ thread' \in [Thread -> [pc : Stages, block : Block \cup {0}, pass : BOOLEAN]]
        /\ thread'[t].pc = "push"
        /\ \A u \in Thread \ {t} : thread'[u] = thread[u]
    BY <1>1, GotoFields DEF IInv, Stages
  <1>4. Typed'
    BY <1>1, <1>2, <1>3 DEF IInv, Typed
  <1>5. Phase'
    <2>1. \A u \in Thread : u >= main.at + 1 => thread'[u].pc = "unborn"
      BY <1>1, <1>3 DEF IInv, Typed, Phase, Thread
    <2>2. \A c \in Ctx : res'.ctx[c] = "alive"
      BY <1>1 DEF IInv, Phase
    <2>3. CASE main.at + 1 < NumThreads
      BY <1>1, <1>2, <2>1, <2>2, <2>3 DEF Phase, Thread
    <2>4. CASE main.at + 1 >= NumThreads
      BY <1>1, <1>2, <2>2, <2>4 DEF Phase, Thread
    <2> QED BY <1>2, <2>3, <2>4
  <1>6. InUse'
    BY <1>1, <1>3 DEF IInv, InUse, Pushed, Owning
  <1>7. OwnBlock'
    BY <1>1, <1>3, OwnBlockFrame DEF IInv, Owning, Own
  <1>8. Results'
    <2>1. t \notin main.refused /\ Counted' = Counted
      BY <1>1, <1>2, <1>3 DEF IInv, Results, Counted
    <2>2. \A u \in main'.refused : thread'[u].pc = "returned"
      BY <1>2, <1>3, <2>1 DEF IInv, Typed, Results
    <2>3. \A u \in Thread : thread'[u].pc \in {"free", "pop", "count"} => thread'[u].pass = TRUE
      BY <1>3 DEF IInv, Results
    <2> QED BY <1>2, <2>1, <2>2, <2>3 DEF IInv, Results
  <1> QED BY <1>1, <1>2, <1>4, <1>5, <1>6, <1>7, <1>8 DEF IInv, ResultReflectsThreads

LEMMA JoinInvariant ==
  ASSUME SizesAssumption, IInv, JoinThread
  PROVE  IInv'
  <1>1. /\ main.pc = "join" /\ main.exit = "none" /\ main.at \in Thread
        /\ thread[main.at].pc = "returned"
        /\ Step(NumThreads, "destroy") /\ UNCHANGED << thread, stream, res >>
        /\ NumThreads \in Nat /\ NumContexts \in Nat \ {0}
    BY DEF JoinThread, Running, IInv, Phase, SizesAssumption
  <1>2. /\ main' \in [pc : {"create", "start", "join", "destroy", "report"}, at : Nat,
                      exit : {"none", "success", "failure", "error"}, passed : Nat,
                      exclusive : BOOLEAN, refused : SUBSET Thread]
        /\ main'.exit = main.exit /\ main'.passed = main.passed
        /\ main'.refused = main.refused
        /\ \/ /\ main.at + 1 < NumThreads
              /\ main'.at = main.at + 1 /\ main'.pc = "join"
           \/ /\ main.at + 1 >= NumThreads
              /\ main'.at = 0 /\ main'.pc = "destroy"
    BY <1>1, StepFields DEF IInv
  <1>3. Typed'
    BY <1>1, <1>2 DEF IInv, Typed
  <1>4. \A t \in Thread : t < main.at + 1 => thread[t].pc = "returned"
    BY <1>1 DEF IInv, Phase, Thread
  <1>5. Phase'
    <2>1. CASE main.at + 1 < NumThreads
      BY <1>1, <1>2, <1>4, <2>1 DEF IInv, Phase, Thread
    <2>2. CASE main.at + 1 >= NumThreads
      BY <1>1, <1>2, <1>4, <2>2 DEF Phase, Thread, Ctx
    <2> QED BY <1>2, <2>1, <2>2
  <1>6. InUse' /\ OwnBlock'
    BY <1>1, WorkFrame DEF IInv
  <1>7. Results'
    BY <1>1, <1>2, CountedFrame DEF IInv
  <1> QED BY <1>1, <1>2, <1>3, <1>5, <1>6, <1>7 DEF IInv, ResultReflectsThreads

LEMMA DestroyInvariant ==
  ASSUME SizesAssumption, IInv, DestroyContext
  PROVE  IInv'
  <1>1. /\ main.pc = "destroy" /\ main.exit = "none" /\ main.at \in Ctx
        /\ res' = [res EXCEPT !.ctx[main.at] = "destroyed"]
        /\ Step(NumContexts, "report") /\ UNCHANGED << thread, stream >>
        /\ NumContexts \in Nat
    BY DEF DestroyContext, Running, IInv, Phase, SizesAssumption
  <1>2. /\ main' \in [pc : {"create", "start", "join", "destroy", "report"}, at : Nat,
                      exit : {"none", "success", "failure", "error"}, passed : Nat,
                      exclusive : BOOLEAN, refused : SUBSET Thread]
        /\ main'.exit = main.exit /\ main'.passed = main.passed
        /\ main'.refused = main.refused
        /\ \/ /\ main.at + 1 < NumContexts
              /\ main'.at = main.at + 1 /\ main'.pc = "destroy"
           \/ main'.pc = "report"
    BY <1>1, StepFields DEF IInv
  <1>3. res'.holds = res.holds /\ res'.memory = res.memory
    BY <1>1 DEF IInv, Typed
  <1>4. Typed'
    <2>1. res' \in [ctx : [Ctx -> {"none", "alive", "destroyed"}],
                    holds : SUBSET ((Thread \cup {Main}) \X Ctx),
                    memory : [Ctx -> [Block -> Thread \cup {Free, Garbage}]]]
      BY <1>1 DEF IInv, Typed
    <2> QED BY <1>1, <1>2, <2>1 DEF IInv, Typed
  <1>5. Phase'
    BY <1>1, <1>2 DEF IInv, Phase, Ctx
  <1>6. InUse' /\ OwnBlock'
    BY <1>1, <1>3, WorkFrame DEF IInv
  <1>7. Results'
    BY <1>1, <1>2, CountedFrame DEF IInv
  <1> QED BY <1>1, <1>2, <1>4, <1>5, <1>6, <1>7 DEF IInv, ResultReflectsThreads

\* As many threads are counted as there are exactly if none was refused.
LEMMA ReportInvariant ==
  ASSUME SizesAssumption, IInv, Report
  PROVE  IInv'
  <1> DEFINE status == IF main.passed = NumThreads THEN "success" ELSE "failure"
  <1>1. /\ main.pc = "report" /\ main' = [main EXCEPT !.exit = status]
        /\ UNCHANGED << thread, stream, res >>
    BY DEF Report
  <1>2. /\ main'.pc = main.pc /\ main'.at = main.at /\ main'.exit = status
        /\ main'.refused = main.refused /\ main'.passed = main.passed
    BY <1>1 DEF IInv, Typed
  <1>3. Typed' /\ Phase'
    <2>1. Typed'
      BY <1>1 DEF IInv, Typed
    <2>2. Phase'
      BY <1>1, <1>2 DEF IInv, Phase
    <2> QED BY <2>1, <2>2
  <1>4. InUse' /\ OwnBlock'
    BY <1>1, WorkFrame DEF IInv
  <1>5. Results'
    BY <1>1, <1>2, CountedFrame DEF IInv
  <1>6. ResultReflectsThreads'
    <2>1. Counted = Thread \ main.refused /\ main.refused \subseteq Thread
      BY <1>1 DEF IInv, Phase, Typed, Counted
    <2>2. main.passed = NumThreads <=> Counted = Thread
      BY <2>1, ThreadsFinite DEF IInv, Results
    <2>3. main.passed = NumThreads <=> main.refused = {}
      BY <2>1, <2>2
    <2> QED BY <1>2, <2>3 DEF ResultReflectsThreads
  <1> QED BY <1>3, <1>4, <1>5, <1>6 DEF IInv

LEMMA FailureInvariant ==
  ASSUME SizesAssumption, IInv, ApiFails
  PROVE  IInv'
  <1>1. main' = [main EXCEPT !.exit = "error"] /\ UNCHANGED << thread, stream, res >>
    BY DEF ApiFails
  <1>2. /\ main'.pc = main.pc /\ main'.at = main.at /\ main'.exit = "error"
        /\ main'.refused = main.refused /\ main'.passed = main.passed
    BY <1>1 DEF IInv, Typed
  <1>3. Typed'
    BY <1>1 DEF IInv, Typed
  <1>4. Phase'
    BY <1>1, <1>2 DEF IInv, Phase
  <1>5. InUse' /\ OwnBlock'
    BY <1>1, WorkFrame DEF IInv
  <1>6. Results'
    BY <1>1, <1>2, CountedFrame DEF IInv
  <1> QED BY <1>2, <1>3, <1>4, <1>5, <1>6 DEF IInv, ResultReflectsThreads
-------------------------------------------------------------------------------
LEMMA StepInvariant ==
  ASSUME SizesAssumption, IInv, [Next]_machine
  PROVE  IInv'
  <1>1. CASE UNCHANGED machine
    <2>1. UNCHANGED << main, thread, stream, res >>
      BY <1>1 DEF machine
    <2>2. Typed' /\ Phase' /\ ResultReflectsThreads'
      BY <2>1 DEF IInv, Typed, Phase, ResultReflectsThreads
    <2>3. InUse' /\ OwnBlock'
      BY <2>1, WorkFrame DEF IInv
    <2>4. Results'
      BY <2>1, CountedFrame DEF IInv
    <2> QED BY <2>2, <2>3, <2>4 DEF IInv
  <1>2. CASE MainStep
    BY <1>2, CreateInvariant, StartInvariant, JoinInvariant, DestroyInvariant, ReportInvariant
    DEF MainStep
  <1>3. CASE \E t \in Thread : Worker(t)
    BY <1>3, WorkerInvariant
  <1>4. CASE \E c \in Ctx : FillKernel(c)
    BY <1>4, FillInvariant
  <1>5. CASE ApiFails
    BY <1>5, FailureInvariant
  <1>6. CASE \E t \in Thread : PushRefused(t)
    BY <1>6, RefusedInvariant
  <1> QED BY <1>1, <1>2, <1>3, <1>4, <1>5, <1>6 DEF Next, Progress

LEMMA Invariant == ASSUME SizesAssumption PROVE Spec => []IInv
  <1>1. Init => IInv
    BY InitInvariant
  <1>2. IInv /\ [Next]_machine => IInv'
    BY StepInvariant
  <1> QED BY <1>1, <1>2, PTL DEF Spec
-------------------------------------------------------------------------------
\* What the invariant says of every state.
LEMMA Conclusions ==
  ASSUME SizesAssumption, IInv
  PROVE  /\ TypeOK /\ ContextsOutliveTheirUse
         /\ KernelsOwnTheirBlock /\ ResultReflectsThreads
  <1>1. TypeOK
    <2>1. main.passed \in 0..NumThreads
      BY ThreadsFinite DEF IInv, Results, Counted
    <2>2. main \in [pc : {"create", "start", "join", "destroy", "report"}, at : Nat,
                    exit : {"none", "success", "failure", "error"}, passed : 0..NumThreads,
                    exclusive : BOOLEAN, refused : SUBSET Thread]
      BY <2>1 DEF IInv, Typed
    <2>3. \A c \in Ctx : stream[c] \in Seq(Thread)
      BY DEF IInv, Typed
    <2> QED BY <2>2, <2>3 DEF IInv, Typed, TypeOK
  <1>2. ContextsOutliveTheirUse
    <2> SUFFICES ASSUME NEW c \in Ctx, res.ctx[c] # "alive"
                 PROVE  /\ \A h \in res.holds : h[2] # c
                        /\ stream[c] = << >>
                        /\ \A b \in Block : res.memory[c][b] = Free
      BY DEF ContextsOutliveTheirUse
    <2>1. \A t \in Thread : thread[t].pc \in {"unborn", "returned"}
      BY DEF IInv, Typed, Phase
    <2>2. \A h \in res.holds : h[2] # c
      BY <2>1 DEF IInv, InUse, Pushed
    <2>3. \A b \in Block : res.memory[c][b] = Free
      BY <2>1 DEF IInv, InUse, Owning
    <2>4. stream[c] = << >>
      <3> SUFFICES ASSUME stream[c] # << >> PROVE FALSE
        OBVIOUS
      <3>1. Head(stream[c]) \in Thread /\ InSeq(Head(stream[c]), stream[c])
        BY TailMember DEF IInv, Typed, InUse
      <3> QED BY <2>1, <3>1 DEF IInv, InUse
    <2> QED BY <2>2, <2>3, <2>4
  <1>3. KernelsOwnTheirBlock
    <2> SUFFICES ASSUME NEW t \in Thread, InSeq(t, stream[CtxOf(t)])
                 PROVE  /\ Own(t) = Garbage
                        /\ \A u \in Thread \ {t} :
                             CtxOf(u) = CtxOf(t) /\ thread[u].pc \in Owning
                               => thread[u].block # thread[t].block
      BY DEF KernelsOwnTheirBlock, Pending, InSeq, Owning
    <2>1. thread[t].pc \in Owning
      BY CtxOfType DEF IInv, InUse, Owning
    <2> QED BY <2>1 DEF IInv, OwnBlock
  <1> QED BY <1>1, <1>2, <1>3 DEF IInv
-------------------------------------------------------------------------------
\* The states of main, the threads, the streams and the contexts are those
\* that the type invariant names; no more threads pass than there are.
THEOREM TypeCorrect == ASSUME SizesAssumption PROVE Spec => []TypeOK
  <1>1. IInv => TypeOK
    BY Conclusions
  <1> QED BY <1>1, Invariant, PTL

\* No context is destroyed, nor used before it exists, while a thread holds it,
\* has memory in it or has a kernel waiting in it: main joins every worker
\* before it destroys the first context.
THEOREM ContextsOutlive == ASSUME SizesAssumption PROVE Spec => []ContextsOutliveTheirUse
  <1>1. IInv => ContextsOutliveTheirUse
    BY Conclusions
  <1> QED BY <1>1, Invariant, PTL

\* A kernel that has not run yet finds its block allocated and untouched, and
\* no other thread has that block, however many threads share the context.
THEOREM KernelsOwn == ASSUME SizesAssumption PROVE Spec => []KernelsOwnTheirBlock
  <1>1. IInv => KernelsOwnTheirBlock
    BY Conclusions
  <1> QED BY <1>1, Invariant, PTL

\* The process reports success exactly if every thread got its context: a
\* thread that ran found its own values in its block.
THEOREM ResultReflects == ASSUME SizesAssumption PROVE Spec => []ResultReflectsThreads
  <1>1. IInv => ResultReflectsThreads
    BY Conclusions
  <1> QED BY <1>1, Invariant, PTL
===============================================================================
