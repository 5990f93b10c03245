----------------------------- MODULE CtxManagement -----------------------------
(***************************************************************************)
(* ctx_management.cpp: main creates contexts and pops each, so that they   *)
(* float; worker threads share them round-robin, each pushing its context, *)
(* filling a block of its memory by a kernel, checking it, and popping the *)
(* context; main joins the workers and destroys the contexts.  Printing,   *)
(* and the mutex that is only held for it, are left out.                   *)
(*                                                                         *)
(* main is [pc, at, exit, passed, exclusive, refused]: at is the context   *)
(* or thread its loop is at; exclusive says whether a push waits while     *)
(* another thread holds the context, as the source's comment has it or     *)
(* not; refused (history) is the threads whose push failed.  thread is     *)
(* [pc, block, pass]; stream is the kernels launched in each context; res  *)
(* is [ctx, holds, memory]: each context's state, which contexts main and  *)
(* the threads hold, and what each allocated block contains.               *)
(***************************************************************************)
EXTENDS HostRuntime, FiniteSets

CONSTANTS NumContexts, NumThreads

SizesAssumption ==
  /\ NumContexts \in Nat \ {0} /\ NumThreads \in Nat \ {0}

Ctx    == 0..NumContexts - 1
Thread == 0..NumThreads - 1
Main   == -1
Block  == 1..NumThreads    \* the blocks a context can have allocated at a time

CtxOf(t) == t % NumContexts

Free    == -2   \* the block is not allocated
Garbage == -1   \* nothing has been stored to it

Init ==
  /\ \E e \in BOOLEAN :
       main = [pc |-> "create", at |-> 0, exit |-> "none", passed |-> 0,
               exclusive |-> e, refused |-> {}]
  /\ thread = [t \in Thread |-> [pc |-> "unborn", block |-> 0, pass |-> FALSE]]
  /\ stream = [c \in Ctx |-> << >>]
  /\ res = [ctx |-> [c \in Ctx |-> "none"], holds |-> {},
            memory |-> [c \in Ctx |-> [b \in Block |-> Free]]]

-------------------------------------------------------------------------------
(* worker_thread                                                           *)

Goto(t, label) == thread' = [thread EXCEPT ![t].pc = label]

At(t, label) == Running /\ thread[t].pc = label

Available(c) == main.exclusive => \A h \in res.holds : h[2] # c

PushCurrent(t) ==
  /\ At(t, "push") /\ Available(CtxOf(t))
  /\ res' = [res EXCEPT !.holds = @ \cup { << t, CtxOf(t) >> }]
  /\ Goto(t, "alloc")
  /\ UNCHANGED << main, stream >>

\* hgCtxPushCurrent fails: the thread returns without counting.
PushRefused(t) ==
  /\ At(t, "push")
  /\ main' = [main EXCEPT !.refused = @ \cup {t}]
  /\ Goto(t, "returned")
  /\ UNCHANGED << stream, res >>

MemAlloc(t) ==
  /\ At(t, "alloc")
  /\ \E b \in Block :
       /\ res.memory[CtxOf(t)][b] = Free
       /\ \A a \in Block : a < b => res.memory[CtxOf(t)][a] # Free
       /\ res' = [res EXCEPT !.memory[CtxOf(t)][b] = Garbage]
       /\ thread' = [thread EXCEPT ![t].pc = "launch", ![t].block = b]
  /\ UNCHANGED << main, stream >>

LaunchKernel(t) ==
  /\ At(t, "launch")
  /\ stream' = Enqueued(CtxOf(t), t)
  /\ Goto(t, "sync")
  /\ UNCHANGED << main, res >>

Own(t) == res.memory[CtxOf(t)][thread[t].block]

\* The thread does not wait for its kernel.
ReadBackUnsynchronised(t) ==
  /\ At(t, "sync")
  /\ thread' = [thread EXCEPT ![t].pc = "free", ![t].pass = (Own(t) = t)]
  /\ UNCHANGED << main, stream, res >>

\* hgCtxSynchronize, and the check of what was read back.
ReadBack(t) ==
  /\ At(t, "sync") /\ ~ Pending(CtxOf(t), t)
  /\ thread' = [thread EXCEPT ![t].pc = "free", ![t].pass = (Own(t) = t)]
  /\ UNCHANGED << main, stream, res >>

MemFree(t) ==
  /\ At(t, "free")
  /\ res' = [res EXCEPT !.memory[CtxOf(t)][thread[t].block] = Free]
  /\ Goto(t, "pop")
  /\ UNCHANGED << main, stream >>

PopCurrent(t) ==
  /\ At(t, "pop")
  /\ res' = [res EXCEPT !.holds = @ \ { << t, CtxOf(t) >> }]
  /\ Goto(t, "count")
  /\ UNCHANGED << main, stream >>

Count(t) ==
  /\ At(t, "count")
  /\ main' = [main EXCEPT !.passed = IF thread[t].pass THEN @ + 1 ELSE @]
  /\ Goto(t, "returned")
  /\ UNCHANGED << stream, res >>

Worker(t) ==
  \/ PushCurrent(t) \/ MemAlloc(t) \/ LaunchKernel(t) \/ ReadBack(t)
  \/ MemFree(t) \/ PopCurrent(t) \/ Count(t)

\* The device runs the oldest kernel of a context.
FillKernel(c) ==
  /\ Running /\ stream[c] # << >>
  /\ LET t == Head(stream[c]) IN
       res' = [res EXCEPT !.memory[c][thread[t].block] = t]
  /\ stream' = Popped(c)
  /\ UNCHANGED << main, thread >>

-------------------------------------------------------------------------------
(* main                                                                    *)

\* The loop of main over size things: the next one, or on to the next loop.
Step(size, loop) ==
  main' = IF main.at + 1 < size THEN [main EXCEPT !.at = @ + 1]
                                ELSE [main EXCEPT !.at = 0, !.pc = loop]

\* The contexts stay current to main.
CreateContextKept ==
  /\ Running /\ main.pc = "create"
  /\ res' = [res EXCEPT !.ctx[main.at] = "alive", !.holds = @ \cup { << Main, main.at >> }]
  /\ Step(NumContexts, "start")
  /\ UNCHANGED << thread, stream >>

\* Create a context, compile and load the kernel in it, and pop it again.
CreateContext ==
  /\ Running /\ main.pc = "create"
  /\ res' = [res EXCEPT !.ctx[main.at] = "alive"]
  /\ Step(NumContexts, "start")
  /\ UNCHANGED << thread, stream >>

StartThread ==
  /\ Running /\ main.pc = "start"
  /\ Goto(main.at, "push")
  /\ Step(NumThreads, "join")
  /\ UNCHANGED << stream, res >>

\* The thread is detached and main does not wait.
DetachThread ==
  /\ Running /\ main.pc = "join"
  /\ Step(NumThreads, "destroy")
  /\ UNCHANGED << thread, stream, res >>

JoinThread ==
  /\ Running /\ main.pc = "join" /\ thread[main.at].pc = "returned"
  /\ Step(NumThreads, "destroy")
  /\ UNCHANGED << thread, stream, res >>

DestroyContext ==
  /\ Running /\ main.pc = "destroy"
  /\ res' = [res EXCEPT !.ctx[main.at] = "destroyed"]
  /\ Step(NumContexts, "report")
  /\ UNCHANGED << thread, stream >>

Report ==
  /\ Running /\ main.pc = "report"
  /\ main' = [main EXCEPT !.exit = IF main.passed = NumThreads THEN "success" ELSE "failure"]
  /\ UNCHANGED << thread, stream, res >>

\* A call in checkHggcErrors fails, in main or in a worker.
ApiFails ==
  /\ Running
  /\ \/ main.pc \in {"create", "destroy"}
     \/ \E t \in Thread : thread[t].pc \in {"alloc", "launch", "sync", "free", "pop"}
  /\ main' = [main EXCEPT !.exit = "error"]
  /\ UNCHANGED << thread, stream, res >>

MainStep == CreateContext \/ StartThread \/ JoinThread \/ DestroyContext \/ Report

Progress ==
  \/ MainStep
  \/ \E t \in Thread : Worker(t)
  \/ \E c \in Ctx : FillKernel(c)

Next == Progress \/ ApiFails \/ \E t \in Thread : PushRefused(t)

\* As long as main, a thread or the device can go on, one does; calls need not
\* fail.
Spec == Init /\ [][Next]_machine /\ WF_machine(Progress)
-------------------------------------------------------------------------------
Stages == {"unborn", "push", "alloc", "launch", "sync", "free", "pop", "count", "returned"}

TypeOK ==
  /\ main \in [pc : {"create", "start", "join", "destroy", "report"}, at : Nat,
               exit : {"none", "success", "failure", "error"}, passed : 0..NumThreads,
               exclusive : BOOLEAN, refused : SUBSET Thread]
  /\ thread \in [Thread -> [pc : Stages, block : Block \cup {0}, pass : BOOLEAN]]
  /\ \A c \in Ctx : stream[c] \in Seq(Thread)
  /\ res \in [ctx : [Ctx -> {"none", "alive", "destroyed"}],
              holds : SUBSET ((Thread \cup {Main}) \X Ctx),
              memory : [Ctx -> [Block -> Thread \cup {Free, Garbage}]]]

\* A context that a thread holds, has memory in or has a kernel in is alive.
ContextsOutliveTheirUse ==
  \A c \in Ctx :
    \/ res.ctx[c] = "alive"
    \/ /\ \A h \in res.holds : h[2] # c
       /\ stream[c] = << >>
       /\ \A b \in Block : res.memory[c][b] = Free

\* A kernel that has yet to run finds the block it was launched for, and no other
\* thread has that block.
KernelsOwnTheirBlock ==
  \A t \in Thread : Pending(CtxOf(t), t) =>
    /\ Own(t) = Garbage
    /\ \A u \in Thread \ {t} :
         CtxOf(u) = CtxOf(t) /\ thread[u].pc \in {"launch", "sync", "free"}
           => thread[u].block # thread[t].block

\* The process succeeds exactly if no push failed: every thread that got its
\* context found its own values, whatever the others did in the same context.
ResultReflectsThreads ==
  /\ main.exit = "success" => main.refused = {}
  /\ main.exit = "failure" => main.refused # {}

\* The process ends: no thread waits for a context that nobody gives up.
Terminates == <>(main.exit # "none")
===============================================================================
