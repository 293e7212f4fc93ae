-------------------------------- MODULE AQS --------------------------------
(***************************************************************************)
(* The queue of java.util.concurrent's AbstractQueuedSynchronizer          *)
(* (JDK/concurrent/AbstractQueuedSynchronizer.java): exclusive and shared  *)
(* acquire (plain, interruptible, timed), cancellation and release, one    *)
(* access to a volatile field per step.                                    *)
(*                                                                         *)
(* A thread runs the calls of its program one after the other.  Its locals *)
(* are the record th[t], reset when a method no longer needs them.  The    *)
(* node of thread t's i-th call is <<t, i>>; Dummy is the node enq creates *)
(* for the head.  A retry of a failed compare-and-set on head or tail in   *)
(* enq leaves no trace, so read and successful compare-and-set are one     *)
(* step there; fields of a node that is not yet in the queue are written   *)
(* with the step that publishes it.                                        *)
(***************************************************************************)
EXTENDS Integers, Sequences, FiniteSets

CONSTANTS
    Threads,
    Programs,       \* what the threads may be up to: p[t] are the calls of t, [call, shared, how]
    Victims,        \* the threads on which somebody calls Thread.interrupt, once each
    Drowsy,         \* the threads whose park may return for no reason
    Dummy, NULL

ASSUME AQSAssumption ==
    /\ IsFiniteSet(Threads)
    /\ Victims \subseteq Threads /\ Drowsy \subseteq Threads
    /\ \A p \in Programs, t \in Threads : p[t] # <<>> /\ p[t] \in
          Seq([call : {"acquire", "release", "await", "signal", "signalAll"},
               shared : BOOLEAN, how : {"plain", "interruptibly", "nanos"}])
    /\ Dummy # NULL /\ NULL \notin Threads
    /\ Dummy \notin Threads \X Nat /\ NULL \notin Threads \X Nat

VARIABLES
    program,    \* the program that is run
    state,      \* the synchronizer's state word
    head, tail,
    node,       \* node[n]: waitStatus, prev, next and thread of n
    th,         \* th[t]: program counter and locals of t
    permit,     \* permit[t]: the permit of LockSupport.park
    intr,       \* intr[t]: the interrupt flag
    victims,    \* the victims not yet interrupted
    order       \* history: the nodes in the order in which they were enqueued

vars == <<program, state, head, tail, node, th, permit, intr, victims, order>>
sync == <<state, head, tail>>
parking == <<permit, intr, victims>>

CANCELLED == 1
SIGNAL == -1
CONDITION == -2
PROPAGATE == -3

\* The nodes that the calls of the program create
NewNodes ==
    {Dummy} \cup UNION {{<<t, i>> : i \in {j \in DOMAIN program[t] :
                                           program[t][j].call \in {"acquire", "await"}}} :
                        t \in Threads}
Nodes == DOMAIN node
NewNode(thread) == [ws |-> 0, prev |-> NULL, next |-> NULL, thread |-> thread]

Start == [pc |-> "start", i |-> 1, was |-> FALSE, pred |-> NULL, predNext |-> NULL, ws |-> 0,
          s |-> NULL, q |-> NULL, h |-> NULL, u |-> NULL, ret |-> "", ret2 |-> "",
          n |-> NULL, mode |-> "none"]

At(t, pc) == th[t].pc = pc
Goto(t, pc) == th' = [th EXCEPT ![t].pc = pc]
\* Go on with fresh locals
Resume(t, pc) ==
    th' = [th EXCEPT ![t] = [Start EXCEPT !.pc = pc, !.i = th[t].i, !.was = th[t].was,
                                          !.mode = th[t].mode]]
\* The method returns: on to the thread's next call
EndCall(t) ==
    th' = [th EXCEPT ![t] = [Start EXCEPT !.i = th[t].i + 1,
                               !.pc = IF th[t].i = Len(program[t]) THEN "done" ELSE "start"]]
\* The acquire fails (exception or time-out): the thread has nothing to release
Fail(t) == th' = [th EXCEPT ![t] = [Start EXCEPT !.i = th[t].i, !.pc = "done"]]

Call(t) == program[t][th[t].i]
\* Which loop acquires: after an await it is always acquireQueued
How(t) == IF Call(t).call = "await" THEN "plain" ELSE Call(t).how
Me(t) == <<t, th[t].i>>
isShared(n) == n # Dummy /\ program[n[1]][n[2]].shared

compareAndSetWaitStatus(n, expect, update) ==
    node' = IF node[n].ws = expect THEN [node EXCEPT ![n].ws = update] ELSE node

compareAndSetNext(n, expect, update) ==
    node' = IF node[n].next = expect THEN [node EXCEPT ![n].next = update] ELSE node

----------------------------------------------------------------------------
(* The hooks of the subclass: Mutex as in the class comment, or a counting semaphore. *)
(* Each is one compare-and-set of the state word.                                     *)

Kind ==
    IF \E t \in Threads : \E i \in DOMAIN program[t] : program[t][i].shared THEN "semaphore" ELSE "mutex"

\* The value tryAcquireShared returns; for the mutex, negative when tryAcquire fails
tryAcquire ==
    CASE Kind = "mutex"     -> -state
      [] Kind = "semaphore" -> state - 1

AfterAcquire ==
    CASE Kind = "mutex"     -> 1
      [] Kind = "semaphore" -> state - 1

tryRelease ==
    CASE Kind = "mutex"     -> 0
      [] Kind = "semaphore" -> state + 1

----------------------------------------------------------------------------
(* acquire, acquireInterruptibly, tryAcquireNanos and their shared versions *)

Acquire(t) ==
    /\ At(t, "start") /\ Call(t).call = "acquire"
    /\ \/ /\ Call(t).how # "plain" /\ intr[t]
          /\ intr' = [intr EXCEPT ![t] = FALSE]
          /\ Fail(t)
          /\ UNCHANGED <<state, node>>
       \/ /\ Call(t).how = "plain" \/ ~intr[t]
          /\ tryAcquire >= 0
          /\ state' = AfterAcquire
          /\ EndCall(t)
          /\ UNCHANGED <<node, intr>>
       \/ /\ Call(t).how = "plain" \/ ~intr[t]
          /\ tryAcquire < 0
          /\ node' = [node EXCEPT ![Me(t)] = NewNode(t)]
          /\ Goto(t, "enq")
          /\ UNCHANGED <<state, intr>>
       \/ /\ Call(t).how = "nanos" /\ ~intr[t]
          /\ tryAcquire < 0
          /\ Fail(t)
          /\ UNCHANGED <<state, node, intr>>
    /\ UNCHANGED <<head, tail, permit, victims, order>>

\* enq: the queue is empty, "must initialize"
EnqHead(t) ==
    /\ At(t, "enq") /\ tail = NULL /\ head = NULL
    /\ head' = Dummy
    /\ Goto(t, "inittail")
    /\ UNCHANGED <<state, tail, node, parking, order>>

EnqTail(t) ==
    /\ At(t, "inittail")
    /\ tail' = head
    /\ Goto(t, "enq")
    /\ UNCHANGED <<state, head, node, parking, order>>

\* addWaiter and enq: append the node, then link it from its predecessor
Enq(t) ==
    /\ At(t, "enq") /\ tail # NULL /\ th[t].n = NULL
    /\ node' = [node EXCEPT ![Me(t)].prev = tail]
    /\ tail' = Me(t)
    /\ order' = Append(order, Me(t))
    /\ th' = [th EXCEPT ![t].pc = "link", ![t].pred = tail]
    /\ UNCHANGED <<state, head, parking>>

Link(t) ==
    /\ At(t, "link")
    /\ node' = [node EXCEPT ![th[t].pred].next = Me(t)]
    /\ Resume(t, "loop")
    /\ UNCHANGED <<sync, parking, order>>

\* Where an attempt goes on that did not acquire: a timed one may be past its deadline
AfterFailed(t) == IF How(t) = "nanos" THEN {"should", "cancel"} ELSE {"should"}

\* Mutant: a queued thread tries to acquire although it is not first
LoopBarges(t) ==
    /\ At(t, "loop")
    /\ th' = [th EXCEPT ![t].pc = "try", ![t].pred = node[Me(t)].prev]
    /\ UNCHANGED <<sync, node, parking, order>>

\* p = node.predecessor(); p == head ?
Loop(t) ==
    /\ At(t, "loop")
    /\ LET p == node[Me(t)].prev
       IN  \E pc \in IF p = head THEN {"try"} ELSE AfterFailed(t) :
              th' = [th EXCEPT ![t].pc = pc, ![t].pred = p]
    /\ UNCHANGED <<sync, node, parking, order>>

Try(t) ==
    /\ At(t, "try")
    /\ \/ /\ tryAcquire >= 0
          /\ state' = AfterAcquire
          /\ th' = [th EXCEPT ![t].pc = IF Call(t).shared THEN "oldhead" ELSE "sethead",
                              ![t].ws = tryAcquire]
       \/ /\ tryAcquire < 0
          /\ \E pc \in AfterFailed(t) : Goto(t, pc)
          /\ UNCHANGED state
    /\ UNCHANGED <<head, tail, node, parking, order>>

\* setHeadAndPropagate: "record old head for check below"
OldHead(t) ==
    /\ At(t, "oldhead")
    /\ th' = [th EXCEPT ![t].pc = "sethead", ![t].h = head]
    /\ UNCHANGED <<sync, node, parking, order>>

\* setHead
SetHead(t) ==
    /\ At(t, "sethead")
    /\ head' = Me(t)
    /\ Goto(t, "sethead_thread")
    /\ UNCHANGED <<state, tail, node, parking, order>>

SetHeadThread(t) ==
    /\ At(t, "sethead_thread")
    /\ node' = [node EXCEPT ![Me(t)].thread = NULL]
    /\ Goto(t, "sethead_prev")
    /\ UNCHANGED <<sync, parking, order>>

SetHeadPrev(t) ==
    /\ At(t, "sethead_prev")
    /\ node' = [node EXCEPT ![Me(t)].prev = NULL]
    /\ Goto(t, IF Call(t).shared THEN "propagate" ELSE "pnext")
    /\ UNCHANGED <<sync, parking, order>>

\* Mutant: only the value tryAcquireShared returned counts
PropagateIfPositive(t) ==
    /\ At(t, "propagate")
    /\ Goto(t, IF th[t].ws > 0 THEN "successor" ELSE "pnext")
    /\ UNCHANGED <<sync, node, parking, order>>

\* propagate > 0 || h == null || h.waitStatus < 0
Propagate(t) ==
    /\ At(t, "propagate")
    /\ Goto(t, IF th[t].ws > 0 \/ th[t].h = NULL \/ node[th[t].h].ws < 0
               THEN "successor" ELSE "propagate2")
    /\ UNCHANGED <<sync, node, parking, order>>

\* || (h = head) == null
Propagate2(t) ==
    /\ At(t, "propagate2")
    /\ th' = [th EXCEPT ![t].pc = IF head = NULL THEN "successor" ELSE "propagate3", ![t].h = head]
    /\ UNCHANGED <<sync, node, parking, order>>

\* || h.waitStatus < 0
Propagate3(t) ==
    /\ At(t, "propagate3")
    /\ Goto(t, IF node[th[t].h].ws < 0 THEN "successor" ELSE "pnext")
    /\ UNCHANGED <<sync, node, parking, order>>

\* The next node is waiting in shared mode, or appears null
Successor(t) ==
    /\ At(t, "successor")
    /\ LET s == node[Me(t)].next
       IN  th' = IF s = NULL \/ isShared(s)
                 THEN [th EXCEPT ![t].pc = "dhead", ![t].ret2 = "pnext", ![t].ws = 0]
                 ELSE [th EXCEPT ![t].pc = "pnext"]
    /\ UNCHANGED <<sync, node, parking, order>>

\* p.next = null; the call returns, after selfInterrupt if it was interrupted, or await goes on
PNext(t) ==
    /\ At(t, "pnext")
    /\ node' = [node EXCEPT ![th[t].pred].next = NULL]
    /\ \/ /\ Call(t).call = "acquire"
          /\ intr' = [intr EXCEPT ![t] = @ \/ th[t].was]
          /\ EndCall(t)
       \/ /\ Call(t).call = "await"
          /\ Resume(t, "reacquired")
          /\ UNCHANGED intr
    /\ UNCHANGED <<sync, permit, victims, order>>

----------------------------------------------------------------------------
(* shouldParkAfterFailedAcquire, park *)

\* After an iteration that did not park only the timed loops look at the interrupt flag
NextIteration(t) == IF How(t) = "nanos" THEN "interrupted" ELSE "loop"

ShouldPark(t) ==
    /\ At(t, "should")
    /\ LET ws == node[th[t].pred].ws
       IN  th' = [th EXCEPT ![t].ws = IF ws <= 0 /\ ws # SIGNAL THEN ws ELSE 0,
                            ![t].pc = IF ws = SIGNAL THEN "park"
                                      ELSE IF ws > 0 THEN "skip" ELSE "setsignal"]
    /\ UNCHANGED <<sync, node, parking, order>>

\* node.prev = pred = pred.prev, as long as pred is cancelled
Skip(t) ==
    /\ At(t, "skip")
    /\ LET pred == node[th[t].pred].prev
       IN  \/ /\ node[th[t].pred].ws > 0
              /\ node' = [node EXCEPT ![Me(t)].prev = pred]
              /\ th' = [th EXCEPT ![t].pred = pred]
           \/ /\ node[th[t].pred].ws <= 0
              /\ Goto(t, "skipnext")
              /\ UNCHANGED node
    /\ UNCHANGED <<sync, parking, order>>

SkipNext(t) ==
    /\ At(t, "skipnext")
    /\ node' = [node EXCEPT ![th[t].pred].next = Me(t)]
    /\ Resume(t, NextIteration(t))
    /\ UNCHANGED <<sync, parking, order>>

SetSignal(t) ==
    /\ At(t, "setsignal")
    /\ compareAndSetWaitStatus(th[t].pred, th[t].ws, SIGNAL)
    /\ Resume(t, NextIteration(t))
    /\ UNCHANGED <<sync, parking, order>>

\* park returns with the permit or an interrupt; parkNanos at its time, and it is not called
\* for less than spinForTimeoutThreshold
park(t, timed) ==
    /\ permit[t] \/ intr[t] \/ timed
    /\ \/ permit' = [permit EXCEPT ![t] = FALSE]
       \/ timed /\ UNCHANGED permit

Park(t) ==
    /\ At(t, "park")
    /\ park(t, How(t) = "nanos")
    /\ Resume(t, "interrupted")
    /\ UNCHANGED <<sync, node, intr, victims, order>>

\* park may return for no reason
SpuriousWakeup(t) ==
    /\ At(t, "park") /\ t \in Drowsy /\ ~permit[t]
    /\ Resume(t, "interrupted")
    /\ UNCHANGED <<sync, node, parking, order>>

\* Thread.interrupted(): remembered by the plain versions, thrown by the others
Interrupted(t) ==
    /\ At(t, "interrupted")
    /\ intr' = [intr EXCEPT ![t] = FALSE]
    /\ th' = [th EXCEPT ![t].was = How(t) = "plain" /\ (@ \/ intr[t]),
                        ![t].pc = IF intr[t] /\ How(t) # "plain" THEN "cancel" ELSE "loop"]
    /\ UNCHANGED <<sync, node, permit, victims, order>>

----------------------------------------------------------------------------
(* cancelAcquire *)

Cancel(t) ==
    /\ At(t, "cancel")
    /\ node' = [node EXCEPT ![Me(t)].thread = NULL]
    /\ Resume(t, "cancel_skip")
    /\ UNCHANGED <<sync, parking, order>>

\* Skip cancelled predecessors
CancelSkip(t) ==
    /\ At(t, "cancel_skip")
    /\ LET pred == node[Me(t)].prev
       IN  \/ /\ node[pred].ws > 0
              /\ node' = [node EXCEPT ![Me(t)].prev = node[pred].prev]
              /\ UNCHANGED th
           \/ /\ node[pred].ws <= 0
              /\ th' = [th EXCEPT ![t].pc = "cancel_next", ![t].pred = pred]
              /\ UNCHANGED node
    /\ UNCHANGED <<sync, parking, order>>

CancelNext(t) ==
    /\ At(t, "cancel_next")
    /\ th' = [th EXCEPT ![t].pc = "cancel_mark", ![t].predNext = node[th[t].pred].next]
    /\ UNCHANGED <<sync, node, parking, order>>

CancelMark(t) ==
    /\ At(t, "cancel_mark")
    /\ node' = [node EXCEPT ![Me(t)].ws = CANCELLED]
    /\ Goto(t, "cancel_tail")
    /\ UNCHANGED <<sync, parking, order>>

\* Mutant: the tail is not compared
CancelTailUnchecked(t) ==
    /\ At(t, "cancel_tail")
    /\ tail' = th[t].pred
    /\ Goto(t, "cancel_cut")
    /\ UNCHANGED <<state, head, node, parking, order>>

\* If we are the tail, remove ourselves
CancelTail(t) ==
    /\ At(t, "cancel_tail")
    /\ tail' = IF tail = Me(t) THEN th[t].pred ELSE tail
    /\ Goto(t, IF tail = Me(t) THEN "cancel_cut" ELSE "cancel_head")
    /\ UNCHANGED <<state, head, node, parking, order>>

CancelCut(t) ==
    /\ At(t, "cancel_cut")
    /\ compareAndSetNext(th[t].pred, th[t].predNext, NULL)
    /\ Fail(t)
    /\ UNCHANGED <<sync, parking, order>>

\* unparkSuccessor(node), then node.next = node
CancelUnpark(t) == th' = [th EXCEPT ![t] = [Start EXCEPT !.pc = "unpark", !.i = th[t].i,
                                              !.h = Me(t), !.ret = "cancel_self"]]

\* pred != head ...
CancelHead(t) ==
    /\ At(t, "cancel_head")
    /\ IF th[t].pred = head THEN CancelUnpark(t) ELSE Goto(t, "cancel_ws")
    /\ UNCHANGED <<sync, node, parking, order>>

\* ... && ((ws = pred.waitStatus) == SIGNAL || (ws <= 0 && ...
CancelWs(t) ==
    /\ At(t, "cancel_ws")
    /\ LET ws == node[th[t].pred].ws
       IN  IF ws > 0 THEN CancelUnpark(t)
           ELSE th' = [th EXCEPT ![t].ws = ws,
                           ![t].pc = IF ws = SIGNAL THEN "cancel_thread" ELSE "cancel_signal"]
    /\ UNCHANGED <<sync, node, parking, order>>

\* ... compareAndSetWaitStatus(pred, ws, SIGNAL))) ...
CancelSignal(t) ==
    /\ At(t, "cancel_signal")
    /\ compareAndSetWaitStatus(th[t].pred, th[t].ws, SIGNAL)
    /\ IF node[th[t].pred].ws = th[t].ws THEN Goto(t, "cancel_thread") ELSE CancelUnpark(t)
    /\ UNCHANGED <<sync, parking, order>>

\* ... && pred.thread != null
CancelThread(t) ==
    /\ At(t, "cancel_thread")
    /\ IF node[th[t].pred].thread # NULL THEN Goto(t, "cancel_succ") ELSE CancelUnpark(t)
    /\ UNCHANGED <<sync, node, parking, order>>

CancelSucc(t) ==
    /\ At(t, "cancel_succ")
    /\ LET s == node[Me(t)].next
       IN  th' = [th EXCEPT ![t].s = s, ![t].pc = IF s = NULL THEN "cancel_self" ELSE "cancel_succ_ws"]
    /\ UNCHANGED <<sync, node, parking, order>>

CancelSuccWs(t) ==
    /\ At(t, "cancel_succ_ws")
    /\ Goto(t, IF node[th[t].s].ws <= 0 THEN "cancel_splice" ELSE "cancel_self")
    /\ UNCHANGED <<sync, node, parking, order>>

CancelSplice(t) ==
    /\ At(t, "cancel_splice")
    /\ compareAndSetNext(th[t].pred, th[t].predNext, th[t].s)
    /\ Goto(t, "cancel_self")
    /\ UNCHANGED <<sync, parking, order>>

\* node.next = node; the exception, or false, reaches the caller
CancelSelf(t) ==
    /\ At(t, "cancel_self")
    /\ node' = [node EXCEPT ![Me(t)].next = Me(t)]
    /\ Fail(t)
    /\ UNCHANGED <<sync, parking, order>>

----------------------------------------------------------------------------
(* unparkSuccessor(h), which continues at ret *)

UnparkWs(t) ==
    /\ At(t, "unpark")
    /\ LET ws == node[th[t].h].ws
       IN  th' = [th EXCEPT ![t].ws = IF ws < 0 THEN ws ELSE 0,
                            ![t].pc = IF ws < 0 THEN "unpark_clear" ELSE "unpark_next"]
    /\ UNCHANGED <<sync, node, parking, order>>

UnparkClear(t) ==
    /\ At(t, "unpark_clear")
    /\ compareAndSetWaitStatus(th[t].h, th[t].ws, 0)
    /\ th' = [th EXCEPT ![t].pc = "unpark_next", ![t].ws = 0]
    /\ UNCHANGED <<sync, parking, order>>

UnparkNext(t) ==
    /\ At(t, "unpark_next")
    /\ LET s == node[th[t].h].next
       IN  th' = [th EXCEPT ![t].s = s, ![t].pc = IF s = NULL THEN "unpark_tail" ELSE "unpark_next_ws"]
    /\ UNCHANGED <<sync, node, parking, order>>

UnparkNextWs(t) ==
    /\ At(t, "unpark_next_ws")
    /\ Goto(t, IF node[th[t].s].ws > 0 THEN "unpark_tail" ELSE "unpark_thread")
    /\ UNCHANGED <<sync, node, parking, order>>

\* Traverse backwards from tail
UnparkTail(t) ==
    /\ At(t, "unpark_tail")
    /\ th' = [th EXCEPT ![t].pc = "scan", ![t].s = NULL, ![t].q = tail]
    /\ UNCHANGED <<sync, node, parking, order>>

Scan(t) ==
    /\ At(t, "scan")
    /\ LET q == th[t].q
       IN  th' = IF q = NULL \/ q = th[t].h
                 THEN [th EXCEPT ![t].q = NULL, ![t].pc = IF th[t].s = NULL THEN th[t].ret ELSE "unpark_thread"]
                 ELSE [th EXCEPT ![t].pc = "scan_prev", ![t].s = IF node[q].ws <= 0 THEN q ELSE @]
    /\ UNCHANGED <<sync, node, parking, order>>

\* Mutant: the scan does not move
ScanStays(t) ==
    /\ At(t, "scan_prev")
    /\ Goto(t, "scan")
    /\ UNCHANGED <<sync, node, parking, order>>

ScanPrev(t) ==
    /\ At(t, "scan_prev")
    /\ th' = [th EXCEPT ![t].pc = "scan", ![t].q = node[th[t].q].prev]
    /\ UNCHANGED <<sync, node, parking, order>>

\* LockSupport.unpark(s.thread)
UnparkThread(t) ==
    /\ At(t, "unpark_thread")
    /\ LET u == node[th[t].s].thread
       IN  th' = [th EXCEPT ![t].s = NULL, ![t].u = u,
                            ![t].pc = IF u = NULL THEN th[t].ret ELSE "unpark_permit"]
    /\ UNCHANGED <<sync, node, parking, order>>

UnparkPermit(t) ==
    /\ At(t, "unpark_permit")
    /\ permit' = [permit EXCEPT ![th[t].u] = TRUE]
    /\ th' = [th EXCEPT ![t].u = NULL, ![t].pc = th[t].ret]
    /\ UNCHANGED <<sync, node, intr, victims, order>>

----------------------------------------------------------------------------
(* release and releaseShared *)

Release(t) ==
    /\ At(t, "start") /\ Call(t).call = "release"
    /\ state' = tryRelease
    /\ th' = [th EXCEPT ![t].pc = IF Call(t).shared THEN "dhead" ELSE "rhead", ![t].ret2 = "return"]
    /\ UNCHANGED <<head, tail, node, parking, order>>

\* h = head; h != null ...
ReleaseHead(t) ==
    /\ At(t, "rhead")
    /\ th' = [th EXCEPT ![t].h = head, ![t].pc = IF head = NULL THEN "return" ELSE "rws"]
    /\ UNCHANGED <<sync, node, parking, order>>

\* ... && h.waitStatus != 0
ReleaseWs(t) ==
    /\ At(t, "rws")
    /\ th' = [th EXCEPT ![t].ret = "return",
                        ![t].pc = IF node[th[t].h].ws # 0 THEN "unpark" ELSE "return"]
    /\ UNCHANGED <<sync, node, parking, order>>

Return(t) ==
    /\ At(t, "return")
    /\ IF Call(t).call = "await" THEN Resume(t, "onqueue") ELSE EndCall(t)
    /\ UNCHANGED <<sync, node, parking, order>>

\* doReleaseShared: h = head ...
SharedHead(t) ==
    /\ At(t, "dhead")
    /\ th' = [th EXCEPT ![t].h = head, ![t].ret = "dcheck",
                        ![t].pc = IF head = NULL THEN "dcheck" ELSE "dtail"]
    /\ UNCHANGED <<sync, node, parking, order>>

SharedTail(t) ==
    /\ At(t, "dtail")
    /\ Goto(t, IF th[t].h = tail THEN "dcheck" ELSE "dws")
    /\ UNCHANGED <<sync, node, parking, order>>

SharedWs(t) ==
    /\ At(t, "dws")
    /\ LET ws == node[th[t].h].ws
       IN  Goto(t, IF ws = SIGNAL THEN "dsignal" ELSE IF ws = 0 THEN "dpropagate" ELSE "dcheck")
    /\ UNCHANGED <<sync, node, parking, order>>

\* loop to recheck cases if the status changed
SharedSignal(t) ==
    /\ At(t, "dsignal")
    /\ compareAndSetWaitStatus(th[t].h, SIGNAL, 0)
    /\ Goto(t, IF node[th[t].h].ws = SIGNAL THEN "unpark" ELSE "dhead")
    /\ UNCHANGED <<sync, parking, order>>

SharedPropagate(t) ==
    /\ At(t, "dpropagate")
    /\ compareAndSetWaitStatus(th[t].h, 0, PROPAGATE)
    /\ Goto(t, IF node[th[t].h].ws = 0 THEN "dcheck" ELSE "dhead")
    /\ UNCHANGED <<sync, parking, order>>

\* loop if head changed
SharedCheck(t) ==
    /\ At(t, "dcheck")
    /\ th' = IF th[t].h = head THEN [th EXCEPT ![t].h = NULL, ![t].ret = "", ![t].ret2 = "", ![t].pc = th[t].ret2]
             ELSE [th EXCEPT ![t].h = NULL, ![t].pc = "dhead"]
    /\ UNCHANGED <<sync, node, parking, order>>

----------------------------------------------------------------------------
\* Thread.interrupt by somebody else
Interrupt(t) ==
    /\ t \in victims /\ ~At(t, "done")
    /\ intr' = [intr EXCEPT ![t] = TRUE]
    /\ victims' = victims \ {t}
    /\ UNCHANGED <<sync, node, th, permit, order>>

\* Every thread has run its program
Terminated == (\A t \in Threads : At(t, "done")) /\ UNCHANGED vars

Init ==
    /\ program \in Programs
    /\ state = 0 /\ head = NULL /\ tail = NULL
    /\ node = [n \in NewNodes |-> NewNode(NULL)]
    /\ th = [t \in Threads |-> Start]
    /\ permit = [t \in Threads |-> FALSE]
    /\ intr = [t \in Threads |-> FALSE]
    /\ victims = Victims
    /\ order = <<>>

Enqueue(t) == EnqHead(t) \/ EnqTail(t) \/ Enq(t) \/ Link(t)
AcquireQueued(t) ==
    \/ Loop(t) \/ Try(t) \/ ShouldPark(t) \/ Skip(t) \/ SkipNext(t) \/ SetSignal(t)
    \/ Park(t) \/ Interrupted(t)
Dequeue(t) ==
    \/ OldHead(t) \/ SetHead(t) \/ SetHeadThread(t) \/ SetHeadPrev(t)
    \/ Propagate(t) \/ Propagate2(t) \/ Propagate3(t) \/ Successor(t) \/ PNext(t)
CancelAcquire(t) ==
    \/ Cancel(t) \/ CancelSkip(t) \/ CancelNext(t) \/ CancelMark(t) \/ CancelTail(t) \/ CancelCut(t)
    \/ CancelHead(t) \/ CancelWs(t) \/ CancelSignal(t) \/ CancelThread(t) \/ CancelSucc(t)
    \/ CancelSuccWs(t) \/ CancelSplice(t) \/ CancelSelf(t)
UnparkSuccessor(t) ==
    \/ UnparkWs(t) \/ UnparkClear(t) \/ UnparkNext(t) \/ UnparkNextWs(t) \/ UnparkTail(t)
    \/ Scan(t) \/ ScanPrev(t) \/ UnparkThread(t) \/ UnparkPermit(t)
Releasing(t) ==
    \/ Release(t) \/ ReleaseHead(t) \/ ReleaseWs(t) \/ Return(t)
    \/ SharedHead(t) \/ SharedTail(t) \/ SharedWs(t) \/ SharedSignal(t) \/ SharedPropagate(t)
    \/ SharedCheck(t)

Step(t) ==
    \/ Acquire(t) \/ Enqueue(t) \/ AcquireQueued(t) \/ Dequeue(t)
    \/ CancelAcquire(t) \/ UnparkSuccessor(t) \/ Releasing(t)

Next ==
    /\ UNCHANGED program
    /\ \/ \E t \in Threads : Step(t) \/ SpuriousWakeup(t) \/ Interrupt(t)
       \/ Terminated

Spec == Init /\ [][Next]_vars

\* The scheduler runs every thread that is not parked
Fairness == \A t \in Threads : WF_vars(Step(t) /\ UNCHANGED program)
FairSpec == Spec /\ Fairness
----------------------------------------------------------------------------
(* Properties *)

\* The types of the queue's fields
TypeOK ==
    /\ state \in Nat
    /\ head \in Nodes \cup {NULL} /\ tail \in Nodes \cup {NULL}
    /\ node \in [Nodes -> [ws : {0, CANCELLED, SIGNAL, CONDITION, PROPAGATE}, prev : Nodes \cup {NULL},
                           next : Nodes \cup {NULL}, thread : Threads \cup {NULL}]]
    /\ permit \in [Threads -> BOOLEAN] /\ intr \in [Threads -> BOOLEAN]

\* The nodes that prev links lead to from n
Chain(n) ==
    LET back[k \in 0..Cardinality(Nodes)] ==
            IF k = 0 THEN n ELSE IF back[k - 1] = NULL THEN NULL ELSE node[back[k - 1]].prev
    IN  {back[k] : k \in 0..Cardinality(Nodes)} \ {NULL}

\* Nodes in the queue whose threads have neither acquired nor begun to cancel; the node of a
\* signalled await is there before its thread knows
Waiting ==
    {n \in {order[i] : i \in DOMAIN order} :
        /\ th[n[1]].i = n[2]
        /\ th[n[1]].pc \in {"link", "loop", "try", "should", "skip", "skipnext", "setsignal",
                             "park", "interrupted",
                             "cpark", "cinterrupted", "cancelwait", "onqueue", "onqueue_prev",
                             "onqueue_next", "find", "find_scan"}}

\* "We can scan prev's from the tail": the prev links from the tail lead to every waiting
\* node, and from each of them to the head, although cancelled nodes are bypassed, the tail
\* moves back and heads leave at any time.  So predecessor() never sees null either.
QueueIntact ==
    /\ tail # NULL => head \in Chain(tail)
    /\ \A n \in Waiting : n \in Chain(tail) /\ head \in Chain(node[n].prev)

\* "If head exists, its waitStatus is guaranteed not to be CANCELLED."
HeadNeverCancelled == head # NULL => node[head].ws # CANCELLED

\* The queue's fields have their types, and head and tail delimit a queue nobody is cut out of
QueueSound == TypeOK /\ QueueIntact /\ HeadNeverCancelled

\* The queue is FIFO: a node becomes head only when all that were enqueued before it have
\* acquired or given up.
FIFO ==
    \A i, j \in DOMAIN order : i < j /\ order[j] = head => order[i] \notin Waiting

\* No wake-up is lost: when every thread has finished or is parked, none of the parked ones
\* could acquire.
NoLostWakeup ==
    LET asleep == {t \in Threads : ~permit[t] /\ ~intr[t]}
        parked == {t \in asleep : At(t, "park")}
    IN  /\ \A t \in Threads : At(t, "done") \/ t \in parked \/ (At(t, "cpark") /\ t \in asleep)
        /\ parked # {}
        => tryAcquire < 0

\* Every thread gets through its program, or gives up because of an interrupt or time-out: no
\* wake-up of release or cancelAcquire is lost and no loop of the class goes on for ever.
EveryoneFinishes == <>(\A t \in Threads : At(t, "done"))

=============================================================================
