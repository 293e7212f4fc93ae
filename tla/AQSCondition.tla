---------------------------- MODULE AQSCondition ----------------------------
(***************************************************************************)
(* The ConditionObject of AbstractQueuedSynchronizer: await in its plain,  *)
(* interruptible and timed versions, signal and signalAll, together with   *)
(* the synchronization queue of module AQS, which a waiter leaves with its *)
(* await and into which a signal puts it back.                             *)
(*                                                                         *)
(* firstWaiter, lastWaiter and nextWaiter are touched only by the thread   *)
(* that holds the lock, so their accesses are part of the step that reads  *)
(* or changes a waitStatus, which waiters that give up change without the  *)
(* lock.  Threads await and signal only while they hold the lock.  In an   *)
(* await, how = "plain" is awaitUninterruptibly, "interruptibly" is        *)
(* await() and "nanos" stands for the three timed versions.                *)
(***************************************************************************)
EXTENDS AQS

VARIABLES
    firstWaiter, lastWaiter,
    nextWaiter,     \* nextWaiter[n]: the link of n in the condition queue
    moved           \* history: the nodes that a signal transferred

condition == <<firstWaiter, lastWaiter, nextWaiter>>
condVars == <<vars, condition, moved>>

CondInit ==
    /\ firstWaiter = NULL /\ lastWaiter = NULL
    /\ nextWaiter = [n \in Nodes |-> NULL]
    /\ moved = {}

-----------------------------------------------------------------------------
(* await: into the condition queue *)

\* await() and the timed versions throw at once when the thread was interrupted before.
Await(t) ==
    /\ At(t, "start") /\ Call(t).call = "await"
    /\ \/ /\ Call(t).how # "plain" /\ intr[t]
          /\ intr' = [intr EXCEPT ![t] = FALSE]
          /\ th' = [th EXCEPT ![t].pc = "report", ![t].mode = "THROW_IE"]
       \/ /\ Call(t).how = "plain" \/ ~intr[t]
          /\ Goto(t, "addwaiter")
          /\ UNCHANGED intr
    /\ UNCHANGED <<sync, node, permit, victims, order, condition, moved>>

\* The last waiter has given up: clean out first
AddConditionWaiter(t) ==
    /\ At(t, "addwaiter")
    /\ th' = IF lastWaiter # NULL /\ node[lastWaiter].ws # CONDITION
             THEN [th EXCEPT ![t].pc = "unlink", ![t].q = firstWaiter, ![t].ret = "append"]
             ELSE [th EXCEPT ![t].pc = "append"]
    /\ UNCHANGED <<sync, node, parking, order, condition, moved>>

\* One iteration of unlinkCancelledWaiters; trail is the last node that stays
UnlinkCancelledWaiters(t) ==
    LET n == th[t].q
        trail == th[t].s
    IN  /\ At(t, "unlink")
        /\ \/ /\ n = NULL
              /\ th' = [th EXCEPT ![t].s = NULL, ![t].ret = "", ![t].pc = th[t].ret]
              /\ UNCHANGED condition
           \/ /\ n # NULL /\ node[n].ws # CONDITION
              /\ firstWaiter' = IF trail = NULL THEN nextWaiter[n] ELSE firstWaiter
              /\ nextWaiter' = [x \in Nodes |-> IF x = n THEN NULL
                                                ELSE IF x = trail THEN nextWaiter[n]
                                                ELSE nextWaiter[x]]
              /\ lastWaiter' = IF nextWaiter[n] = NULL THEN trail ELSE lastWaiter
              /\ th' = [th EXCEPT ![t].q = nextWaiter[n]]
           \/ /\ n # NULL /\ node[n].ws = CONDITION
              /\ th' = [th EXCEPT ![t].q = nextWaiter[n], ![t].s = n]
              /\ UNCHANGED condition
        /\ UNCHANGED <<sync, node, parking, order, moved>>

\* The new node, and fullyRelease: release goes on in AQS and returns to isOnSyncQueue
AppendAndRelease(t) ==
    /\ At(t, "append")
    /\ node' = [node EXCEPT ![Me(t)] = [NewNode(t) EXCEPT !.ws = CONDITION]]
    /\ firstWaiter' = IF lastWaiter = NULL THEN Me(t) ELSE firstWaiter
    /\ nextWaiter' = IF lastWaiter = NULL THEN nextWaiter
                     ELSE [nextWaiter EXCEPT ![lastWaiter] = Me(t)]
    /\ lastWaiter' = Me(t)
    /\ state' = tryRelease
    /\ Resume(t, "rhead")
    /\ UNCHANGED <<head, tail, parking, order, moved>>

-----------------------------------------------------------------------------
(* await: until the node is on the synchronization queue *)

\* isOnSyncQueue is false: a thread that gave up too late yields, a timed one may be past its
\* deadline, and all others park.
NotOnSyncQueue(t) ==
    IF th[t].ret = "yield" THEN {"onqueue"}
    ELSE IF th[t].ret = "deadline" THEN {"cancelwait"}
    ELSE IF Call(t).how = "nanos" THEN {"cpark", "cancelwait"} ELSE {"cpark"}

OnSyncQueue(t) ==
    /\ At(t, "onqueue")
    /\ \E pc \in IF node[Me(t)].ws = CONDITION THEN NotOnSyncQueue(t) ELSE {"onqueue_prev"} :
          Goto(t, pc)
    /\ UNCHANGED <<sync, node, parking, order, condition, moved>>

OnSyncQueuePrev(t) ==
    /\ At(t, "onqueue_prev")
    /\ \E pc \in IF node[Me(t)].prev = NULL THEN NotOnSyncQueue(t) ELSE {"onqueue_next"} :
          Goto(t, pc)
    /\ UNCHANGED <<sync, node, parking, order, condition, moved>>

OnSyncQueueNext(t) ==
    /\ At(t, "onqueue_next")
    /\ IF node[Me(t)].next # NULL THEN Resume(t, "loop") ELSE Goto(t, "find")
    /\ UNCHANGED <<sync, node, parking, order, condition, moved>>

\* findNodeFromTail
FindNodeFromTail(t) ==
    /\ At(t, "find")
    /\ th' = [th EXCEPT ![t].pc = "find_scan", ![t].q = tail]
    /\ UNCHANGED <<sync, node, parking, order, condition, moved>>

FindNodeScan(t) ==
    /\ At(t, "find_scan")
    /\ \/ /\ th[t].q = Me(t)
          /\ Resume(t, "loop")
       \/ /\ th[t].q = NULL
          /\ \E pc \in NotOnSyncQueue(t) : Goto(t, pc)
       \/ /\ th[t].q \notin {Me(t), NULL}
          /\ th' = [th EXCEPT ![t].q = node[th[t].q].prev]
    /\ UNCHANGED <<sync, node, parking, order, condition, moved>>

\* park returns for a reason or without one, and parkNanos when the deadline has passed.
CondPark(t) ==
    /\ At(t, "cpark")
    /\ \/ /\ park(t, t \in Drowsy)
          /\ Goto(t, "cinterrupted")
       \/ /\ Call(t).how = "nanos"
          /\ th' = [th EXCEPT ![t].pc = "cinterrupted", ![t].ret = "deadline"]
          /\ UNCHANGED permit
    /\ UNCHANGED <<sync, node, intr, victims, order, condition, moved>>

\* checkInterruptWhileWaiting; awaitUninterruptibly only remembers
CheckInterruptWhileWaiting(t) ==
    /\ At(t, "cinterrupted")
    /\ intr' = [intr EXCEPT ![t] = FALSE]
    /\ th' = IF Call(t).how = "plain"
             THEN [th EXCEPT ![t].was = @ \/ intr[t], ![t].pc = "onqueue"]
             ELSE IF intr[t] THEN [th EXCEPT ![t].mode = "THROW_IE", ![t].pc = "cancelwait"]
             ELSE [th EXCEPT ![t].pc = "onqueue"]
    /\ UNCHANGED <<sync, node, permit, victims, order, condition, moved>>

\* Mutant: whoever was interrupted throws, signalled or not
TransferAfterCancelledWaitThrows(t) ==
    /\ At(t, "cancelwait")
    /\ compareAndSetWaitStatus(Me(t), CONDITION, 0)
    /\ IF node[Me(t)].ws = CONDITION THEN Resume(t, "enq")
       ELSE th' = [th EXCEPT ![t].pc = "onqueue", ![t].ret = "yield"]
    /\ UNCHANGED <<sync, parking, order, condition, moved>>

\* The waiter gives up, unless a signal came first: then it waits until the signaller has
\* put its node on the queue, and an interrupt is kept for later.
TransferAfterCancelledWait(t) ==
    /\ At(t, "cancelwait")
    /\ compareAndSetWaitStatus(Me(t), CONDITION, 0)
    /\ IF node[Me(t)].ws = CONDITION THEN Resume(t, "enq")
       ELSE th' = [th EXCEPT ![t].pc = "onqueue", ![t].ret = "yield",
                             ![t].mode = IF @ = "THROW_IE" THEN "REINTERRUPT" ELSE @]
    /\ UNCHANGED <<sync, parking, order, condition, moved>>

\* acquireQueued has returned; a node that gave up is still in the condition queue.
Reacquired(t) ==
    /\ At(t, "reacquired")
    /\ LET mode == IF th[t].was /\ th[t].mode # "THROW_IE" THEN "REINTERRUPT" ELSE th[t].mode
       IN  th' = IF nextWaiter[Me(t)] # NULL /\ Call(t).how # "plain"
                 THEN [th EXCEPT ![t].mode = mode, ![t].pc = "unlink", ![t].q = firstWaiter,
                                 ![t].ret = "report"]
                 ELSE [th EXCEPT ![t].mode = mode, ![t].pc = "report"]
    /\ UNCHANGED <<sync, node, parking, order, condition, moved>>

\* reportInterruptAfterWait, or selfInterrupt
ReportInterruptAfterWait(t) ==
    /\ At(t, "report")
    /\ intr' = [intr EXCEPT ![t] = @ \/ th[t].mode = "REINTERRUPT"]
    /\ EndCall(t)
    /\ UNCHANGED <<sync, node, permit, victims, order, condition, moved>>

-----------------------------------------------------------------------------
(* signal and signalAll *)

\* transferForSignal(n): false if the waiter gave up first; the call then goes on at pc, or
\* ends if that is "end".
transferForSignal(t, n, pc) ==
    /\ compareAndSetWaitStatus(n, CONDITION, 0)
    /\ IF node[n].ws = CONDITION
       THEN /\ moved' = moved \cup {n}
            /\ th' = [th EXCEPT ![t].pc = "enq", ![t].n = n, ![t].q = nextWaiter[n]]
       ELSE /\ UNCHANGED moved
            /\ IF nextWaiter[n] = NULL THEN EndCall(t)
               ELSE th' = [th EXCEPT ![t].pc = pc, ![t].q = nextWaiter[n]]

\* signal with nobody there
SignalNobody(t) ==
    /\ At(t, "start") /\ Call(t).call \in {"signal", "signalAll"}
    /\ firstWaiter = NULL
    /\ EndCall(t)
    /\ UNCHANGED <<sync, node, parking, order, condition, moved>>

\* An iteration of doSignal
DoSignal(t) ==
    LET first == firstWaiter
    IN  /\ At(t, "start") /\ Call(t).call = "signal"
        /\ first # NULL
        /\ firstWaiter' = nextWaiter[first]
        /\ lastWaiter' = IF nextWaiter[first] = NULL THEN NULL ELSE lastWaiter
        /\ nextWaiter' = [nextWaiter EXCEPT ![first] = NULL]
        /\ transferForSignal(t, first, "start")
        /\ UNCHANGED <<sync, parking, order>>

\* doSignalAll empties the queue first
DoSignalAll(t) ==
    /\ At(t, "start") /\ Call(t).call = "signalAll"
    /\ firstWaiter # NULL
    /\ firstWaiter' = NULL /\ lastWaiter' = NULL
    /\ th' = [th EXCEPT ![t].pc = "all", ![t].q = firstWaiter]
    /\ UNCHANGED <<sync, node, parking, order, nextWaiter, moved>>

SignalNext(t) ==
    /\ At(t, "all")
    /\ nextWaiter' = [nextWaiter EXCEPT ![th[t].q] = NULL]
    /\ transferForSignal(t, th[t].q, "all")
    /\ UNCHANGED <<sync, parking, order, firstWaiter, lastWaiter>>

\* enq(node) for the waiter: its prev is visible before it is on the queue
TransferPrev(t) ==
    /\ At(t, "enq") /\ tail # NULL /\ th[t].n # NULL
    /\ node' = [node EXCEPT ![th[t].n].prev = tail]
    /\ th' = [th EXCEPT ![t].pc = "transfer_tail", ![t].pred = tail]
    /\ UNCHANGED <<sync, parking, order, condition, moved>>

TransferTail(t) ==
    /\ At(t, "transfer_tail")
    /\ \/ /\ tail = th[t].pred
          /\ tail' = th[t].n
          /\ order' = Append(order, th[t].n)
          /\ Goto(t, "transfer_link")
       \/ /\ tail # th[t].pred
          /\ Goto(t, "enq")
          /\ UNCHANGED <<tail, order>>
    /\ UNCHANGED <<state, head, node, parking, condition, moved>>

TransferLink(t) ==
    /\ At(t, "transfer_link")
    /\ node' = [node EXCEPT ![th[t].pred].next = th[t].n]
    /\ Goto(t, "transfer_ws")
    /\ UNCHANGED <<sync, parking, order, condition, moved>>

\* unpark(node.thread), then on with the call
WakeTransferred(t) ==
    [th EXCEPT ![t].pc = "unpark_thread", ![t].s = th[t].n, ![t].ret = "transferred"]

\* The predecessor is cancelled: the waiter must look for another one itself
TransferWs(t) ==
    /\ At(t, "transfer_ws")
    /\ LET ws == node[th[t].pred].ws
       IN  th' = IF ws > 0 THEN WakeTransferred(t)
                 ELSE [th EXCEPT ![t].pc = "transfer_signal", ![t].ws = ws]
    /\ UNCHANGED <<sync, node, parking, order, condition, moved>>

TransferSignal(t) ==
    /\ At(t, "transfer_signal")
    /\ compareAndSetWaitStatus(th[t].pred, th[t].ws, SIGNAL)
    /\ th' = IF node[th[t].pred].ws = th[t].ws THEN [th EXCEPT ![t].pc = "transferred"]
             ELSE WakeTransferred(t)
    /\ UNCHANGED <<sync, parking, order, condition, moved>>

\* signalAll goes on with the next waiter
Transferred(t) ==
    /\ At(t, "transferred")
    /\ IF Call(t).call = "signalAll" /\ th[t].q # NULL
       THEN th' = [th EXCEPT ![t] = [Start EXCEPT !.i = th[t].i, !.pc = "all", !.q = th[t].q]]
       ELSE EndCall(t)
    /\ UNCHANGED <<sync, node, parking, order, condition, moved>>

-----------------------------------------------------------------------------

AwaitStep(t) ==
    \/ Await(t) \/ AddConditionWaiter(t) \/ UnlinkCancelledWaiters(t) \/ AppendAndRelease(t)
    \/ OnSyncQueue(t) \/ OnSyncQueuePrev(t) \/ OnSyncQueueNext(t)
    \/ FindNodeFromTail(t) \/ FindNodeScan(t)
    \/ CondPark(t) \/ CheckInterruptWhileWaiting(t) \/ TransferAfterCancelledWait(t)
    \/ Reacquired(t) \/ ReportInterruptAfterWait(t)
SignalStep(t) ==
    \/ SignalNobody(t) \/ DoSignal(t) \/ DoSignalAll(t) \/ SignalNext(t)
    \/ TransferPrev(t) \/ TransferTail(t) \/ TransferLink(t) \/ TransferWs(t)
    \/ TransferSignal(t) \/ Transferred(t)
CondStep(t) == (AwaitStep(t) \/ SignalStep(t)) /\ UNCHANGED program

\* The thread waits for a signal nobody has sent yet.
AwaitsSignal(t) == At(t, "cpark") /\ Call(t).how # "nanos" /\ node[Me(t)].ws = CONDITION

\* Nothing is left to do but to wait for signals.
AllSettled == \A t \in Threads : At(t, "done") \/ (AwaitsSignal(t) /\ ~permit[t] /\ ~intr[t])

CondNext ==
    \/ Next /\ UNCHANGED <<condition, moved>>
    \/ \E t \in Threads : CondStep(t)
    \/ AllSettled /\ UNCHANGED condVars

CondSpec == Init /\ CondInit /\ [][CondNext]_condVars

-----------------------------------------------------------------------------
(* Properties *)

\* The nodes that nextWaiter links lead to from n
WaitersFrom(n) ==
    LET forth[k \in 0..Cardinality(Nodes)] ==
            IF k = 0 THEN n ELSE IF forth[k - 1] = NULL THEN NULL ELSE nextWaiter[forth[k - 1]]
    IN  {forth[k] : k \in 0..Cardinality(Nodes)} \ {NULL}

\* Whoever waits for a signal can be found by one: its node is in the condition queue, or in the
\* hands of a signalAll, although waiters give up without the lock and the queue is cleaned
\* out only now and then.
WaitersCanBeFound ==
    /\ firstWaiter = NULL <=> lastWaiter = NULL
    /\ lastWaiter # NULL => lastWaiter \in WaitersFrom(firstWaiter) /\ nextWaiter[lastWaiter] = NULL
    /\ \A n \in Nodes : node[n].ws = CONDITION =>
          n \in WaitersFrom(firstWaiter) \cup
                UNION {WaitersFrom(th[t].q) :
                          t \in {u \in Threads : ~At(u, "done") /\ Call(u).call = "signalAll"}}

\* An await ends for one reason: it holds the lock again, and either a signal transferred its
\* node, or nobody's signal was used up and it throws or timed out.
OneReason ==
    \A t \in Threads : At(t, "report") =>
        /\ state = 1
        /\ th[t].mode = "THROW_IE" => Me(t) \notin moved
        /\ Call(t).how # "nanos" /\ th[t].mode # "THROW_IE" => Me(t) \in moved

\* No signal is lost: when every thread has finished or sleeps, nobody who was signalled sleeps
\* in its await.
NoLostSignal ==
    (\A t \in Threads : At(t, "done") \/ (th[t].pc \in {"park", "cpark"} /\ ~permit[t] /\ ~intr[t])) =>
        \A t \in Threads : At(t, "cpark") => node[Me(t)].ws = CONDITION

\* What ConditionObject promises to those who wait, with nobody cut out of the queue that a signal
\* moves them to
ConditionSound == QueueSound /\ WaitersCanBeFound /\ OneReason /\ NoLostSignal

=============================================================================
