--------------------------- MODULE BroadcastQueue ---------------------------
(***************************************************************************)
(* Android's broadcasts: ActivityManagerService.broadcastIntentLocked puts *)
(* a broadcast on a queue, processNextBroadcastLocked delivers it, one     *)
(* receiver at a time when it is ordered, starting processes on the way.   *)
(*                                                                         *)
(* The service's lock covers processNextBroadcastLocked: its loop is split *)
(* into steps, and nothing else runs until it is out of it.  What it calls *)
(* outside the excerpts (delivery to a process, its answer, the timeout,   *)
(* the dispatcher with its deferrals) is modelled from its use there.      *)
(***************************************************************************)
EXTENDS Integers, Sequences, FiniteSets, SequencesExt, Lists

CONSTANTS Registered,     \* BroadcastFilters that match, a sequence by falling priority
          Components,     \* manifest receivers that match, likewise
          AppOf,          \* the application (uid) of each receiver
          Priority,       \* and its priority
          MaxBroadcasts,  \* bound: broadcasts sent
          MaxRecords,     \* bound: BroadcastRecords, splits included
          MaxTroubles     \* bound: deaths, failures, timeouts, slow or aborting receivers

Receivers == ToSet(Registered) \cup ToSet(Components)

\* The two lists arrive sorted, with each receiver once; somebody is interested in the broadcast.
ASSUME BcAssumption ==
    /\ MaxBroadcasts \in Nat /\ MaxRecords \in Nat
    /\ Registered \in Seq(DOMAIN AppOf) /\ Components \in Seq(DOMAIN AppOf)
    /\ Components # <<>>
    /\ IsInjective(Registered \o Components)
    /\ Priority \in [DOMAIN AppOf -> Int]
    /\ \A list \in {Registered, Components} : \A i, j \in 1 .. Len(list) :
          i < j => Priority[list[i]] >= Priority[list[j]]

VARIABLES
    bcRec,        \* BroadcastRecords by number; sent so far are 1..bcSent
    bcParallel,   \* mParallelBroadcasts
    bcOrdered,    \* the dispatcher's ordered broadcasts, and its deferred ones
    bcDeferred,
    bcDue,        \* a deferred broadcast may go now
    bcCurrent,    \* the dispatcher's current broadcast
    bcDeferring,  \* applications under deferral
    bcPending,    \* mPendingBroadcast with mPendingBroadcastRecvIndex: waiting for a process
    bcScheduled,  \* mBroadcastsScheduled: a message to process the queue is on its way
    bcTimeout,    \* mPendingBroadcastTimeoutMessage
    bcSplits,     \* mSplitRefcounts
    bcProc,       \* processes: dead, starting, running
    bcPc,         \* where processNextBroadcastLocked is
    bcPast,       \* history of each broadcast: what was asked for, the receivers served (or given
                  \* up on) in order, results sent, and whether it was deferred or cut short
    bcUsed        \* broadcasts, records and troubles so far

bcVars == <<bcRec, bcParallel, bcOrdered, bcDeferred, bcDue, bcCurrent, bcDeferring, bcPending,
            bcScheduled, bcTimeout, bcSplits, bcProc, bcPc, bcPast, bcUsed>>

BcApps == {AppOf[x] : x \in DOMAIN AppOf}
BcIds == 1..MaxRecords
NoRecord == 0
Blanked == [receivers |-> <<>>, next |-> 1, state |-> "NONE", ordered |-> FALSE,
            resultTo |-> FALSE, token |-> 0, dispatched |-> FALSE, over |-> FALSE, deferred |-> FALSE,
            origin |-> 0]

BcInit ==
    /\ bcRec = [i \in BcIds |-> Blanked]
    /\ bcParallel = <<>> /\ bcOrdered = <<>> /\ bcDeferred = <<>> /\ bcDue = FALSE
    /\ bcCurrent = NoRecord /\ bcDeferring = {}
    /\ bcPending = [id |-> NoRecord, index |-> 0]
    /\ bcScheduled = FALSE /\ bcTimeout = FALSE
    /\ bcSplits = [i \in BcIds |-> 0]
    /\ bcProc \in [BcApps -> {"dead", "running"}]
    /\ bcPc = "out"
    /\ bcPast = [b \in 1..MaxBroadcasts |->
                   [ordered |-> FALSE, resultTo |-> FALSE, served |-> <<>>, results |-> 0,
                    deferred |-> FALSE, cut |-> FALSE]]
    /\ bcUsed = [sent |-> 0, records |-> 0, troubles |-> 0]

Troubles(n) == /\ bcUsed.troubles + n <= MaxTroubles
               /\ bcUsed' = [bcUsed EXCEPT !.troubles = @ + n]

-----------------------------------------------------------------------------
(* Sending                                                                 *)

\* Mutant: on equal priority the manifest receiver goes first
TakesHigher(registered, component) == Priority[registered] > Priority[component]

\* Whether the loop that merges the registered receivers into the manifest ones takes the next
\* registered one (ir) or leaves the manifest one (it) where it is
Takes(registered, component) == Priority[registered] >= Priority[component]

Merged(comps, regs) ==
    LET total == Len(comps) + Len(regs)
        merge[n \in 0 .. total] ==
          IF n = 0 THEN [list |-> <<>>, ir |-> 0]
          ELSE LET ir == merge[n - 1].ir
                   it == n - 1 - ir
               IN  IF ir < Len(regs) /\ (it < Len(comps) => Takes(regs[ir + 1], comps[it + 1]))
                     THEN [list |-> Append(merge[n - 1].list, regs[ir + 1]), ir |-> ir + 1]
                     ELSE [list |-> Append(merge[n - 1].list, comps[it + 1]), ir |-> ir]
    IN  merge[total].list

NewRecord(b, receivers, ordered, resultTo) ==
    [Blanked EXCEPT !.receivers = receivers, !.state = "IDLE", !.ordered = ordered,
                    !.resultTo = resultTo, !.origin = b]

\* broadcastIntentLocked.  An unordered broadcast goes to the registered receivers through the
\* parallel list; what is left is one record of the ordered list.  When the sender asks for it
\* a record replaces the last waiting one of its list, whose result is sent at once.
broadcastIntentLocked(ordered, resultTo, replacePending) ==
    LET b == bcUsed.sent + 1
        id == bcUsed.records + 1
        receivers == IF ordered THEN Merged(Components, Registered) ELSE Components
        parallel == ~ordered /\ Registered # <<>>
        pid == id + 1
        replaced == replacePending /\ bcOrdered # <<>>
        replacedParallel == parallel /\ replacePending /\ bcParallel # <<>>
        dropped == {bcRec[Last(q)] : q \in (IF replaced THEN {bcOrdered} ELSE {})
                                          \cup (IF replacedParallel THEN {bcParallel} ELSE {})}
    IN  /\ bcPc = "out" /\ b <= MaxBroadcasts /\ pid <= MaxRecords
        /\ resultTo => ordered
        /\ bcRec' = [bcRec EXCEPT ![id] = NewRecord(b, receivers, ordered, resultTo),
                                  ![pid] = IF parallel THEN NewRecord(b, Registered, FALSE, FALSE)
                                                       ELSE @]
        /\ bcParallel' = IF replacedParallel THEN Append(Front(bcParallel), pid)
                         ELSE IF parallel THEN Append(bcParallel, pid) ELSE bcParallel
        /\ bcOrdered' = IF replaced THEN Append(Front(bcOrdered), id) ELSE Append(bcOrdered, id)
        /\ bcPast' = [c \in DOMAIN bcPast |->
             IF c = b THEN [bcPast[b] EXCEPT !.ordered = ordered, !.resultTo = resultTo]
             ELSE [bcPast[c] EXCEPT
                    !.results = @ + Cardinality({d \in dropped : d.origin = c /\ d.resultTo}),
                    !.cut = @ \/ \E d \in dropped : d.origin = c]]
        /\ bcScheduled' = (bcScheduled \/ ~replaced \/ (parallel /\ ~replacedParallel))
        /\ bcUsed' = [bcUsed EXCEPT !.sent = b, !.records = IF parallel THEN pid ELSE id]
        /\ UNCHANGED <<bcDeferred, bcDue, bcCurrent, bcDeferring, bcPending, bcTimeout, bcSplits, bcProc, bcPc>>

-----------------------------------------------------------------------------
(* processNextBroadcastLocked                                              *)

\* The handler's message
BroadcastMessage ==
    /\ bcPc = "out" /\ bcScheduled
    /\ bcScheduled' = FALSE
    /\ bcPc' = "begin"
    /\ UNCHANGED <<bcRec, bcParallel, bcOrdered, bcDeferred, bcDue, bcCurrent, bcDeferring, bcPending, bcTimeout, bcSplits, bcProc, bcUsed, bcPast>>

\* Parallel broadcasts, at most one record of each, go to all their receivers at once.  Then, if a
\* process was being started for the current broadcast: keep waiting, or, if it died, deliver to
\* that receiver again.
ProcessBegin ==
    LET p == bcPending
        app == AppOf[bcRec[p.id].receivers[p.index]]
        waits == p.id # NoRecord /\ bcProc[app] # "dead"
        parallel(b) == {i \in ToSet(bcParallel) : bcRec[i].origin = b}
    IN  /\ bcPc = "begin"
        /\ bcParallel' = <<>>
        /\ bcPast' = [b \in DOMAIN bcPast |->
             IF parallel(b) = {} THEN bcPast[b]
             ELSE [bcPast[b] EXCEPT !.served = @ \o bcRec[CHOOSE i \in parallel(b) : TRUE].receivers]]
        /\ bcPc' = IF waits THEN "out" ELSE "loop"
        /\ IF p.id # NoRecord /\ ~waits
             THEN /\ bcRec' = [bcRec EXCEPT ![p.id] = [bcRec[p.id] EXCEPT !.state = "IDLE", !.next = p.index]]
                  /\ bcPending' = [id |-> NoRecord, index |-> 0]
             ELSE UNCHANGED <<bcRec, bcPending>>
        /\ UNCHANGED <<bcOrdered, bcDeferred, bcDue, bcCurrent, bcDeferring, bcScheduled, bcTimeout, bcSplits, bcProc, bcUsed>>

\* mDispatcher.getNextBroadcastLocked: the current broadcast, or a deferred one that is due, or
\* the next ordered one
getNextBroadcastLocked ==
    /\ bcPc = "loop" /\ bcCurrent = NoRecord
    /\ IF bcDue /\ bcDeferred # <<>>
         THEN /\ bcCurrent' = Head(bcDeferred) /\ bcDeferred' = Tail(bcDeferred)
              /\ bcDue' = FALSE
              /\ UNCHANGED <<bcOrdered, bcPc>>
         ELSE IF bcOrdered # <<>>
           THEN /\ bcCurrent' = Head(bcOrdered) /\ bcOrdered' = Tail(bcOrdered)
                /\ UNCHANGED <<bcDeferred, bcDue, bcPc>>
           ELSE bcPc' = "out" /\ UNCHANGED <<bcCurrent, bcDeferred, bcDue, bcOrdered>>
    /\ UNCHANGED <<bcRec, bcParallel, bcDeferring, bcPending, bcScheduled, bcTimeout, bcSplits, bcProc, bcUsed, bcPast>>

Cur == bcRec[bcCurrent]
AtLoop == bcPc = "loop" /\ bcCurrent # NoRecord
Finished == Cur.next > Len(Cur.receivers) \/ Cur.over
NextReceiver == Cur.receivers[Cur.next]
MustDefer == ~Cur.deferred /\ AppOf[NextReceiver] \in bcDeferring

\* The current broadcast is not idle: a receiver is still at work
LoopBusy ==
    /\ AtLoop /\ Cur.state # "IDLE"
    /\ bcPc' = "out"
    /\ UNCHANGED <<bcRec, bcParallel, bcOrdered, bcDeferred, bcDue, bcCurrent, bcDeferring, bcPending, bcScheduled, bcTimeout, bcSplits, bcProc, bcUsed, bcPast>>

\* A broadcast that was dispatched long ago is given up: broadcastTimeoutLocked(false), which
\* finishes the receiver and schedules the queue, and the broadcast counts as done
LoopHung ==
    /\ AtLoop /\ Cur.dispatched /\ ~Cur.over /\ Troubles(1)
    /\ bcRec' = [bcRec EXCEPT ![bcCurrent] = [Cur EXCEPT !.state = "IDLE", !.over = TRUE]]
    /\ bcPast' = [bcPast EXCEPT ![Cur.origin].cut = TRUE]
    /\ bcPending' = [id |-> NoRecord, index |-> 0]
    /\ bcScheduled' = TRUE
    /\ UNCHANGED <<bcParallel, bcOrdered, bcDeferred, bcDue, bcCurrent, bcDeferring, bcTimeout, bcSplits, bcProc, bcPc>>

\* The current broadcast is done.  With a result to send, and parts of it split off, only the
\* last part sends it.
LoopRetire ==
    LET split == Cur.resultTo /\ Cur.token # 0
        left == bcSplits[Cur.token] - 1
        send == Cur.resultTo /\ (split => left = 0)
    IN  /\ AtLoop /\ Cur.state = "IDLE" /\ Finished
        /\ bcSplits' = IF split THEN [bcSplits EXCEPT ![Cur.token] = left] ELSE bcSplits
        /\ bcPast' = IF send THEN [bcPast EXCEPT ![Cur.origin].results = @ + 1] ELSE bcPast
        /\ bcTimeout' = FALSE
        /\ bcRec' = [bcRec EXCEPT ![bcCurrent] = Blanked]
        /\ bcCurrent' = NoRecord
        /\ UNCHANGED <<bcParallel, bcOrdered, bcDeferred, bcDue, bcDeferring, bcPending, bcScheduled, bcProc, bcPc, bcUsed>>

\* The next receiver's application is under deferral: set the record aside if this is its last
\* receiver, otherwise split that application's receivers off (splitRecipientsLocked, which
\* copies resultTo and the token) and count the parts whose completion the result waits for.
Split(first) ==
    LET app == AppOf[NextReceiver]
        sole == Cur.next = Len(Cur.receivers)
        part == bcUsed.records + 1
        rest == SubSeq(Cur.receivers, Cur.next, Len(Cur.receivers))
        mine == {x \in Receivers : AppOf[x] = app}
        token == IF Cur.token = 0 THEN bcCurrent ELSE Cur.token
        kept == [Cur EXCEPT !.receivers = SubSeq(@, 1, Cur.next - 1) \o Filter(rest, Receivers \ mine),
                            !.token = IF Cur.resultTo THEN token ELSE 0]
    IN  /\ AtLoop /\ Cur.state = "IDLE" /\ ~Finished /\ MustDefer
        /\ IF sole
             THEN /\ bcRec' = [bcRec EXCEPT ![bcCurrent].deferred = TRUE]
                  /\ bcDeferred' = Append(bcDeferred, bcCurrent)
                  /\ bcCurrent' = NoRecord
                  /\ UNCHANGED <<bcSplits, bcUsed>>
             ELSE /\ part <= MaxRecords
                  /\ bcRec' = [bcRec EXCEPT ![bcCurrent] = kept,
                                 ![part] = [kept EXCEPT !.receivers = Filter(rest, mine),
                                                        !.next = 1, !.dispatched = FALSE,
                                                        !.deferred = TRUE]]
                  /\ bcSplits' = IF Cur.resultTo
                                   THEN [bcSplits EXCEPT ![token] = IF Cur.token = 0 THEN first ELSE @ + 1]
                                   ELSE bcSplits
                  /\ bcUsed' = [bcUsed EXCEPT !.records = part]
                  /\ bcDeferred' = Append(bcDeferred, part)
                  /\ UNCHANGED bcCurrent
        /\ bcPast' = [bcPast EXCEPT ![Cur.origin].deferred = TRUE]
        /\ UNCHANGED <<bcParallel, bcOrdered, bcDue, bcDeferring, bcPending, bcScheduled, bcTimeout, bcProc, bcPc>>

\* Mutant: the first split counts one part
LoopDeferCountsOne == Split(1)

LoopDefer == Split(2)

-----------------------------------------------------------------------------
(* Delivery to the next receiver, and what comes back                      *)

IsRegistered(x) == x \in ToSet(Registered)
Handle(b, x) == bcPast' = [bcPast EXCEPT ![b].served = Append(@, x)]

\* setBroadcastTimeoutLocked, unless a message is already pending
ArmTimeout == bcTimeout' = TRUE

\* Mutant: nobody is told to go on
ScheduleNot == UNCHANGED bcScheduled

\* scheduleBroadcastsLocked, on the paths that are done with a receiver at once
Schedule == bcScheduled' = TRUE

\* The record moves past its next receiver and is left in the given state.  The first delivery
\* sets dispatchTime, which a receiver that is tried again does not reset.
Deliver(state) ==
    /\ AtLoop /\ Cur.state = "IDLE" /\ ~Finished /\ ~MustDefer
    /\ bcRec' = [bcRec EXCEPT ![bcCurrent] = [Cur EXCEPT !.next = @ + 1, !.dispatched = TRUE, !.state = state]]
    /\ ArmTimeout
    /\ bcPc' = "out"
    /\ UNCHANGED <<bcParallel, bcOrdered, bcDeferred, bcDue, bcCurrent, bcDeferring, bcSplits>>

\* A receiver in a live process: a registered one of an ordered broadcast is called and will
\* answer, a manifest receiver is handed to its process (processCurBroadcastLocked)
DeliverToRunning ==
    /\ Deliver(IF IsRegistered(NextReceiver) THEN "CALL_DONE_RECEIVE" ELSE "APP_RECEIVE")
    /\ bcProc[AppOf[NextReceiver]] = "running"
    /\ Handle(Cur.origin, NextReceiver)
    /\ UNCHANGED <<bcPending, bcScheduled, bcProc, bcUsed>>

\* A registered receiver whose process is gone: quick finish
DeliverToDead ==
    /\ Deliver("IDLE")
    /\ IsRegistered(NextReceiver) /\ bcProc[AppOf[NextReceiver]] # "running"
    /\ Handle(Cur.origin, NextReceiver)
    /\ Schedule
    /\ UNCHANGED <<bcPending, bcProc, bcUsed>>

\* A receiver that is skipped (any of the checks says no), that cannot be called, or whose
\* process cannot be started
DeliverSkips ==
    /\ Deliver("IDLE") /\ Troubles(1)
    /\ Handle(Cur.origin, NextReceiver)
    /\ Schedule
    /\ UNCHANGED <<bcPending, bcProc>>

\* A manifest receiver whose process is not running, or turns out to be dead when it is called:
\* start it, and wait
DeliverStarts ==
    /\ Deliver("APP_RECEIVE")
    /\ ~IsRegistered(NextReceiver)
    /\ IF bcProc[AppOf[NextReceiver]] = "running" THEN Troubles(1) ELSE UNCHANGED bcUsed
    /\ bcProc' = [bcProc EXCEPT ![AppOf[NextReceiver]] = "starting"]
    /\ bcPending' = [id |-> bcCurrent, index |-> Cur.next]
    /\ UNCHANGED <<bcScheduled, bcPast>>

\* The receiver the current broadcast waits for, and its application
Waiting == bcCurrent # NoRecord /\ Cur.state # "IDLE"
CurReceiver == Cur.receivers[Cur.next - 1]
CurApp == AppOf[CurReceiver]

\* finishReceiverLocked
finishReceiverLocked(over) ==
    /\ bcRec' = [bcRec EXCEPT ![bcCurrent] = [Cur EXCEPT !.state = "IDLE", !.over = over]]
    /\ bcPending' = [id |-> NoRecord, index |-> 0]

\* The process has come up and gets the broadcast that waits for it
AttachApplication ==
    /\ bcPc = "out" /\ bcPending.id # NoRecord /\ bcProc[CurApp] = "starting"
    /\ bcProc' = [bcProc EXCEPT ![CurApp] = "running"]
    /\ bcPending' = [id |-> NoRecord, index |-> 0]
    /\ Handle(Cur.origin, CurReceiver)
    /\ UNCHANGED <<bcRec, bcParallel, bcOrdered, bcDeferred, bcDue, bcCurrent, bcDeferring, bcScheduled, bcTimeout, bcSplits, bcPc, bcUsed>>

\* The receiver answers; it may abort an ordered broadcast, and a slow one puts its
\* application under deferral.  The queue is processed right away.
FinishReceiver(abort, slow) ==
    /\ bcPc = "out" /\ Waiting /\ bcPending.id = NoRecord /\ bcProc[CurApp] = "running"
    /\ abort => Cur.ordered
    /\ Troubles((IF abort THEN 1 ELSE 0) + (IF slow THEN 1 ELSE 0))
    /\ finishReceiverLocked(abort)
    /\ bcPast' = IF abort THEN [bcPast EXCEPT ![Cur.origin].cut = TRUE] ELSE bcPast
    /\ bcDeferring' = IF slow THEN bcDeferring \cup {CurApp} ELSE bcDeferring
    /\ bcPc' = "begin"
    /\ UNCHANGED <<bcParallel, bcOrdered, bcDeferred, bcDue, bcCurrent, bcScheduled, bcTimeout, bcSplits, bcProc>>

\* A process dies.  The broadcast it was handling goes on without it; a process that was being
\* started is only missed when the queue is next processed.
ProcessDies(app) ==
    /\ bcPc = "out" /\ bcProc[app] # "dead" /\ Troubles(1)
    /\ bcProc' = [bcProc EXCEPT ![app] = "dead"]
    /\ IF Waiting /\ bcPending.id = NoRecord /\ CurApp = app
         THEN finishReceiverLocked(FALSE) /\ bcScheduled' = TRUE
         ELSE UNCHANGED <<bcRec, bcPending, bcScheduled>>
    /\ UNCHANGED <<bcParallel, bcOrdered, bcDeferred, bcDue, bcCurrent, bcDeferring, bcTimeout, bcSplits, bcPc, bcPast>>

\* broadcastTimeoutLocked: the receiver is given up and its process killed
BroadcastTimeout ==
    /\ bcPc = "out" /\ bcTimeout /\ Waiting
    /\ bcTimeout' = FALSE
    /\ bcProc' = [bcProc EXCEPT ![CurApp] = "dead"]
    /\ IF bcPending.id # NoRecord THEN Handle(Cur.origin, CurReceiver) ELSE UNCHANGED bcPast
    /\ finishReceiverLocked(FALSE)
    /\ bcScheduled' = TRUE
    /\ UNCHANGED <<bcParallel, bcOrdered, bcDeferred, bcDue, bcCurrent, bcDeferring, bcSplits, bcPc, bcUsed>>

\* The dispatcher's deferral check: a deferred broadcast may go, and deferrals may end
DeferralCheck(ends) ==
    /\ bcPc = "out" /\ bcDeferred # <<>> /\ ~bcDue
    /\ bcDue' = TRUE
    /\ bcDeferring' = IF ends THEN {} ELSE bcDeferring
    /\ bcScheduled' = TRUE
    /\ UNCHANGED <<bcRec, bcParallel, bcOrdered, bcDeferred, bcCurrent, bcPending, bcTimeout, bcSplits, bcProc, bcPc, bcUsed, bcPast>>

-----------------------------------------------------------------------------

processNextBroadcastLocked ==
    \/ ProcessBegin \/ getNextBroadcastLocked
    \/ LoopBusy \/ LoopRetire \/ LoopDefer
    \/ DeliverToRunning \/ DeliverToDead \/ DeliverStarts

BcNext ==
    \/ \E ordered, resultTo, replace \in BOOLEAN : broadcastIntentLocked(ordered, resultTo, replace)
    \/ BroadcastMessage \/ processNextBroadcastLocked
    \/ LoopHung \/ DeliverSkips
    \/ AttachApplication \/ BroadcastTimeout
    \/ \E abort, slow \in BOOLEAN : FinishReceiver(abort, slow)
    \/ \E app \in BcApps : ProcessDies(app)
    \/ \E ends \in BOOLEAN : DeferralCheck(ends)

BcSpec == BcInit /\ [][BcNext]_bcVars

-----------------------------------------------------------------------------
(* Properties                                                              *)

Live(b) == {i \in BcIds : bcRec[i].origin = b /\ (i \in ToSet(bcParallel \o bcOrdered \o bcDeferred)
                                                   \/ i = bcCurrent)}

\* A queue with work never stalls: between two runs of processNextBroadcastLocked there is a
\* message to run it again, or the current receiver is at work and a timeout will end its wait,
\* or only deferred broadcasts are left, which the deferral check brings back.
QueueMoves ==
    bcPc = "out" =>
        \/ bcScheduled
        \/ Waiting /\ bcTimeout
        \/ bcCurrent = NoRecord /\ bcParallel = <<>> /\ bcOrdered = <<>>

\* The receivers of an ordered broadcast in the order they are due: by priority, registered
\* ones first, and otherwise in the order they were found
Before(x, y) == \/ Priority[x] > Priority[y]
                \/ Priority[x] = Priority[y] /\ IsRegistered(x) /\ ~IsRegistered(y)

\* No receiver gets a broadcast twice, whatever dies, times out or is deferred.  The receivers
\* of an ordered broadcast are served in order unless it was deferred; and a broadcast that
\* left the queue without being aborted, replaced or given up on has reached all of them.
ServedOnceInOrder ==
    \A b \in 1..bcUsed.sent :
        LET past == bcPast[b] IN
        /\ IsInjective(past.served)
        /\ past.ordered /\ ~past.deferred =>
             \A i, j \in DOMAIN past.served : i < j => ~Before(past.served[j], past.served[i])
        /\ Live(b) = {} /\ ~past.cut => ToSet(past.served) = Receivers

\* The sender that asked for a result gets exactly one, when the last part of its broadcast is
\* done: never while a part that deferral split off is still to be delivered.
ResultOnce ==
    \A b \in 1..bcUsed.sent :
        bcPast[b].results = IF bcPast[b].resultTo /\ Live(b) = {} THEN 1 ELSE 0
=============================================================================
