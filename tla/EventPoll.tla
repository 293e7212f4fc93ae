----------------------------- MODULE EventPoll -----------------------------
(***************************************************************************)
(* The kernel's epoll: epoll_ctl, epoll_wait and the callback that a file  *)
(* runs when it has events, over the read ends of pipes.                   *)
(*                                                                         *)
(* A section under the spin lock is one step (the excerpts call the lock   *)
(* ep->lock in some functions and ep->wq.lock in others: they come from    *)
(* different versions, and it is one lock here).  ep->mtx is held across   *)
(* steps.  Pipes change, and run their wake-ups, between any two steps.    *)
(* Nested epoll files, EPOLLEXCLUSIVE and wakeup sources are left out.     *)
(***************************************************************************)
EXTENDS Integers, Sequences, FiniteSets, SequencesExt, Lists

CONSTANTS EpFiles,      \* read ends of pipes
          EpWaiters,    \* tasks that call epoll_wait
          EpControllers,\* tasks that call epoll_ctl
          MaxEvents,    \* the maxevents argument of epoll_wait
          EpModes,      \* the modes each file is registered with, among "LT", "ET", "ONESHOT"
          EpTimeouts,   \* among "forever", "zero", "some"
          EpSignals,    \* among "signal", "fatal"
          PipeBuffers,  \* pipe->buffers
          MaxPipeOps, MaxCtls, MaxFaults   \* bounds: writes and closes; calls of epoll_ctl;
                                           \* faults, signals and timeouts

Unlocked == "unlocked"
EpTasks == EpWaiters \cup EpControllers

ASSUME EpAssumption ==
    /\ MaxEvents \in Nat \ {0} /\ PipeBuffers \in Nat \ {0}
    /\ EpFiles # {}
    /\ EpWaiters \cap EpControllers = {} /\ Unlocked \notin EpTasks
    /\ \A f \in EpFiles : EpModes[f] \subseteq {"LT", "ET", "ONESHOT"}
    /\ EpTimeouts \subseteq {"forever", "zero", "some"}
    /\ EpSignals \subseteq {"signal", "fatal"}

VARIABLES
    epPipe,    \* pipes: buffers in use, and whether a writer is left
    epWakes,   \* wake-ups of pipe->wait that are on their way: <<file, key>>
    epItem,    \* epitems
    epRdl,     \* ep->rdllist
    epOvf,     \* ep->ovflist; inactive is EP_UNACTIVE_PTR
    epWq,      \* ep->wq
    epMtx,     \* holder of ep->mtx
    epTask,    \* the tasks
    epFresh,   \* history: files that had an event since the item was last polled
    epUsed     \* bounds used up, and whether a waiter was killed

epVars == <<epPipe, epWakes, epItem, epRdl, epOvf, epWq, epMtx, epTask, epFresh, epUsed>>

NoItem == [linked |-> FALSE, hooked |-> FALSE, mode |-> "LT", events |-> {}, reports |-> 0]

EpInit ==
    /\ epPipe = [f \in EpFiles |-> [bufs |-> 0, writer |-> TRUE]]
    /\ epWakes = {} /\ epFresh = {}
    /\ epItem = [f \in EpFiles |-> NoItem]
    /\ epRdl = <<>> /\ epOvf = [active |-> FALSE, list |-> <<>>]
    /\ epWq = <<>> /\ epMtx = Unlocked
    /\ epTask = [t \in EpTasks |->
                   [pc |-> "user", state |-> "running", timeout |-> "forever",
                    timed_out |-> FALSE, sig |-> "none", tx |-> <<>>, got |-> <<>>,
                    fault |-> FALSE, file |-> CHOOSE f \in EpFiles : TRUE, revents |-> {}]]
    /\ epUsed = [ops |-> 0, ctls |-> 0, faults |-> 0, killed |-> FALSE]

\* Task t becomes task.
Set(t, task) == [epTask EXCEPT ![t] = task]
GoTo(t, pc) == Set(t, [epTask[t] EXCEPT !.pc = pc])

-----------------------------------------------------------------------------
(* Pipes and the wake-up path                                              *)

\* pipe_poll on a read end
pipe_poll(f) == (IF epPipe[f].bufs > 0 THEN {"in"} ELSE {})
                  \cup (IF epPipe[f].writer THEN {} ELSE {"hup"})

\* ep_item_poll: what the file has, of what the item asks for
ep_item_poll(f) == pipe_poll(f) \cap epItem[f].events

\* wake_up and wake_up_locked on ep->wq, whose entries are exclusive: __wake_up_common goes
\* down the queue until try_to_wake_up succeeds on a task that is still asleep.
wake_up(task) ==
    LET i == SelectInSeq(epWq, LAMBDA t : task[t].state = "interruptible")
    IN  IF i = 0 THEN task ELSE [task EXCEPT ![epWq[i]].state = "running"]

ep_is_linked(f) == \/ f \in ToSet(epRdl)
                   \/ \E t \in EpWaiters : f \in ToSet(epTask[t].tx)

ep_events_available == epRdl # <<>> \/ epOvf.active

\* A writer (pipe_write) fills a buffer, or the last writer closes; the wake-up of pipe->wait
\* follows after the pipe's lock is released.
pipe_write(f) ==
    /\ epPipe[f].writer /\ epPipe[f].bufs < PipeBuffers /\ epUsed.ops < MaxPipeOps
    /\ epPipe' = [epPipe EXCEPT ![f].bufs = @ + 1]
    /\ epWakes' = epWakes \cup {<<f, {"in"}>>}
    /\ epFresh' = epFresh \cup {f}
    /\ epUsed' = [epUsed EXCEPT !.ops = @ + 1]
    /\ UNCHANGED <<epItem, epRdl, epOvf, epWq, epMtx, epTask>>

pipe_release(f) ==
    /\ epPipe[f].writer /\ epUsed.ops < MaxPipeOps
    /\ epPipe' = [epPipe EXCEPT ![f].writer = FALSE]
    /\ epWakes' = epWakes \cup {<<f, {"in", "hup"}>>}
    /\ epFresh' = epFresh \cup {f}
    /\ epUsed' = [epUsed EXCEPT !.ops = @ + 1]
    /\ UNCHANGED <<epItem, epRdl, epOvf, epWq, epMtx, epTask>>

\* pipe_read of one buffer.  Its wake-up announces room with EPOLLOUT, which no item on a read
\* end asks for, so that ep_poll_callback would ignore it.
pipe_read(f) ==
    /\ epPipe[f].bufs > 0
    /\ epPipe' = [epPipe EXCEPT ![f].bufs = @ - 1]
    /\ UNCHANGED <<epWakes, epItem, epRdl, epOvf, epWq, epMtx, epTask, epFresh, epUsed>>

\* ep_poll_callback for the item hooked to f.  An item that one-shot delivery disabled has no
\* events, and matches no key.  While a scan runs the item goes to the front of ovflist, once.
ep_poll_callback(f, key) ==
    LET wanted == epItem[f].hooked /\ key \cap epItem[f].events # {}
        overflow == wanted /\ epOvf.active
    IN  /\ epOvf' = IF overflow /\ f \notin ToSet(epOvf.list)
                      THEN [epOvf EXCEPT !.list = <<f>> \o @] ELSE epOvf
        /\ epRdl' = IF wanted /\ ~epOvf.active /\ ~ep_is_linked(f) THEN Append(epRdl, f) ELSE epRdl
        /\ epTask' = IF wanted /\ ~epOvf.active THEN wake_up(epTask) ELSE epTask

\* The wake-up of pipe->wait
pipe_wake(f, key) ==
    /\ <<f, key>> \in epWakes
    /\ epWakes' = epWakes \ {<<f, key>>}
    /\ ep_poll_callback(f, key)
    /\ UNCHANGED <<epPipe, epItem, epWq, epMtx, epFresh, epUsed>>

-----------------------------------------------------------------------------
(* epoll_ctl                                                               *)

\* do_epoll_ctl up to the switch: the operation begins when ep->mtx is free
BeginCtl(t) ==
    /\ epTask[t].pc = "user" /\ epMtx = Unlocked /\ epUsed.ctls < MaxCtls
    /\ epUsed' = [epUsed EXCEPT !.ctls = @ + 1]

\* What an item on a read end asks for: EPOLLIN, and EPOLLHUP, which do_epoll_ctl adds
ReadEvents == {"in", "hup"}

\* EPOLL_CTL_ADD of a file that is not there (otherwise EEXIST, which changes nothing): the
\* item goes into the tree.
EpollCtlAdd(t, f, mode) ==
    /\ BeginCtl(t) /\ ~epItem[f].linked
    /\ epItem' = [epItem EXCEPT ![f] =
                    [linked |-> TRUE, hooked |-> FALSE, mode |-> mode,
                     events |-> ReadEvents, reports |-> 0]]
    /\ epMtx' = t
    /\ epTask' = Set(t, [epTask[t] EXCEPT !.pc = "hook", !.file = f])
    /\ UNCHANGED <<epPipe, epWakes, epRdl, epOvf, epWq, epFresh>>

\* poll_wait inside the file's poll: ep_ptable_queue_proc hooks the item to pipe->wait
ep_ptable_queue_proc(t) ==
    /\ epTask[t].pc = "hook"
    /\ epItem' = [epItem EXCEPT ![epTask[t].file].hooked = TRUE]
    /\ epTask' = GoTo(t, "poll")
    /\ UNCHANGED <<epPipe, epWakes, epRdl, epOvf, epWq, epMtx, epFresh, epUsed>>

\* The rest of that poll reads the pipe's state
InsertPoll(t) ==
    /\ epTask[t].pc = "poll"
    /\ epTask' = Set(t, [epTask[t] EXCEPT !.pc = "link", !.revents = ep_item_poll(epTask[t].file)])
    /\ epFresh' = epFresh \ {epTask[t].file}
    /\ UNCHANGED <<epPipe, epWakes, epItem, epRdl, epOvf, epWq, epMtx, epUsed>>

\* The end of ep_insert: a ready file is linked and a waiter woken
InsertLink(t) ==
    LET f == epTask[t].file
        new == epTask[t].revents # {} /\ ~ep_is_linked(f)
        back == Set(t, [epTask[t] EXCEPT !.pc = "user", !.revents = {}])
    IN  /\ epTask[t].pc = "link"
        /\ epRdl' = IF new THEN Append(epRdl, f) ELSE epRdl
        /\ epTask' = IF new THEN wake_up(back) ELSE back
        /\ epMtx' = Unlocked
        /\ UNCHANGED <<epPipe, epWakes, epItem, epOvf, epWq, epFresh, epUsed>>

Unlink(f) == /\ epItem' = [epItem EXCEPT ![f] = NoItem]
             /\ epRdl' = RemoveFirst(epRdl, f)

\* ep_insert after the allocation of the wait queue entry failed (nwait < 0)
InsertFails(t) ==
    /\ epTask[t].pc = "hook" /\ epUsed.faults < MaxFaults
    /\ Unlink(epTask[t].file)
    /\ epUsed' = [epUsed EXCEPT !.faults = @ + 1]
    /\ epTask' = GoTo(t, "user")
    /\ epMtx' = Unlocked
    /\ UNCHANGED <<epPipe, epWakes, epOvf, epWq, epFresh>>

\* EPOLL_CTL_DEL: ep_remove unhooks and unlinks the item under ep->mtx
ep_remove(t, f) ==
    /\ BeginCtl(t) /\ epItem[f].linked
    /\ Unlink(f)
    /\ UNCHANGED <<epPipe, epWakes, epOvf, epWq, epMtx, epTask, epFresh>>

\* EPOLL_CTL_MOD: ep_modify stores the mask, polls the file again and links it if it is ready.
\* This is how a caller arms a one-shot item again.
ep_modify(t, f, mode) ==
    LET new == pipe_poll(f) \cap ReadEvents # {} /\ ~ep_is_linked(f)
    IN  /\ BeginCtl(t) /\ epItem[f].linked
        /\ epItem' = [epItem EXCEPT ![f] = [@ EXCEPT !.events = ReadEvents,
                                                     !.mode = mode, !.reports = 0]]
        /\ epFresh' = epFresh \ {f}
        /\ epRdl' = IF new THEN Append(epRdl, f) ELSE epRdl
        /\ epTask' = IF new THEN wake_up(epTask) ELSE epTask
        /\ UNCHANGED <<epPipe, epWakes, epOvf, epWq, epMtx>>

-----------------------------------------------------------------------------
(* epoll_wait                                                              *)

\* One round of ep_poll's loop, which begins with the state set to TASK_INTERRUPTIBLE: what
\* the task does next.  A fatal signal comes before the test for events, other signals after.
Fatal(t) == epTask[t].sig = "fatal"
Interrupted(t) == epTask[t].sig # "none"
LoopEnds(t) == Fatal(t) \/ ep_events_available \/ epTask[t].timed_out \/ Interrupted(t)
EINTR(t) == Fatal(t) \/ (Interrupted(t) /\ ~ep_events_available /\ ~epTask[t].timed_out)

\* check_events: with events to look at, go on to ep_send_events, otherwise return.  A signal
\* is delivered on the way back to the caller, to whom the reported events now belong.
Returned(t) == [epTask[t] EXCEPT !.pc = "user", !.state = "running", !.sig = "none",
                  !.timed_out = FALSE, !.timeout = "forever", !.fault = FALSE, !.got = <<>>,
                  !.tx = <<>>]
CheckEvents(t) == IF ep_events_available /\ ~EINTR(t)
                  THEN [epTask[t] EXCEPT !.pc = "send", !.state = "running"]
                  ELSE Returned(t)

\* The call of epoll_wait, or another turn of ep_poll, up to the release of the lock.  With
\* events available, or a timeout of zero, this is check_events; otherwise the task joins
\* ep->wq at its head and sleeps, unless a signal is pending.
Fetch(t, timeout) ==
    LET called(pc, state) == [epTask[t] EXCEPT !.pc = pc, !.state = state, !.timeout = timeout,
                                !.timed_out = (timeout = "zero")]
    IN  /\ \/ epTask[t].pc = "user"
           \/ epTask[t].pc = "fetch" /\ timeout = epTask[t].timeout
        /\ IF ep_events_available \/ timeout = "zero" \/ Interrupted(t)
             THEN /\ epTask' = Set(t, IF ep_events_available THEN called("send", "running")
                                     ELSE Returned(t))
                  /\ UNCHANGED epWq
             ELSE /\ epTask' = Set(t, called("schedule", "interruptible"))
                  /\ epWq' = <<t>> \o epWq
        /\ UNCHANGED <<epPipe, epWakes, epItem, epRdl, epOvf, epMtx, epFresh, epUsed>>

\* schedule returned: the next round of the loop
Scheduled(t) ==
    /\ epTask[t].pc = "schedule" /\ epTask[t].state = "running"
    /\ IF LoopEnds(t)
         THEN /\ epTask' = Set(t, CheckEvents(t))
              /\ epWq' = RemoveFirst(epWq, t)
         ELSE /\ epTask' = Set(t, [epTask[t] EXCEPT !.state = "interruptible"])
              /\ UNCHANGED epWq
    /\ UNCHANGED <<epPipe, epWakes, epItem, epRdl, epOvf, epMtx, epFresh, epUsed>>

\* The timer of schedule_hrtimeout_range
hrtimer(t) ==
    /\ epTask[t].pc = "schedule" /\ epTask[t].timeout = "some" /\ epTask[t].state = "interruptible"
    /\ epUsed.faults < MaxFaults
    /\ epTask' = Set(t, [epTask[t] EXCEPT !.state = "running", !.timed_out = TRUE])
    /\ epUsed' = [epUsed EXCEPT !.faults = @ + 1]
    /\ UNCHANGED <<epPipe, epWakes, epItem, epRdl, epOvf, epWq, epMtx, epFresh>>

\* A signal arrives while the task is in the call
send_signal(t, sig) ==
    /\ epTask[t].pc \in {"fetch", "schedule"} /\ epTask[t].sig = "none"
    /\ epUsed.faults < MaxFaults
    /\ epTask' = Set(t, [epTask[t] EXCEPT !.sig = sig, !.state = "running"])
    /\ epUsed' = [epUsed EXCEPT !.faults = @ + 1, !.killed = @ \/ sig = "fatal"]
    /\ UNCHANGED <<epPipe, epWakes, epItem, epRdl, epOvf, epWq, epMtx, epFresh>>

\* ep_scan_ready_list: take ep->mtx and steal the ready list
ScanStart(t) ==
    /\ epTask[t].pc = "send" /\ epMtx = Unlocked
    /\ epMtx' = t
    /\ epTask' = Set(t, [epTask[t] EXCEPT !.pc = "scan", !.tx = epRdl])
    /\ epRdl' = <<>>
    /\ epOvf' = [active |-> TRUE, list |-> <<>>]
    /\ UNCHANGED <<epPipe, epWakes, epItem, epWq, epFresh, epUsed>>

ScanMore(t) == /\ epTask[t].pc = "scan" /\ ~epTask[t].fault
               /\ epTask[t].tx # <<>> /\ Len(epTask[t].got) < MaxEvents

\* ep_send_events_proc for an item that is ready: report it, disable a one-shot item, put a
\* level-triggered one back on the ready list.
ReportEvent(t, mask(_)) ==
    LET f == Head(epTask[t].tx)
    IN  /\ ScanMore(t) /\ ep_item_poll(f) # {}
        /\ epTask' = Set(t, [epTask[t] EXCEPT !.tx = Tail(@), !.got = Append(@, f)])
        /\ epItem' = [epItem EXCEPT ![f] = [epItem[f] EXCEPT !.events = mask(f),
                                                !.reports = IF @ < 2 THEN @ + 1 ELSE @]]
        /\ epRdl' = IF epItem[f].mode = "LT" THEN Append(epRdl, f) ELSE epRdl
        /\ epFresh' = epFresh \ {f}
        /\ UNCHANGED <<epPipe, epWakes, epOvf, epWq, epMtx, epUsed>>

\* EPOLLONESHOT leaves only the private bits
OneShot(f) == IF epItem[f].mode = "ONESHOT" THEN {} ELSE epItem[f].events

\* Mutant: a one-shot item stays armed
SendEventStaysArmed(t) == ReportEvent(t, LAMBDA f : epItem[f].events)

SendEvent(t) == ReportEvent(t, OneShot)

\* The same, for an item that turns out not to be ready: it just leaves the list
SkipEvent(t) ==
    LET f == Head(epTask[t].tx)
    IN  /\ ScanMore(t) /\ ep_item_poll(f) = {}
        /\ epTask' = Set(t, [epTask[t] EXCEPT !.tx = Tail(@)])
        /\ epFresh' = epFresh \ {f}
        /\ UNCHANGED <<epPipe, epWakes, epItem, epRdl, epOvf, epWq, epMtx, epUsed>>

\* The same, when __put_user faults: the item goes back to the front and the scan ends
SendFault(t) ==
    /\ ScanMore(t) /\ ep_item_poll(Head(epTask[t].tx)) # {} /\ epUsed.faults < MaxFaults
    /\ epTask' = Set(t, [epTask[t] EXCEPT !.fault = TRUE])
    /\ epUsed' = [epUsed EXCEPT !.faults = @ + 1]
    /\ UNCHANGED <<epPipe, epWakes, epItem, epRdl, epOvf, epWq, epMtx, epFresh>>

\* The end of ep_scan_ready_list: late, the items of ovflist that are put back, go behind the
\* ready list, what is left of txlist in front of it; if something is there, wake the next
\* waiter.  A scan that found nothing, with time left, starts over.
FinishScan(t, late, wake(_)) ==
    LET again == epTask[t].got = <<>> /\ ~epTask[t].fault /\ ~epTask[t].timed_out
        task == Set(t, IF again THEN [epTask[t] EXCEPT !.pc = "fetch", !.tx = <<>>] ELSE Returned(t))
        rdl == epTask[t].tx \o epRdl \o late
    IN  /\ epTask[t].pc = "scan" /\ ~ScanMore(t)
        /\ epRdl' = rdl
        /\ epOvf' = [active |-> FALSE, list |-> <<>>]
        /\ epTask' = IF rdl # <<>> THEN wake(task) ELSE task
        /\ epMtx' = Unlocked
        /\ UNCHANGED <<epPipe, epWakes, epItem, epWq, epFresh, epUsed>>

\* The items of ovflist that are not linked
Late == Filter(epOvf.list, {f \in EpFiles : ~ep_is_linked(f)})

\* Mutants: ovflist is dropped; the next waiter is not woken
ScanDoneDropsOvflist(t) == FinishScan(t, <<>>, wake_up)
ScanDoneNoWake(t) == FinishScan(t, Late, LAMBDA task : task)

ScanDone(t) == FinishScan(t, Late, wake_up)

-----------------------------------------------------------------------------

TaskStep(t) ==
    \/ \E timeout \in EpTimeouts : Fetch(t, timeout)
    \/ Scheduled(t) \/ ScanStart(t) \/ SendEvent(t) \/ SkipEvent(t) \/ ScanDone(t)

CtlStep(t) == ep_ptable_queue_proc(t) \/ InsertPoll(t) \/ InsertLink(t)

Environment ==
    \/ \E f \in EpFiles : pipe_write(f) \/ pipe_release(f) \/ pipe_read(f)
    \/ \E t \in EpControllers : InsertFails(t)
    \/ \E t \in EpControllers, f \in EpFiles : ep_remove(t, f)
    \/ \E t \in EpControllers, f \in EpFiles : \E m \in EpModes[f] :
         EpollCtlAdd(t, f, m) \/ ep_modify(t, f, m)
    \/ \E t \in EpWaiters : hrtimer(t) \/ SendFault(t)
    \/ \E t \in EpWaiters, s \in EpSignals : send_signal(t, s)

Wakes == \E w \in epWakes : pipe_wake(w[1], w[2])

EpNext == \/ Environment \/ Wakes
          \/ \E t \in EpWaiters : TaskStep(t)
          \/ \E t \in EpControllers : CtlStep(t)

EpSpec == EpInit /\ [][EpNext]_epVars

-----------------------------------------------------------------------------
(* Properties                                                              *)

Stolen == UNION {ToSet(epTask[t].tx) : t \in EpWaiters}
Inserting(f) == \E t \in EpControllers : epTask[t].file = f /\ epTask[t].pc \in {"hook", "poll", "link"}

\* An item with something to report is on a list, or a wake-up that will put it there is on its
\* way: the races of ep_insert and of the scan with ep_poll_callback lose no event.  For an
\* edge-triggered item that is an event nobody has polled since it happened.
NoEventLost ==
    \A f \in EpFiles :
        (/\ epItem[f].hooked /\ ~Inserting(f)
         /\ ep_item_poll(f) # {}
         /\ epItem[f].mode = "ET" => f \in epFresh)
        => \/ f \in ToSet(epRdl) \cup Stolen \cup ToSet(epOvf.list)
           \/ \E w \in epWakes : w[1] = f /\ w[2] \cap epItem[f].events # {}

\* Nobody sleeps over events: if the ready list holds something that no scan is working on and
\* a task sleeps in epoll_wait, another one is awake and on its way to the list.  A task that
\* is killed is the exception: ep_poll leaves at once and passes no wake-up on.
NobodySleepsOverEvents ==
    (/\ epRdl # <<>> /\ ~epOvf.active /\ ~epUsed.killed
     /\ \E t \in EpWaiters : epTask[t].state = "interruptible")
    => \E t \in EpWaiters : /\ epTask[t].pc \in {"fetch", "schedule", "send"}
                            /\ epTask[t].state = "running"

\* The lists of ready items are lists: no item is linked twice or after it was removed, nothing
\* is left on ovflist, and no epoll_wait reports an item twice, or a one-shot item that was
\* already reported since it was armed.
ReadyListsSound ==
    /\ \A t \in EpWaiters : IsInjective(epTask[t].tx \o epRdl) /\ IsInjective(epTask[t].got)
    /\ ToSet(epRdl) \cup Stolen \cup ToSet(epOvf.list) \subseteq {f \in EpFiles : epItem[f].linked}
    /\ epOvf.active <=> \E t \in EpWaiters : epTask[t].pc = "scan"
    /\ \A f \in EpFiles : epItem[f].mode = "ONESHOT" => epItem[f].reports <= 1
=============================================================================
