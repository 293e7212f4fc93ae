---------------------------- MODULE AeEventLoop ----------------------------
(***************************************************************************)
(* The event loop of redis 2.2: ae.c on top of ae_epoll.c.                 *)
(*                                                                         *)
(* One thread runs aeMain.  Handlers are code outside of the loop: while   *)
(* one runs it calls the operations of the loop in any order and number.   *)
(* The kernel returns any events of the descriptors it was asked to watch. *)
(* Time is counted in milliseconds, MsPerSec of them to a second, and goes *)
(* on at any moment, also while a handler runs.                            *)
(***************************************************************************)
EXTENDS Integers, Sequences, FiniteSets, SequencesExt

CONSTANTS Fds,        \* file descriptors: 0 .. n
          SetSize,    \* AE_SETSIZE, the size of the tables
          Procs,      \* file event handlers
          Flags,      \* the flags with which aeProcessEvents is called
          MsPerSec,   \* milliseconds per second: 1000
          Delays,     \* delays in milliseconds that timers are given
          MaxTime,    \* bound: the clock stops here
          MaxTimers   \* bound: time events ever created

\* Descriptors and delays are not negative, and a second has milliseconds.
ASSUME AeAssumption ==
    /\ Fds \subseteq Nat
    /\ SetSize \in Nat
    /\ Flags \subseteq SUBSET {"file", "time", "dont_wait"}
    /\ MsPerSec \in Nat \ {0}
    /\ Delays \subseteq Nat

VARIABLES
    loop,     \* aeEventLoop: maxfd, timeEventNextId, events, timeEventHead (a sequence), stop
    interest, \* the kernel's epoll set: what it watches of each descriptor
    now,      \* the clock
    run,      \* where aeMain is, with the local variables of aeProcessEvents
    newborn   \* history: ids of the time events created since processTimeEvents began

aeVars == <<loop, interest, now, run, newborn>>

Masks == SUBSET {"readable", "writable"}
NoTimer == -1

FileEvent == [mask : Masks, rfileProc : Procs \cup {"none"}, wfileProc : Procs \cup {"none"}]

\* aeCreateEventLoop, and aeMain up to its first iteration
AeInit ==
    /\ loop = [maxfd |-> -1, timeEventNextId |-> 0, timeEventHead |-> <<>>, stop |-> FALSE,
               events |-> [fd \in 0 .. SetSize - 1 |->
                             [mask |-> {}, rfileProc |-> "none", wfileProc |-> "none"]]]
    /\ interest = [fd \in Fds |-> {}]
    /\ now = 0
    /\ run = [pc |-> "before", flags |-> {}, fired |-> <<>>, rfired |-> FALSE, te |-> NoTimer,
              maxId |-> -1, timeout |-> 0, since |-> 0]
    /\ newborn = {}

-----------------------------------------------------------------------------
(* The operations of the loop, called by handlers *)

InHandler == run.pc \in {"before", "rproc", "wproc", "timeproc"}

\* A time as the code keeps it, and back
Sec(t) == t \div MsPerSec
Ms(t) == t % MsPerSec
WhenOf(te) == te.when_sec * MsPerSec + te.when_ms

\* aeApiAddEvent: one epoll_ctl, ADD or MOD, with the merged mask
aeApiAddEvent(fd, mask) == [interest EXCEPT ![fd] = mask \cup loop.events[fd].mask]

\* aeApiDelEvent, called when events[fd] no longer has the mask: MOD, or DEL
aeApiDelEvent(events, fd, mask) == [interest EXCEPT ![fd] = events[fd].mask \ mask]

\* A descriptor beyond the tables is refused.
aeCreateFileEvent(fd, mask, proc) ==
    /\ InHandler
    /\ fd < SetSize
    /\ interest' = aeApiAddEvent(fd, mask)
    /\ loop' = [loop EXCEPT
          !.events[fd] = [mask |-> @.mask \cup mask,
                          rfileProc |-> IF "readable" \in mask THEN proc ELSE @.rfileProc,
                          wfileProc |-> IF "writable" \in mask THEN proc ELSE @.wfileProc],
          !.maxfd = IF fd > @ THEN fd ELSE @]
    /\ UNCHANGED <<now, run, newborn>>

\* The largest registered descriptor below maxfd, or -1
NextMaxfd(events) ==
    LET below == {fd \in 0 .. loop.maxfd - 1 : events[fd].mask # {}}
    IN  IF below = {} THEN -1 ELSE CHOOSE fd \in below : \A g \in below : g <= fd

\* Mutant: maxfd stays when its descriptor goes
aeDeleteFileEventKeepsMaxfd(fd, mask) ==
    /\ InHandler
    /\ fd < SetSize
    /\ loop.events[fd].mask # {}
    /\ LET events == [loop.events EXCEPT ![fd].mask = @ \ mask]
       IN  /\ loop' = [loop EXCEPT !.events = events]
           /\ interest' = aeApiDelEvent(events, fd, mask)
    /\ UNCHANGED <<now, run, newborn>>

aeDeleteFileEvent(fd, mask) ==
    /\ InHandler
    /\ fd < SetSize
    /\ loop.events[fd].mask # {}
    /\ LET events == [loop.events EXCEPT ![fd].mask = @ \ mask]
       IN  /\ loop' = [loop EXCEPT !.events = events,
                         !.maxfd = IF fd = @ /\ events[fd].mask = {} THEN NextMaxfd(events) ELSE @]
           /\ interest' = aeApiDelEvent(events, fd, mask)
    /\ UNCHANGED <<now, run, newborn>>

\* Splitting the delay and carrying the milliseconds
aeAddMillisecondsToNow(te, delay) ==
    LET ms == Ms(now) + Ms(delay)
        carry == ms >= MsPerSec
    IN  [te EXCEPT !.when_sec = Sec(now) + Sec(delay) + (IF carry THEN 1 ELSE 0),
                   !.when_ms = IF carry THEN ms - MsPerSec ELSE ms]

aeCreateTimeEvent(delay) ==
    /\ InHandler
    /\ loop.timeEventNextId < MaxTimers
    /\ LET id == loop.timeEventNextId
           te == aeAddMillisecondsToNow([id |-> id, when_sec |-> 0, when_ms |-> 0], delay)
       IN  /\ loop' = [loop EXCEPT !.timeEventNextId = id + 1, !.timeEventHead = <<te>> \o @]
           /\ newborn' = IF run.pc = "timeproc" THEN newborn \cup {id} ELSE newborn
    /\ UNCHANGED <<interest, now, run>>

\* The list without its first timer of this id
Without(list, id) == RemoveFirstMatch(list, LAMBDA te : te.id = id)

\* Unlinks the event and frees it.  An unknown id is AE_ERR and changes nothing.
aeDeleteTimeEvent(id) ==
    /\ InHandler
    /\ loop' = [loop EXCEPT !.timeEventHead = Without(@, id)]
    /\ UNCHANGED <<interest, now, run, newborn>>

aeStop ==
    /\ InHandler
    /\ loop' = [loop EXCEPT !.stop = TRUE]
    /\ UNCHANGED <<interest, now, run, newborn>>

-----------------------------------------------------------------------------
(* aeProcessEvents *)

Ids == {loop.timeEventHead[i].id : i \in DOMAIN loop.timeEventHead}
TimerAt(id) == CHOOSE i \in DOMAIN loop.timeEventHead : loop.timeEventHead[i].id = id
Timer(id) == loop.timeEventHead[TimerAt(id)]
HeadTimer(list) == IF list = <<>> THEN NoTimer ELSE list[1].id
NextTimer(id) == LET i == TimerAt(id) IN
    IF i = Len(loop.timeEventHead) THEN NoTimer ELSE loop.timeEventHead[i + 1].id

\* Mutant: the seconds are not compared
EarlierByMs(a, b) == a.when_ms < b.when_ms

Earlier(a, b) == \/ a.when_sec < b.when_sec
                 \/ a.when_sec = b.when_sec /\ a.when_ms < b.when_ms

\* The first of the earliest timers in the list
aeSearchNearestTimer ==
    LET list == loop.timeEventHead
    IN  list[CHOOSE i \in DOMAIN list : \A j \in DOMAIN list :
                ~Earlier(list[j], list[i]) /\ (j < i => Earlier(list[i], list[j]))]

AtLeast0(n) == IF n < 0 THEN 0 ELSE n

\* The time missing for te to fire, second and millisecond apart, as given to epoll_wait
TimeMissing(te) ==
    LET borrow == te.when_ms < Ms(now)
        sec == te.when_sec - Sec(now) - (IF borrow THEN 1 ELSE 0)
        ms == te.when_ms - Ms(now) + (IF borrow THEN MsPerSec ELSE 0)
    IN  AtLeast0(sec) * MsPerSec + AtLeast0(ms)

WaitsForTimers == "time" \in run.flags /\ "dont_wait" \notin run.flags

\* The poll's timeout, -1 for ever
Timeout(flags) ==
    IF "time" \in flags /\ "dont_wait" \notin flags /\ loop.timeEventHead # <<>>
    THEN TimeMissing(aeSearchNearestTimer)
    ELSE IF "dont_wait" \in flags THEN 0 ELSE -1

\* beforesleep returns, or an outside caller comes: the loop polls, goes on to the
\* timers without polling, or has nothing to do.
aeProcessEvents(flags) ==
    /\ run.pc = "before"
    /\ flags \cap {"file", "time"} # {}
    /\ run' = [run EXCEPT !.flags = flags, !.since = now, !.timeout = Timeout(flags),
                 !.pc = IF loop.maxfd # -1 \/ ("time" \in flags /\ "dont_wait" \notin flags)
                        THEN "asleep" ELSE "timers"]
    /\ UNCHANGED <<loop, interest, now, newborn>>

\* The kernel returns some events of watched descriptors in some order, or none, at the
\* timeout or because of a signal.
aeApiPoll(fired) ==
    /\ run.pc = "asleep"
    /\ \A i \in DOMAIN fired : fired[i].mask \subseteq interest[fired[i].fd]
    /\ run' = [run EXCEPT !.pc = "file", !.fired = fired, !.timeout = 0, !.since = 0]
    /\ UNCHANGED <<loop, interest, now, newborn>>

Fired == Head(run.fired)
Fe == loop.events[Fired.fd]

\* The readable handler, if the event is still registered
CallReadable ==
    /\ run.pc = "file"
    /\ run.fired # <<>>
    /\ LET r == "readable" \in Fe.mask \cap Fired.mask
       IN  run' = [run EXCEPT !.rfired = r, !.pc = IF r THEN "rproc" ELSE "writable"]
    /\ UNCHANGED <<loop, interest, now, newborn>>

\* The writable handler, unless the same procedure was just called
CallWritable ==
    /\ run.pc = "writable"
    /\ run' = IF /\ "writable" \in Fe.mask \cap Fired.mask
                 /\ ~run.rfired \/ Fe.wfileProc # Fe.rfileProc
              THEN [run EXCEPT !.pc = "wproc"]
              ELSE [run EXCEPT !.pc = "file", !.fired = Tail(@), !.rfired = FALSE]
    /\ UNCHANGED <<loop, interest, now, newborn>>

FileProcReturns ==
    /\ run.pc \in {"rproc", "wproc"}
    /\ run' = IF run.pc = "rproc" THEN [run EXCEPT !.pc = "writable"]
              ELSE [run EXCEPT !.pc = "file", !.fired = Tail(@), !.rfired = FALSE]
    /\ UNCHANGED <<loop, interest, now, newborn>>

FileEventsDone ==
    /\ run.pc = "file"
    /\ run.fired = <<>>
    /\ run' = [run EXCEPT !.pc = "timers"]
    /\ UNCHANGED <<loop, interest, now, newborn>>

-----------------------------------------------------------------------------
(* processTimeEvents *)

\* What follows aeProcessEvents: aeMain's next iteration, unless it was stopped
Again == IF loop.stop THEN "stopped" ELSE "before"

\* The largest id handled in this pass
MaxId == loop.timeEventNextId - 1

processTimeEvents ==
    /\ run.pc = "timers"
    /\ run' = IF "time" \in run.flags
              THEN [run EXCEPT !.pc = "time", !.te = HeadTimer(loop.timeEventHead), !.maxId = MaxId]
              ELSE [run EXCEPT !.pc = Again]
    /\ newborn' = {}
    /\ UNCHANGED <<loop, interest, now>>

Due(te) == \/ Sec(now) > te.when_sec
           \/ Sec(now) = te.when_sec /\ Ms(now) >= te.when_ms

\* One iteration: skip a new or early timer, or call a due one
LookAtTimer ==
    /\ run.pc = "time"
    /\ run.te # NoTimer
    /\ run' = IF run.te <= run.maxId /\ Due(Timer(run.te))
              THEN [run EXCEPT !.pc = "timeproc"]
              ELSE [run EXCEPT !.te = NextTimer(run.te)]
    /\ UNCHANGED <<loop, interest, now, newborn>>

\* The handler wants to be called again: the timer is given a new time in place, and the
\* list is walked from its head.  A handler that deleted its own timer must not do this.
TimeProcAgain(delay) ==
    /\ run.pc = "timeproc"
    /\ run.te \in Ids
    /\ loop' = [loop EXCEPT !.timeEventHead[TimerAt(run.te)] = aeAddMillisecondsToNow(@, delay)]
    /\ run' = [run EXCEPT !.pc = "time", !.te = HeadTimer(loop.timeEventHead)]
    /\ UNCHANGED <<interest, now, newborn>>

\* Mutant: the pass goes on with the timer behind the one that was deleted
TimeProcNoMoreGoesOn ==
    /\ run.pc = "timeproc"
    /\ loop' = [loop EXCEPT !.timeEventHead = Without(@, run.te)]
    /\ run' = [run EXCEPT !.pc = "time"]
    /\ UNCHANGED <<interest, now, newborn>>

\* AE_NOMORE: the timer is deleted, if it still exists.
TimeProcNoMore ==
    /\ run.pc = "timeproc"
    /\ loop' = [loop EXCEPT !.timeEventHead = Without(@, run.te)]
    /\ run' = [run EXCEPT !.pc = "time", !.te = HeadTimer(loop'.timeEventHead)]
    /\ UNCHANGED <<interest, now, newborn>>

\* The pass is over.
TimeEventsDone ==
    /\ run.pc = "time"
    /\ run.te = NoTimer
    /\ run' = [run EXCEPT !.pc = Again, !.maxId = -1]
    /\ newborn' = {}
    /\ UNCHANGED <<loop, interest, now>>

\* aeMain was left and is called again.
aeMain ==
    /\ run.pc = "stopped"
    /\ loop' = [loop EXCEPT !.stop = FALSE]
    /\ run' = [run EXCEPT !.pc = "before"]
    /\ UNCHANGED <<interest, now, newborn>>

Tick ==
    /\ now < MaxTime
    /\ now' = now + 1
    /\ UNCHANGED <<loop, interest, run, newborn>>

\* What the kernel may report: each descriptor at most once
FiredEvents ==
    {s \in UNION {[1 .. n -> [fd : Fds, mask : Masks \ {{}}]] : n \in 0 .. Cardinality(Fds)} :
        \A i, j \in DOMAIN s : i # j => s[i].fd # s[j].fd}

AeNext ==
    \/ \E fd \in Fds, mask \in Masks \ {{}}, proc \in Procs : aeCreateFileEvent(fd, mask, proc)
    \/ \E fd \in Fds, mask \in Masks \ {{}} : aeDeleteFileEvent(fd, mask)
    \/ \E delay \in Delays : aeCreateTimeEvent(delay)
    \/ \E id \in Ids : aeDeleteTimeEvent(id)
    \/ aeStop
    \/ \E flags \in Flags : aeProcessEvents(flags)
    \/ \E fired \in FiredEvents : aeApiPoll(fired)
    \/ CallReadable \/ CallWritable \/ FileProcReturns \/ FileEventsDone
    \/ processTimeEvents \/ LookAtTimer
    \/ \E delay \in Delays : TimeProcAgain(delay)
    \/ TimeProcNoMore \/ TimeEventsDone
    \/ aeMain
    \/ Tick

AeSpec == AeInit /\ [][AeNext]_aeVars

-----------------------------------------------------------------------------

\* The kernel watches exactly what the table says, however registrations are merged and
\* taken apart, and maxfd, on which the decision to poll depends, is the largest
\* registered descriptor (aeCreateFileEvent, aeDeleteFileEvent, aeApiAddEvent, aeApiDelEvent).
TableMatchesKernel ==
    LET registered == {fd \in 0 .. SetSize - 1 : loop.events[fd].mask # {}}
    IN  /\ \A fd \in Fds : interest[fd] = (IF fd < SetSize THEN loop.events[fd].mask ELSE {})
        /\ \A fd \in registered : fd <= loop.maxfd
        /\ loop.maxfd \in registered \cup {-1}

\* A loop that waits for timers never sleeps past one, whichever of several timers it
\* picked and however the second is borrowed, unless one is late already; then it sleeps
\* less than a second.  It never sleeps for ever when there is a timer (aeProcessEvents,
\* aeSearchNearestTimer, aeAddMillisecondsToNow).
SleepsNoLonger ==
    LET whens == {WhenOf(loop.timeEventHead[i]) : i \in DOMAIN loop.timeEventHead}
    IN  run.pc = "asleep" /\ WaitsForTimers /\ whens # {} =>
            /\ run.timeout >= 0
            /\ IF \E when \in whens : when < run.since
               THEN run.timeout < MsPerSec
               ELSE \A when \in whens : run.since + run.timeout <= when

\* What "Without special flags the function sleeps until some file event fires, or when
\* the next time event occurrs" says: with a timer that is due the loop does not sleep.
NeverSleepsOnDueTimer ==
    run.pc = "asleep" /\ WaitsForTimers =>
        \A i \in DOMAIN loop.timeEventHead :
            WhenOf(loop.timeEventHead[i]) <= run.since => run.timeout = 0

\* While processTimeEvents walks a list that handlers change, the node it looks at is never
\* one that was freed, and no timer runs in the pass in which it was created
\* ("in order to don't loop forever").
TimerPass ==
    /\ run.pc = "time" /\ run.te # NoTimer => run.te \in Ids
    /\ run.pc = "timeproc" => run.te \notin newborn
=============================================================================
