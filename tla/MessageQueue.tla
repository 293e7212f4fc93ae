---------------------------- MODULE MessageQueue ----------------------------
(***************************************************************************)
(* The message loop of Android: MessageQueue.java with the parts of        *)
(* Looper.java, Message.java and Handler.java it works with.               *)
(*                                                                         *)
(* One thread runs Looper.loop; other threads send messages, post and      *)
(* remove synchronization barriers, wait for a task with runWithScissors,  *)
(* and quit the looper.  Each section under the queue's lock is one step.  *)
(* nativePollOnce and nativeWake are an eventfd: a flag, and a deadline    *)
(* that counts from the moment next() computes the timeout.                *)
(***************************************************************************)
EXTENDS Integers, Sequences, FiniteSets, SequencesExt, Lists

CONSTANTS Messages,       \* Message objects
          Senders,        \* the threads that use the queue
          IdleHandlers,   \* the idle handlers that are registered
          MAX_POOL_SIZE,  \* of the message pool
          MaxDelay,       \* bound: how far ahead a message is sent
          MaxUptime,      \* bound: the clock stops here
          MaxSends,       \* bound: messages and barriers sent
          SafeQuitOnly    \* TRUE: nobody calls Looper.quit

Nobody == "nobody"
NoMessage == "none"
Forever == -1

\* No message or thread goes by the name of none, and the list of idle handlers is finite.
ASSUME MqAssumption ==
    /\ NoMessage \notin Messages /\ Nobody \notin Senders
    /\ IsFiniteSet(IdleHandlers)
    /\ MAX_POOL_SIZE \in Nat /\ MaxDelay \in Nat

VARIABLES
    mMessages,     \* the queue, a sequence of messages
    msg,           \* fields of every message
    sPool,         \* the pool, a sequence of messages
    mBlocked, mQuitting, mIdleHandlers,
    awake,         \* the eventfd was written
    looper,        \* the looper thread: place, deadline of its poll, locals of next()
    sender,        \* the other threads
    uptime,        \* SystemClock.uptimeMillis()
    sends          \* messages and barriers sent so far

mqVars == <<mMessages, msg, sPool, mBlocked, mQuitting, mIdleHandlers, awake, looper,
            sender, uptime, sends>>

\* A message out of the pool.  target is null exactly in a barrier; task is the thread whose
\* BlockingRunnable is the callback.
Blank == [when |-> 0, barrier |-> FALSE, async |-> FALSE, task |-> Nobody]

\* What next() starts with
EnterNext == [pc |-> "poll", deadline |-> uptime, idleCount |-> -1, pending |-> <<>>,
              m |-> NoMessage]

MqInit ==
    /\ mMessages = <<>> /\ sPool = <<>>
    /\ msg = [m \in Messages |-> Blank]
    /\ mBlocked = FALSE /\ mQuitting = FALSE
    /\ mIdleHandlers = IdleHandlers
    /\ awake = FALSE
    /\ uptime = 1
    /\ looper = EnterNext
    /\ sender = [t \in Senders |-> [pc |-> "idle", m |-> NoMessage]]
    /\ sends = 0

-----------------------------------------------------------------------------
(* Message: the pool *)

Reachable == ToSet(mMessages) \cup ToSet(sPool) \cup {looper.m} \cup {sender[t].m : t \in Senders}

CanObtain == sPool # <<>> \/ Messages \ Reachable # {}

\* From the pool, else a new object
obtain == IF sPool # <<>> THEN Head(sPool) ELSE CHOOSE m \in Messages : m \notin Reachable
PoolAfterObtain == IF sPool # <<>> THEN Tail(sPool) ELSE sPool

\* The pool after recycleUnchecked of one message after the other, which puts it in front while
\* there is room
recycleUnchecked(pool, ms) ==
    LET room == MAX_POOL_SIZE - Len(pool)
    IN  Reverse(IF Len(ms) <= room THEN ms ELSE SubSeq(ms, 1, room)) \o pool

\* Mutant: recycled messages keep their fields
ClearedNever(ms) == msg

\* Their fields are cleared.
Cleared(ms) == [m \in Messages |-> IF m \in ToSet(ms) THEN Blank ELSE msg[m]]

-----------------------------------------------------------------------------
(* Operations of other threads *)

\* Handler: a thread gets a message to send.
Obtain(t) ==
    /\ sender[t].pc = "idle"
    /\ sends < MaxSends
    /\ CanObtain
    /\ sender' = [sender EXCEPT ![t] = [pc |-> "holds", m |-> obtain]]
    /\ sPool' = PoolAfterObtain
    /\ sends' = sends + 1
    /\ UNCHANGED <<mMessages, msg, mBlocked, mQuitting, mIdleHandlers, awake, looper, uptime>>

When(i) == msg[mMessages[i]].when
IsBarrier(i) == msg[mMessages[i]].barrier
IsAsync(i) == msg[mMessages[i]].async

\* Where a message for the time goes: before the first one that is later
Place(when) ==
    LET later == {i \in DOMAIN mMessages : When(i) > when}
    IN  IF when = 0 THEN 1
        ELSE IF later = {} THEN Len(mMessages) + 1
        ELSE CHOOSE i \in later : \A j \in later : i <= j

NewHead(when) == mMessages = <<>> \/ when = 0 \/ when < When(1)

\* Mutant: only a new head wakes the looper
needWakeBlockedHead(when, async) == mBlocked /\ NewHead(when)

\* enqueueMessage wakes the looper for a new head, or for the first asynchronous message
\* behind a barrier at the head.
needWake(when, async) ==
    /\ mBlocked
    /\ \/ NewHead(when)
       \/ /\ IsBarrier(1)
          /\ async
          /\ \A i \in 2 .. Place(when) - 1 : ~IsAsync(i)

\* enqueueMessage of a message the thread holds.  Its time may be past; 0 is the front.
\* task: the message carries a BlockingRunnable the thread waits for.
enqueueMessage(t, when, async, task) ==
    /\ sender[t].pc = "holds"
    /\ ~mQuitting
    /\ LET m == sender[t].m
       IN  /\ msg' = [msg EXCEPT ![m] = [when |-> when, barrier |-> FALSE, async |-> async,
                                         task |-> IF task THEN t ELSE Nobody]]
           /\ mMessages' = InsertAt(mMessages, Place(when), m)
    /\ awake' = (awake \/ needWake(when, async))
    /\ sender' = [sender EXCEPT ![t] = [pc |-> IF task THEN "waits" ELSE "idle", m |-> NoMessage]]
    /\ UNCHANGED <<sPool, mBlocked, mQuitting, mIdleHandlers, looper, uptime, sends>>

\* "sending message to a Handler on a dead thread": the message goes back to the pool.
enqueueOnDeadThread(t) ==
    /\ sender[t].pc = "holds"
    /\ mQuitting
    /\ sPool' = recycleUnchecked(sPool, <<sender[t].m>>)
    /\ sender' = [sender EXCEPT ![t] = [pc |-> "idle", m |-> NoMessage]]
    /\ UNCHANGED <<mMessages, msg, mBlocked, mQuitting, mIdleHandlers, awake, looper, uptime, sends>>

\* BlockingRunnable.postAndWait returns: the task is done, ...
ScissorsDone(t) ==
    /\ sender[t].pc = "done"
    /\ sender' = [sender EXCEPT ![t].pc = "idle"]
    /\ UNCHANGED <<mMessages, msg, sPool, mBlocked, mQuitting, mIdleHandlers, awake, looper,
                   uptime, sends>>

\* ... or the time is over, and the runnable remains posted.
ScissorsTimeout(t) ==
    /\ sender[t].pc = "waits"
    /\ sender' = [sender EXCEPT ![t].pc = "idle"]
    /\ msg' = [m \in Messages |-> IF msg[m].task = t THEN [msg[m] EXCEPT !.task = Nobody] ELSE msg[m]]
    /\ UNCHANGED <<mMessages, sPool, mBlocked, mQuitting, mIdleHandlers, awake, looper, uptime, sends>>

\* The barrier is a message of the pool, behind everything that is due; nobody is woken.
\* The time was read before the lock was taken.
postSyncBarrier(when) ==
    /\ sends < MaxSends
    /\ CanObtain
    /\ msg' = [msg EXCEPT ![obtain] = [Blank EXCEPT !.when = when, !.barrier = TRUE]]
    /\ mMessages' = InsertAt(mMessages, Place(when), obtain)
    /\ sPool' = PoolAfterObtain
    /\ sends' = sends + 1
    /\ UNCHANGED <<mBlocked, mQuitting, mIdleHandlers, awake, looper, sender, uptime>>

\* removeSyncBarrier wakes the looper when the head is no longer a barrier.
removeNeedsWake(i) == i = 1 /\ (Len(mMessages) = 1 \/ ~IsBarrier(2))

removeSyncBarrier(i) ==
    /\ IsBarrier(i)
    /\ mMessages' = RemoveAt(mMessages, i)
    /\ sPool' = recycleUnchecked(sPool, <<mMessages[i]>>)
    /\ msg' = Cleared(<<mMessages[i]>>)
    /\ awake' = (awake \/ (removeNeedsWake(i) /\ ~mQuitting))
    /\ UNCHANGED <<mBlocked, mQuitting, mIdleHandlers, looper, sender, uptime, sends>>

\* removeAllMessagesLocked, removeAllFutureMessagesLocked: what stays in the queue
Kept(safe) == IF safe THEN {m \in ToSet(mMessages) : msg[m].when <= uptime} ELSE {}

quit(safe) ==
    /\ ~mQuitting
    /\ mQuitting' = TRUE
    /\ LET dropped == Filter(mMessages, ToSet(mMessages) \ Kept(safe))
       IN  /\ mMessages' = Filter(mMessages, Kept(safe))
           /\ sPool' = recycleUnchecked(sPool, dropped)
           /\ msg' = Cleared(dropped)
    /\ awake' = TRUE
    /\ UNCHANGED <<mBlocked, mIdleHandlers, looper, sender, uptime, sends>>

-----------------------------------------------------------------------------
(* The looper thread *)

\* nativePollOnce returns when it was woken or its time is over.
nativePollOnce ==
    /\ looper.pc = "poll"
    /\ awake \/ (looper.deadline # Forever /\ uptime >= looper.deadline)
    /\ awake' = FALSE
    /\ looper' = [looper EXCEPT !.pc = "next", !.deadline = 0]
    /\ UNCHANGED <<mMessages, msg, sPool, mBlocked, mQuitting, mIdleHandlers, sender, uptime, sends>>

\* The position of the message next() looks at: the head or, behind a barrier, the first
\* asynchronous one; 0 if there is none
Candidate ==
    LET S == IF mMessages = <<>> THEN {}
             ELSE IF IsBarrier(1) THEN {i \in DOMAIN mMessages : IsAsync(i)} ELSE {1}
    IN  IF S = {} THEN 0 ELSE CHOOSE i \in S : \A j \in S : i <= j

DueCandidate == Candidate # 0 /\ uptime >= When(Candidate)

\* next() takes a message that is due.
NextReturns ==
    /\ looper.pc = "next"
    /\ DueCandidate
    /\ mBlocked' = FALSE
    /\ mMessages' = RemoveAt(mMessages, Candidate)
    /\ looper' = [looper EXCEPT !.pc = "dispatch", !.m = mMessages[Candidate]]
    /\ UNCHANGED <<msg, sPool, mQuitting, mIdleHandlers, awake, sender, uptime, sends>>

\* Nothing is due and the queue is quitting: dispose.
NextDisposes ==
    /\ looper.pc = "next"
    /\ ~DueCandidate
    /\ mQuitting
    /\ looper' = [looper EXCEPT !.pc = "exited"]
    /\ UNCHANGED <<mMessages, msg, sPool, mBlocked, mQuitting, mIdleHandlers, awake, sender,
                   uptime, sends>>

\* The end of the next poll
Deadline == IF Candidate = 0 THEN Forever ELSE When(Candidate)

\* The first time in this call that the loop is idle
FirstIdle == looper.idleCount < 0 /\ (mMessages = <<>> \/ uptime < When(1))
IdleCount == IF FirstIdle THEN Cardinality(mIdleHandlers) ELSE looper.idleCount

\* Nothing is due: block ...
NextBlocks ==
    /\ looper.pc = "next"
    /\ ~DueCandidate /\ ~mQuitting
    /\ IdleCount <= 0
    /\ mBlocked' = TRUE
    /\ looper' = [looper EXCEPT !.pc = "poll", !.deadline = Deadline, !.idleCount = IdleCount]
    /\ UNCHANGED <<mMessages, msg, sPool, mQuitting, mIdleHandlers, awake, sender, uptime, sends>>

\* ... or run the idle handlers without the lock.
NextIdles ==
    /\ looper.pc = "next"
    /\ ~DueCandidate /\ ~mQuitting
    /\ IdleCount > 0
    /\ looper' = [looper EXCEPT !.pc = "idle", !.deadline = Deadline, !.idleCount = IdleCount,
                                !.pending = SetToSeq(mIdleHandlers)]
    /\ UNCHANGED <<mMessages, msg, sPool, mBlocked, mQuitting, mIdleHandlers, awake, sender,
                   uptime, sends>>

\* One idle handler runs, and is removed if it returns false or throws.
queueIdle(keep) ==
    /\ looper.pc = "idle"
    /\ looper.pending # <<>>
    /\ mIdleHandlers' = IF keep THEN mIdleHandlers ELSE mIdleHandlers \ {Head(looper.pending)}
    /\ looper' = [looper EXCEPT !.pending = Tail(@)]
    /\ UNCHANGED <<mMessages, msg, sPool, mBlocked, mQuitting, awake, sender, uptime, sends>>

\* "go back and look again for a pending message without waiting"
IdleDone ==
    /\ looper.pc = "idle"
    /\ looper.pending = <<>>
    /\ looper' = [looper EXCEPT !.pc = "poll", !.deadline = uptime, !.idleCount = 0]
    /\ UNCHANGED <<mMessages, msg, sPool, mBlocked, mQuitting, mIdleHandlers, awake, sender,
                   uptime, sends>>

\* Mutant: the waiting thread is not notified
dispatchMessageUnnoticed ==
    /\ looper.pc = "dispatch"
    /\ sPool' = recycleUnchecked(sPool, <<looper.m>>)
    /\ msg' = Cleared(<<looper.m>>)
    /\ looper' = EnterNext
    /\ UNCHANGED <<mMessages, sender, mBlocked, mQuitting, mIdleHandlers, awake, uptime, sends>>

\* Looper.loop: the target handles the message, a waiting thread learns that its task is
\* done, the message is recycled and next() is called again.
dispatchMessage ==
    /\ looper.pc = "dispatch"
    /\ LET m == looper.m
       IN  /\ sender' = [t \in Senders |-> IF msg[m].task = t THEN [sender[t] EXCEPT !.pc = "done"]
                                           ELSE sender[t]]
           /\ sPool' = recycleUnchecked(sPool, <<m>>)
           /\ msg' = Cleared(<<m>>)
    /\ looper' = EnterNext
    /\ UNCHANGED <<mMessages, mBlocked, mQuitting, mIdleHandlers, awake, uptime, sends>>

MqTick ==
    /\ uptime < MaxUptime
    /\ uptime' = uptime + 1
    /\ UNCHANGED <<mMessages, msg, sPool, mBlocked, mQuitting, mIdleHandlers, awake, looper,
                   sender, sends>>

LooperNext ==
    \/ nativePollOnce
    \/ NextReturns \/ NextDisposes \/ NextBlocks \/ NextIdles
    \/ \E keep \in BOOLEAN : queueIdle(keep)
    \/ IdleDone
    \/ dispatchMessage

BarrierIsRemoved == \E i \in DOMAIN mMessages : removeSyncBarrier(i)

MqNext ==
    \/ LooperNext
    \/ \E t \in Senders :
          \/ Obtain(t)
          \/ \E when \in 0 .. uptime + MaxDelay, async \in BOOLEAN : enqueueMessage(t, when, async, FALSE)
          \/ enqueueMessage(t, uptime, FALSE, TRUE)
          \/ enqueueOnDeadThread(t)
          \/ ScissorsDone(t) \/ ScissorsTimeout(t)
    \/ \E when \in {uptime - 1, uptime} \ {0} : postSyncBarrier(when)
    \/ BarrierIsRemoved
    \/ \E safe \in BOOLEAN : (SafeQuitOnly => safe) /\ quit(safe)
    \/ MqTick

\* The looper thread runs, and every barrier is removed some time, as postSyncBarrier demands.
MqFairness == WF_mqVars(LooperNext) /\ WF_mqVars(BarrierIsRemoved)

MqSpec == MqInit /\ [][MqNext]_mqVars /\ MqFairness

-----------------------------------------------------------------------------

Later(a, b) == IF a > b THEN a ELSE b

\* However threads enqueue messages, put barriers before them and take barriers away while
\* the looper is about to poll, polls or runs idle handlers: a looper that nobody woke
\* wakes up by itself in time for the message next() would take, and for a quit
\* (enqueueMessage, removeSyncBarrier, quit, next).
NoMissedWake ==
    looper.pc = "poll" /\ ~awake =>
        /\ Candidate # 0 => /\ looper.deadline # Forever
                            /\ looper.deadline <= Later(When(Candidate), uptime)
        /\ mQuitting => looper.deadline # Forever /\ looper.deadline <= uptime

\* A message object is in one place: queued once, pooled once, with a thread that is to send
\* it, or being dispatched; a pooled one carries nothing of its earlier use, and the
\* queue is in the order of time (Message.obtain and recycle, enqueueMessage, quit).
MessagesAccounted ==
    LET where == ToSet(mMessages \o sPool) \cup {looper.m}
    IN  /\ IsInjective(mMessages \o sPool)
        /\ looper.m \notin ToSet(mMessages \o sPool)
        /\ \A t \in Senders : sender[t].m # NoMessage => sender[t].m \notin where
        /\ \A s, t \in Senders : s # t /\ sender[s].m # NoMessage => sender[s].m # sender[t].m
        /\ \A m \in ToSet(sPool) : msg[m] = Blank
        /\ \A i \in 2 .. Len(mMessages) : When(i - 1) <= When(i)

\* A thread that waits for its task (runWithScissors without a timeout) returns, unless the
\* looper is told to quit: no wake-up is lost on the way and no barrier forgotten.
ScissorsReturn == \A t \in Senders : sender[t].pc = "waits" ~> sender[t].pc # "waits" \/ mQuitting

\* "Causes the loop method to terminate as soon as all remaining messages in the message
\* queue that are already due to be delivered have been handled" (Looper.quitSafely).
SafeQuitHandlesDue ==
    looper.pc = "exited" => \A i \in DOMAIN mMessages : IsBarrier(i) \/ When(i) > uptime

=============================================================================
