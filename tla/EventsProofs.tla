---------------------------- MODULE EventsProofs ----------------------------
(***************************************************************************)
(* Proofs about the event loops: the one of Redis, for any tables, handlers, *)
(* delays and any length of a second, and epoll, for any files, tasks and  *)
(* maxevents.                                                              *)
(***************************************************************************)
EXTENDS AeEventLoop, EventPoll, ListsProofs

-----------------------------------------------------------------------------
(* The event loop *)


TimeEvent == [id : Nat, when_sec : Nat, when_ms : 0 .. MsPerSec - 1]

Pcs == {"before", "asleep", "file", "rproc", "writable", "wproc", "timers", "time", "timeproc",
        "stopped"}

LoopType == [maxfd : Int, timeEventNextId : Nat, timeEventHead : Seq(TimeEvent),
             stop : BOOLEAN, events : [0 .. SetSize - 1 -> FileEvent]]

RunType == [pc : Pcs, flags : SUBSET {"file", "time", "dont_wait"},
            fired : Seq([fd : Fds, mask : Masks]), rfired : BOOLEAN, te : Int, maxId : Int,
            timeout : Int, since : Nat]

AeTypeOK ==
    /\ loop \in LoopType
    /\ interest \in [Fds -> Masks]
    /\ now \in Nat
    /\ run \in RunType
    /\ newborn \subseteq Nat

\* Timers created during the pass are newer than every timer the pass may call.
NewbornAreNew ==
    /\ run.maxId < loop.timeEventNextId
    /\ \A id \in newborn : run.maxId < id
    /\ run.pc = "timeproc" => run.te <= run.maxId

\* aeProcessEvents works on an event until it goes on to the next.
HandlerHasEvent == run.pc \in {"rproc", "writable", "wproc"} => run.fired # <<>>

AeInv == AeTypeOK /\ HandlerHasEvent /\ NewbornAreNew /\ TableMatchesKernel /\ SleepsNoLonger /\ TimerPass

-----------------------------------------------------------------------------
(* Time *)

\* A time split into seconds and milliseconds is the time.
LEMMA SplitTime ==
    ASSUME NEW t \in Nat
    PROVE  Sec(t) \in Nat /\ Ms(t) \in 0 .. MsPerSec - 1 /\ t = Sec(t) * MsPerSec + Ms(t)
  BY AeAssumption DEF Sec, Ms

\* Whole seconds differ by at least one.
LEMMA WholeSeconds ==
    ASSUME NEW a \in Int, NEW b \in Int, a < b
    PROVE  a * MsPerSec + MsPerSec <= b * MsPerSec
  BY AeAssumption

\* Seconds add up, with and without a carry (aeAddMillisecondsToNow).
LEMMA SumOfSeconds ==
    ASSUME NEW a \in Nat, NEW b \in Nat
    PROVE  /\ (a + b + 0) * MsPerSec = a * MsPerSec + b * MsPerSec
           /\ (a + b + 1) * MsPerSec = a * MsPerSec + b * MsPerSec + MsPerSec
  BY AeAssumption

\* aeAddMillisecondsToNow carries the milliseconds: the timer is due exactly delay after now.
LEMMA DueAfterDelay ==
    ASSUME now \in Nat, NEW delay \in Nat, NEW te \in [id : Nat, when_sec : Int, when_ms : Int]
    PROVE  /\ aeAddMillisecondsToNow(te, delay) \in TimeEvent
           /\ aeAddMillisecondsToNow(te, delay).id = te.id
           /\ WhenOf(aeAddMillisecondsToNow(te, delay)) = now + delay
<1> DEFINE ms == Ms(now) + Ms(delay)
           new == aeAddMillisecondsToNow(te, delay)
<1>1. /\ Sec(now) \in Nat /\ Ms(now) \in 0 .. MsPerSec - 1
      /\ Sec(delay) \in Nat /\ Ms(delay) \in 0 .. MsPerSec - 1
      /\ now = Sec(now) * MsPerSec + Ms(now) /\ delay = Sec(delay) * MsPerSec + Ms(delay)
  BY SplitTime
<1>2. Sec(now) * MsPerSec \in Nat /\ Sec(delay) * MsPerSec \in Nat
  BY <1>1, AeAssumption
<1>3. ASSUME NEW s \in Nat, NEW m \in 0 .. MsPerSec - 1,
             new = [te EXCEPT !.when_sec = s, !.when_ms = m]
      PROVE  new \in TimeEvent /\ new.id = te.id /\ WhenOf(new) = s * MsPerSec + m
  BY <1>3, AeAssumption DEF TimeEvent, WhenOf
<1>4. CASE ms >= MsPerSec
  <2>1. new = [te EXCEPT !.when_sec = Sec(now) + Sec(delay) + 1, !.when_ms = ms - MsPerSec]
    BY <1>1, <1>4, AeAssumption DEF aeAddMillisecondsToNow
  <2>2. Sec(now) + Sec(delay) + 1 \in Nat /\ ms - MsPerSec \in 0 .. MsPerSec - 1
    BY <1>1, <1>4, AeAssumption
  <2>3. new \in TimeEvent /\ new.id = te.id
        /\ WhenOf(new) = (Sec(now) + Sec(delay) + 1) * MsPerSec + (ms - MsPerSec)
    BY <1>3, <2>1, <2>2, Zenon
  <2>4. (Sec(now) + Sec(delay) + 1) * MsPerSec
          = Sec(now) * MsPerSec + Sec(delay) * MsPerSec + MsPerSec
    BY <1>1, SumOfSeconds
  <2> HIDE DEF new
  <2>5. WhenOf(new) = now + delay
    BY <1>1, <1>2, <2>3, <2>4, AeAssumption
  <2> QED BY <2>3, <2>5 DEF new
<1>5. CASE ~(ms >= MsPerSec)
  <2>1. new = [te EXCEPT !.when_sec = Sec(now) + Sec(delay) + 0, !.when_ms = ms]
    BY <1>1, <1>5, AeAssumption DEF aeAddMillisecondsToNow
  <2>2. Sec(now) + Sec(delay) + 0 \in Nat /\ ms \in 0 .. MsPerSec - 1
    BY <1>1, <1>5, AeAssumption
  <2>3. new \in TimeEvent /\ new.id = te.id
        /\ WhenOf(new) = (Sec(now) + Sec(delay) + 0) * MsPerSec + ms
    BY <1>3, <2>1, <2>2, Zenon
  <2>4. (Sec(now) + Sec(delay) + 0) * MsPerSec = Sec(now) * MsPerSec + Sec(delay) * MsPerSec
    BY <1>1, SumOfSeconds
  <2>5. WhenOf(new) = Sec(now) * MsPerSec + Sec(delay) * MsPerSec + (Ms(now) + Ms(delay))
    BY <2>3, <2>4, Zenon
  <2> HIDE DEF new
  <2>6. WhenOf(new) = now + delay
    BY <1>1, <1>2, <2>5, AeAssumption
  <2> QED BY <2>3, <2>6 DEF new
<1> QED BY <1>4, <1>5

\* aeSearchNearestTimer compares seconds, then milliseconds: this compares the times.
LEMMA EarlierIsLess ==
    ASSUME NEW a \in TimeEvent, NEW b \in TimeEvent
    PROVE  /\ WhenOf(a) \in Nat
           /\ Earlier(a, b) <=> WhenOf(a) < WhenOf(b)
<1>1. /\ a.when_sec \in Nat /\ a.when_ms \in 0 .. MsPerSec - 1
      /\ b.when_sec \in Nat /\ b.when_ms \in 0 .. MsPerSec - 1
  BY DEF TimeEvent
<1>2. a.when_sec * MsPerSec \in Nat /\ b.when_sec * MsPerSec \in Nat
  BY <1>1, AeAssumption
<1>3. CASE a.when_sec < b.when_sec
  <2>1. a.when_sec * MsPerSec + MsPerSec <= b.when_sec * MsPerSec
    BY <1>1, <1>3, WholeSeconds
  <2> QED BY <1>1, <1>2, <1>3, <2>1, AeAssumption DEF Earlier, WhenOf
<1>4. CASE b.when_sec < a.when_sec
  <2>1. b.when_sec * MsPerSec + MsPerSec <= a.when_sec * MsPerSec
    BY <1>1, <1>4, WholeSeconds
  <2> QED BY <1>1, <1>2, <1>4, <2>1, AeAssumption DEF Earlier, WhenOf
<1>5. CASE a.when_sec = b.when_sec
  BY <1>1, <1>2, <1>5, AeAssumption DEF Earlier, WhenOf
<1> QED BY <1>1, <1>3, <1>4, <1>5

\* Seconds are subtracted, with and without a borrow (the time-out of aeProcessEvents).
LEMMA DifferenceOfSeconds ==
    ASSUME NEW a \in Nat, NEW b \in Nat
    PROVE  /\ (a - b) * MsPerSec = a * MsPerSec - b * MsPerSec
           /\ (a - b - 1) * MsPerSec = a * MsPerSec - b * MsPerSec - MsPerSec
  BY AeAssumption

\* The timeout computed for a timer ends when it is due, and is less than a second for one
\* that is late.
LEMMA MissingTime ==
    ASSUME now \in Nat, NEW te \in TimeEvent
    PROVE  /\ TimeMissing(te) \in Nat
           /\ now <= WhenOf(te) => now + TimeMissing(te) = WhenOf(te)
           /\ WhenOf(te) < now => TimeMissing(te) < MsPerSec
<1> DEFINE ts == te.when_sec
           tm == te.when_ms
           ns == Sec(now)
           nm == Ms(now)
<1>1. /\ ts \in Nat /\ tm \in 0 .. MsPerSec - 1 /\ ns \in Nat /\ nm \in 0 .. MsPerSec - 1
      /\ now = ns * MsPerSec + nm /\ WhenOf(te) = ts * MsPerSec + tm
  BY SplitTime DEF TimeEvent, WhenOf
<1>2. ts * MsPerSec \in Nat /\ ns * MsPerSec \in Nat
  BY <1>1, AeAssumption
<1>3. TimeMissing(te) = IF tm < nm
                        THEN AtLeast0(ts - ns - 1) * MsPerSec + AtLeast0(tm - nm + MsPerSec)
                        ELSE AtLeast0(ts - ns - 0) * MsPerSec + AtLeast0(tm - nm + 0)
  BY DEF TimeMissing
<1>4. 0 * MsPerSec = 0
  BY AeAssumption
<1> HIDE DEF ts, tm, ns, nm
<1>5. CASE ts < ns
  <2>1. ts * MsPerSec + MsPerSec <= ns * MsPerSec
    BY <1>1, <1>5, WholeSeconds
  <2>2. WhenOf(te) < now
    BY <1>1, <1>2, <2>1, AeAssumption
  <2>3. AtLeast0(ts - ns - 1) = 0 /\ AtLeast0(ts - ns - 0) = 0
    BY <1>1, <1>5 DEF AtLeast0
  <2> QED BY <1>1, <1>3, <1>4, <2>2, <2>3, AeAssumption DEF AtLeast0
<1>6. CASE ts = ns
  BY <1>1, <1>2, <1>3, <1>4, <1>6, AeAssumption DEF AtLeast0
<1>7. CASE ts > ns
  <2>1. ns * MsPerSec + MsPerSec <= ts * MsPerSec
    BY <1>1, <1>7, WholeSeconds
  <2>2. now < WhenOf(te)
    BY <1>1, <1>2, <2>1, AeAssumption
  <2>3. AtLeast0(ts - ns - 1) = ts - ns - 1 /\ AtLeast0(ts - ns - 0) = ts - ns
    BY <1>1, <1>7 DEF AtLeast0
  <2>4. CASE tm < nm
    <3>1. TimeMissing(te) = (ts - ns - 1) * MsPerSec + (tm - nm + MsPerSec)
      BY <1>1, <1>3, <2>3, <2>4, AeAssumption DEF AtLeast0
    <3>2. TimeMissing(te) = ts * MsPerSec - ns * MsPerSec - MsPerSec + (tm - nm + MsPerSec)
      BY <1>1, <3>1, DifferenceOfSeconds
    <3> QED BY <1>1, <1>2, <2>1, <2>2, <3>2, AeAssumption
  <2>5. CASE ~(tm < nm)
    <3>1. TimeMissing(te) = (ts - ns) * MsPerSec + (tm - nm)
      BY <1>1, <1>3, <2>3, <2>5, AeAssumption DEF AtLeast0
    <3>2. TimeMissing(te) = ts * MsPerSec - ns * MsPerSec + (tm - nm)
      BY <1>1, <3>1, DifferenceOfSeconds
    <3> QED BY <1>1, <1>2, <2>1, <2>2, <3>2, AeAssumption
  <2> QED BY <2>4, <2>5
<1> QED BY <1>1, <1>5, <1>6, <1>7

\* aeSearchNearestTimer finds a timer of the list that no other precedes.
LEMMA NearestTimer ==
    ASSUME loop.timeEventHead \in Seq(TimeEvent), loop.timeEventHead # <<>>
    PROVE  /\ aeSearchNearestTimer \in TimeEvent
           /\ \E i \in DOMAIN loop.timeEventHead : aeSearchNearestTimer = loop.timeEventHead[i]
           /\ \A i \in DOMAIN loop.timeEventHead :
                 WhenOf(aeSearchNearestTimer) <= WhenOf(loop.timeEventHead[i])
<1> DEFINE list == loop.timeEventHead
           whens == {WhenOf(list[i]) : i \in DOMAIN list}
           First(i) == \A j \in DOMAIN list :
                          ~Earlier(list[j], list[i]) /\ (j < i => Earlier(list[i], list[j]))
<1>1. /\ DOMAIN list # {} /\ DOMAIN list \subseteq Nat
      /\ \A i \in DOMAIN list : list[i] \in TimeEvent
  <2>1. Len(list) \in Nat \ {0} /\ DOMAIN list = 1 .. Len(list) /\ list \in [1 .. Len(list) -> TimeEvent]
    BY EmptySeq, LenProperties
  <2>2. 1 \in DOMAIN list
    BY <2>1
  <2> QED BY <2>1, <2>2
<1>2. \A i \in DOMAIN list : WhenOf(list[i]) \in Nat
  BY <1>1, EarlierIsLess
<1>3. \A i, j \in DOMAIN list : Earlier(list[i], list[j]) <=> WhenOf(list[i]) < WhenOf(list[j])
  BY <1>1, EarlierIsLess
<1>4. PICK w \in whens : \A v \in whens : w <= v
  <2>1. whens \in SUBSET Nat /\ whens # {}
    BY <1>1, <1>2
  <2> QED BY <2>1, LeastNumber
<1>5. PICK i \in {j \in DOMAIN list : WhenOf(list[j]) = w} :
          \A j \in {j \in DOMAIN list : WhenOf(list[j]) = w} : i <= j
  <2>1. {j \in DOMAIN list : WhenOf(list[j]) = w} # {}
    BY <1>4
  <2> QED BY <1>1, <2>1, LeastNumber
<1>6. First(i)
  <2> SUFFICES ASSUME NEW j \in DOMAIN list
               PROVE  ~Earlier(list[j], list[i]) /\ (j < i => Earlier(list[i], list[j]))
    OBVIOUS
  <2>1. WhenOf(list[i]) <= WhenOf(list[j]) /\ (WhenOf(list[j]) = w => i <= j) /\ WhenOf(list[i]) = w
    BY <1>4, <1>5
  <2>2. WhenOf(list[i]) \in Nat /\ WhenOf(list[j]) \in Nat /\ i \in Nat /\ j \in Nat
    BY <1>1, <1>2, <1>5
  <2>3. /\ Earlier(list[i], list[j]) <=> WhenOf(list[i]) < WhenOf(list[j])
        /\ Earlier(list[j], list[i]) <=> WhenOf(list[j]) < WhenOf(list[i])
    BY <1>3, <1>5
  <2> QED BY <2>1, <2>2, <2>3
<1>7. aeSearchNearestTimer = list[CHOOSE j \in DOMAIN list : First(j)]
  BY DEF aeSearchNearestTimer
<1>8. PICK k \in DOMAIN list : First(k) /\ aeSearchNearestTimer = list[k]
  BY <1>5, <1>6, <1>7
<1> QED BY <1>1, <1>2, <1>3, <1>8

-----------------------------------------------------------------------------
(* The list of timers *)

\* aeDeleteTimeEvent leaves a list.
LEMMA WithoutIsList ==
    ASSUME NEW list \in Seq(TimeEvent), NEW id
    PROVE  Without(list, id) \in Seq(TimeEvent)
<1>1. CASE \E i \in 1 .. Len(list) : list[i].id = id
  <2> DEFINE at == {i \in 1 .. Len(list) : list[i].id = id}
             k == CHOOSE i \in at : \A j \in at : i <= j
  <2>1. k \in 1 .. Len(list)
    <3>1. at \in SUBSET Nat /\ at # {}
      BY <1>1
    <3>2. \E i \in at : \A j \in at : i <= j
      BY <3>1, LeastNumber
    <3> QED BY <3>2
  <2>2. Without(list, id) = SubSeq(list, 1, k - 1) \o SubSeq(list, k + 1, Len(list))
    BY <1>1, <2>1 DEF Without, RemoveFirstMatch, RemoveAt, SelectInSeq, Min
  <2> HIDE DEF k
  <2> QED BY <2>1, <2>2, SubSeqProperties, ConcatProperties, LenProperties
<1>2. CASE ~\E i \in 1 .. Len(list) : list[i].id = id
  BY <1>2 DEF Without, RemoveFirstMatch
<1> QED BY <1>1, <1>2

\* The id of the first timer, or the mark for an empty list, is a number.
LEMMA HeadIsInt ==
    ASSUME NEW list \in Seq(TimeEvent)
    PROVE  HeadTimer(list) \in Int
<1>1. list # <<>> => list[1] \in TimeEvent
  BY LenProperties, EmptySeq
<1> QED BY <1>1 DEF HeadTimer, TimeEvent, NoTimer

\* What the pass looks at next is in the list, or the list has ended.
LEMMA NextIsInList ==
    ASSUME loop.timeEventHead \in Seq(TimeEvent)
    PROVE  /\ HeadTimer(loop.timeEventHead) \in Ids \cup {NoTimer}
           /\ \A id \in Ids : NextTimer(id) \in Ids \cup {NoTimer}
           /\ Ids \subseteq Nat
<1>1. /\ Len(loop.timeEventHead) \in Nat /\ DOMAIN loop.timeEventHead = 1 .. Len(loop.timeEventHead)
      /\ \A i \in DOMAIN loop.timeEventHead : loop.timeEventHead[i] \in TimeEvent
      /\ loop.timeEventHead # <<>> => Len(loop.timeEventHead) # 0
  BY LenProperties, EmptySeq
<1>2. HeadTimer(loop.timeEventHead) \in Ids \cup {NoTimer}
  BY <1>1 DEF HeadTimer, Ids
<1>3. ASSUME NEW id \in Ids PROVE NextTimer(id) \in Ids \cup {NoTimer}
  <2>1. TimerAt(id) \in DOMAIN loop.timeEventHead
    BY <1>3 DEF Ids, TimerAt
  <2>2. CASE TimerAt(id) = Len(loop.timeEventHead)
    BY <2>2 DEF NextTimer
  <2>3. CASE TimerAt(id) # Len(loop.timeEventHead)
    <3>1. TimerAt(id) + 1 \in DOMAIN loop.timeEventHead
      BY <1>1, <2>1, <2>3
    <3> QED BY <2>3, <3>1 DEF NextTimer, Ids
  <2> QED BY <2>2, <2>3
<1> QED BY <1>1, <1>2, <1>3 DEF Ids, TimeEvent

-----------------------------------------------------------------------------
(* Types *)

\* aeCreateEventLoop starts with the right types.
LEMMA TypeInit == AeInit => AeTypeOK
  BY EmptySeq, AeAssumption
  DEF AeInit, AeTypeOK, LoopType, RunType, FileEvent, Masks, Pcs, NoTimer

\* maxfd goes down to a registered descriptor, or to -1.
LEMMA NextMaxfdIsLargest ==
    ASSUME AeTypeOK, NEW events
    PROVE  LET below == {fd \in 0 .. loop.maxfd - 1 : events[fd].mask # {}}
           IN  /\ NextMaxfd(events) \in Int
               /\ NextMaxfd(events) \in below \cup {-1}
               /\ \A fd \in below : fd <= NextMaxfd(events)
<1> DEFINE below == {fd \in 0 .. loop.maxfd - 1 : events[fd].mask # {}}
           above == {n \in Nat : \A fd \in below : fd <= n}
<1>1. loop.maxfd \in Int /\ \A fd \in below : fd \in Nat /\ fd <= loop.maxfd
  BY DEF AeTypeOK, LoopType
<1>2. CASE below = {}
  BY <1>2 DEF NextMaxfd
<1>3. CASE below # {}
  <2>1. PICK n \in above : \A m \in above : n <= m
    <3>1. loop.maxfd \in above
      BY <1>1, <1>3
    <3> QED BY <3>1, LeastNumber
  <2>2. n \in below
    <3>1. CASE n = 0
      BY <1>1, <1>3, <2>1, <3>1
    <3>2. ASSUME n # 0, n \notin below PROVE FALSE
      <4>1. n - 1 \in above
        BY <1>1, <2>1, <3>2
      <4> QED BY <2>1, <4>1
    <3> QED BY <3>1, <3>2
  <2>3. \E fd \in below : \A g \in below : g <= fd
    BY <2>1, <2>2
  <2>4. NextMaxfd(events) = CHOOSE fd \in below : \A g \in below : g <= fd
    BY <1>3 DEF NextMaxfd
  <2>5. NextMaxfd(events) \in below /\ \A g \in below : g <= NextMaxfd(events)
    BY <2>3, <2>4
  <2> QED BY <1>1, <2>5
<1> QED BY <1>2, <1>3

\* What the steps of aeProcessEvents assign to its local variables
LEMMA RunStep ==
    ASSUME run \in RunType, NEW pc \in Pcs
    PROVE  /\ [run EXCEPT !.pc = pc] \in RunType
           /\ \A r \in BOOLEAN : [run EXCEPT !.rfired = r, !.pc = pc] \in RunType
           /\ run.fired # <<>> =>
                 [run EXCEPT !.pc = pc, !.fired = Tail(@), !.rfired = FALSE] \in RunType
           /\ \A te \in Int : [run EXCEPT !.te = te] \in RunType
           /\ \A te \in Int : [run EXCEPT !.pc = pc, !.te = te] \in RunType
           /\ \A te, m \in Int : [run EXCEPT !.pc = pc, !.te = te, !.maxId = m] \in RunType
           /\ \A m \in Int : [run EXCEPT !.pc = pc, !.maxId = m] \in RunType
           /\ \A fired \in Seq([fd : Fds, mask : Masks]) :
                 [run EXCEPT !.pc = pc, !.fired = fired, !.timeout = 0, !.since = 0] \in RunType
<1>1. run.fired # <<>> => Tail(run.fired) \in Seq([fd : Fds, mask : Masks])
  BY HeadTailProperties DEF RunType
<1>2. [run EXCEPT !.pc = pc] \in RunType
  BY DEF RunType
<1>3. \A r \in BOOLEAN : [run EXCEPT !.rfired = r, !.pc = pc] \in RunType
  BY DEF RunType
<1>4. run.fired # <<>> => [run EXCEPT !.pc = pc, !.fired = Tail(@), !.rfired = FALSE] \in RunType
  BY <1>1 DEF RunType
<1>5. \A te \in Int : [run EXCEPT !.te = te] \in RunType
  BY DEF RunType
<1>6. \A te \in Int : [run EXCEPT !.pc = pc, !.te = te] \in RunType
  BY DEF RunType
<1>7. \A te, m \in Int : [run EXCEPT !.pc = pc, !.te = te, !.maxId = m] \in RunType
  BY DEF RunType
<1>8. \A m \in Int : [run EXCEPT !.pc = pc, !.maxId = m] \in RunType
  BY DEF RunType
<1>9. ASSUME NEW fired \in Seq([fd : Fds, mask : Masks])
      PROVE  [run EXCEPT !.pc = pc, !.fired = fired, !.timeout = 0, !.since = 0] \in RunType
  <2>1. ASSUME NEW t \in Int, NEW s \in Nat
        PROVE  [run EXCEPT !.pc = pc, !.fired = fired, !.timeout = t, !.since = s] \in RunType
    BY DEF RunType
  <2>2. 0 \in Int /\ 0 \in Nat
    OBVIOUS
  <2> QED BY <2>1, <2>2, Zenon
<1> QED BY <1>2, <1>3, <1>4, <1>5, <1>6, <1>7, <1>8, <1>9

\* Every step of the loop and of a handler keeps the types.
LEMMA TypeStep == ASSUME AeTypeOK, HandlerHasEvent, TimerPass, [AeNext]_aeVars PROVE AeTypeOK'
<1> USE DEF AeTypeOK
<1>1. ASSUME NEW fd \in Fds, NEW mask \in Masks \ {{}}, NEW proc \in Procs,
             aeCreateFileEvent(fd, mask, proc)
      PROVE  AeTypeOK'
  <2>1. fd \in 0 .. SetSize - 1 /\ fd \in Int
    BY <1>1, AeAssumption DEF aeCreateFileEvent
  <2>2. loop' \in LoopType
    BY <1>1, <2>1 DEF aeCreateFileEvent, LoopType, FileEvent, Masks
  <2>3. interest' \in [Fds -> Masks]
    BY <1>1, <2>1 DEF aeCreateFileEvent, aeApiAddEvent, LoopType, FileEvent, Masks
  <2> QED BY <1>1, <2>2, <2>3 DEF aeCreateFileEvent
<1>2. ASSUME NEW fd \in Fds, NEW mask \in Masks \ {{}}, aeDeleteFileEvent(fd, mask)
      PROVE  AeTypeOK'
  <2>1. fd \in 0 .. SetSize - 1 /\ fd \in Int
    BY <1>2, AeAssumption DEF aeDeleteFileEvent
  <2> DEFINE events == [loop.events EXCEPT ![fd].mask = @ \ mask]
  <2>2. events \in [0 .. SetSize - 1 -> FileEvent]
    BY <2>1 DEF LoopType, FileEvent, Masks
  <2>3. NextMaxfd(events) \in Int
    BY NextMaxfdIsLargest
  <2>4. loop' \in LoopType
    BY <1>2, <2>1, <2>2, <2>3 DEF aeDeleteFileEvent, LoopType
  <2>5. interest' \in [Fds -> Masks]
    BY <1>2, <2>1, <2>2 DEF aeDeleteFileEvent, aeApiDelEvent, LoopType, FileEvent, Masks
  <2> QED BY <1>2, <2>4, <2>5 DEF aeDeleteFileEvent
<1>3. ASSUME NEW delay \in Delays, aeCreateTimeEvent(delay) PROVE AeTypeOK'
  <2> DEFINE te == aeAddMillisecondsToNow([id |-> loop.timeEventNextId, when_sec |-> 0,
                                           when_ms |-> 0], delay)
  <2>1. loop.timeEventNextId \in Nat /\ te \in TimeEvent
    BY DueAfterDelay, AeAssumption DEF LoopType
  <2> HIDE DEF te
  <2>2. <<te>> \o loop.timeEventHead \in Seq(TimeEvent)
    BY <2>1, ConcatProperties DEF LoopType
  <2>3. loop' = [loop EXCEPT !.timeEventNextId = loop.timeEventNextId + 1,
                             !.timeEventHead = <<te>> \o loop.timeEventHead]
    BY <1>3 DEF aeCreateTimeEvent, te
  <2>4. \A n \in Nat, list \in Seq(TimeEvent) :
           [loop EXCEPT !.timeEventNextId = n, !.timeEventHead = list] \in LoopType
    BY DEF LoopType
  <2>5. loop.timeEventNextId + 1 \in Nat
    BY <2>1
  <2>6. loop' \in LoopType
    BY <2>2, <2>3, <2>4, <2>5, Zenon
  <2> QED BY <1>3, <2>1, <2>6 DEF aeCreateTimeEvent
<1>4. ASSUME NEW id \in Ids, aeDeleteTimeEvent(id) PROVE AeTypeOK'
  BY <1>4, WithoutIsList DEF aeDeleteTimeEvent, LoopType
<1>5. CASE aeStop
  BY <1>5 DEF aeStop, LoopType
<1>6. ASSUME NEW flags \in Flags, aeProcessEvents(flags) PROVE AeTypeOK'
  <2>1. Timeout(flags) \in Int
    BY NearestTimer, MissingTime DEF Timeout, LoopType
  <2> QED BY <1>6, <2>1, AeAssumption DEF aeProcessEvents, RunType, Pcs
<1>7. ASSUME NEW fired \in FiredEvents, aeApiPoll(fired) PROVE AeTypeOK'
  <2>1. fired \in Seq([fd : Fds, mask : Masks])
    <3>1. PICK n \in 0 .. Cardinality(Fds) : fired \in [1 .. n -> [fd : Fds, mask : Masks \ {{}}]]
      BY DEF FiredEvents
    <3>2. n \in Nat
      OBVIOUS
    <3>3. \A i \in 1 .. n : fired[i] \in [fd : Fds, mask : Masks]
      BY <3>1
    <3>4. fired \in [1 .. n -> [fd : Fds, mask : Masks]]
      BY <3>1, <3>3
    <3>5. fired \in UNION {[1 .. m -> [fd : Fds, mask : Masks]] : m \in Nat}
      BY <3>2, <3>4, Zenon
    <3> QED BY <3>5, SeqDef, Zenon
  <2> QED BY <1>7, <2>1, RunStep DEF aeApiPoll, Pcs
<1>8. CASE CallReadable \/ CallWritable \/ FileProcReturns \/ FileEventsDone
  <2>1. CASE CallReadable
    <3>1. PICK r \in BOOLEAN, pc \in Pcs : run' = [run EXCEPT !.rfired = r, !.pc = pc]
      <4>1. CASE "readable" \in Fe.mask \cap Fired.mask
        <5>1. run' = [run EXCEPT !.rfired = TRUE, !.pc = "rproc"]
          BY <2>1, <4>1 DEF CallReadable
        <5> QED BY <5>1 DEF Pcs
      <4>2. CASE "readable" \notin Fe.mask \cap Fired.mask
        <5>1. ("readable" \in Fe.mask \cap Fired.mask) = FALSE
          BY <4>2
        <5>2. run' = [run EXCEPT !.rfired = FALSE, !.pc = "writable"]
          BY <2>1, <4>2, <5>1, Zenon DEF CallReadable
        <5> QED BY <5>2 DEF Pcs
      <4> QED BY <4>1, <4>2
    <3>2. run' \in RunType
      BY <3>1, RunStep
    <3> QED BY <2>1, <3>2 DEF CallReadable
  <2>2. CASE CallWritable \/ FileProcReturns \/ FileEventsDone
    <3>1. \/ \E pc \in Pcs : run' = [run EXCEPT !.pc = pc]
          \/ run' = [run EXCEPT !.pc = "file", !.fired = Tail(@), !.rfired = FALSE]
      BY <2>2 DEF CallWritable, FileProcReturns, FileEventsDone, Pcs
    <3>2. run' \in RunType
      BY <2>2, <3>1, RunStep DEF HandlerHasEvent, Pcs, CallWritable, FileProcReturns, FileEventsDone
    <3> QED BY <2>2, <3>2 DEF CallWritable, FileProcReturns, FileEventsDone
  <2> QED BY <1>8, <2>1, <2>2
<1>9. CASE processTimeEvents \/ LookAtTimer \/ TimeEventsDone
  <2>1. Again \in Pcs /\ MaxId \in Int
    BY DEF Again, Pcs, MaxId, LoopType
  <2>2. HeadTimer(loop.timeEventHead) \in Int /\ (run.te \in Ids => NextTimer(run.te) \in Int)
    BY NextIsInList DEF LoopType, NoTimer
  <2>3. CASE processTimeEvents
    <3>1. run' \in RunType
      BY <2>1, <2>2, <2>3, RunStep DEF processTimeEvents, Pcs
    <3> QED BY <2>3, <3>1 DEF processTimeEvents
  <2>4. CASE LookAtTimer
    <3>1. run.te \in Ids
      BY <2>4 DEF LookAtTimer, TimerPass
    <3>2. run' \in RunType
      BY <2>2, <2>4, <3>1, RunStep DEF LookAtTimer, Pcs
    <3> QED BY <2>4, <3>2 DEF LookAtTimer
  <2>5. CASE TimeEventsDone
    <3>1. run' = [run EXCEPT !.pc = Again, !.maxId = -1] /\ -1 \in Int
      BY <2>5 DEF TimeEventsDone
    <3>2. run' \in RunType
      BY <2>1, <3>1, RunStep, Zenon
    <3> QED BY <2>5, <3>2 DEF TimeEventsDone
  <2> QED BY <1>9, <2>3, <2>4, <2>5
<1>10. ASSUME NEW delay \in Delays, TimeProcAgain(delay) PROVE AeTypeOK'
  <2>1. TimerAt(run.te) \in DOMAIN loop.timeEventHead
    BY <1>10 DEF TimeProcAgain, Ids, TimerAt
  <2> DEFINE new == aeAddMillisecondsToNow(Timer(run.te), delay)
  <2>2. new \in TimeEvent
    <3>1. Timer(run.te) \in TimeEvent
      BY <2>1, LenProperties DEF Timer, LoopType
    <3>2. Timer(run.te) \in [id : Nat, when_sec : Int, when_ms : Int]
      BY <3>1, AeAssumption DEF TimeEvent
    <3> QED BY <3>2, DueAfterDelay, AeAssumption
  <2>3. loop' = [loop EXCEPT !.timeEventHead = [loop.timeEventHead EXCEPT ![TimerAt(run.te)] = new]]
    BY <1>10 DEF TimeProcAgain, Timer, LoopType
  <2> HIDE DEF new
  <2>4. [loop.timeEventHead EXCEPT ![TimerAt(run.te)] = new] \in Seq(TimeEvent)
    BY <2>1, <2>2, ExceptSeq, LenProperties DEF LoopType
  <2>5. loop' \in LoopType
    BY <2>3, <2>4 DEF LoopType
  <2>6. HeadTimer(loop.timeEventHead) \in Int
    BY NextIsInList DEF LoopType, NoTimer
  <2>7. run' \in RunType
    BY <1>10, <2>6, RunStep DEF TimeProcAgain, Pcs
  <2> QED BY <1>10, <2>5, <2>7 DEF TimeProcAgain
<1>11. CASE TimeProcNoMore
  <2>1. Without(loop.timeEventHead, run.te) \in Seq(TimeEvent)
    BY WithoutIsList DEF LoopType
  <2>2. loop' \in LoopType /\ loop'.timeEventHead = Without(loop.timeEventHead, run.te)
    BY <1>11, <2>1 DEF TimeProcNoMore, LoopType
  <2>3. HeadTimer(loop'.timeEventHead) \in Int
    BY <2>2, HeadIsInt DEF LoopType
  <2>4. run' \in RunType
    BY <1>11, <2>3, RunStep DEF TimeProcNoMore, Pcs
  <2> QED BY <1>11, <2>2, <2>4 DEF TimeProcNoMore
<1>12. CASE aeMain
  BY <1>12 DEF aeMain, LoopType, RunType, Pcs
<1>13. CASE Tick
  BY <1>13 DEF Tick
<1>14. CASE UNCHANGED aeVars
  BY <1>14 DEF aeVars
<1> QED BY <1>1, <1>2, <1>3, <1>4, <1>5, <1>6, <1>7, <1>8, <1>9, <1>10, <1>11, <1>12, <1>13, <1>14
        DEF AeNext

-----------------------------------------------------------------------------
(* The tables *)

\* No step lets the table, maxfd and what epoll watches disagree.
LEMMA TableStep ==
    ASSUME AeTypeOK, TableMatchesKernel, [AeNext]_aeVars
    PROVE  TableMatchesKernel'
<1> DEFINE Registered(events) == {g \in 0 .. SetSize - 1 : events[g].mask # {}}
<1>0. /\ loop.events \in [0 .. SetSize - 1 -> FileEvent] /\ loop.maxfd \in Int
      /\ interest \in [Fds -> Masks] /\ SetSize \in Nat /\ Fds \subseteq Nat
  BY AeAssumption DEF AeTypeOK, LoopType
<1>1. ASSUME NEW fd \in Fds, NEW mask \in Masks \ {{}}, NEW proc \in Procs,
             aeCreateFileEvent(fd, mask, proc)
      PROVE  TableMatchesKernel'
  <2>1. fd \in 0 .. SetSize - 1
    BY <1>0, <1>1 DEF aeCreateFileEvent
  <2>2. /\ loop'.events \in [0 .. SetSize - 1 -> FileEvent]
        /\ loop'.events[fd].mask = loop.events[fd].mask \cup mask
        /\ \A g \in 0 .. SetSize - 1 : g # fd => loop'.events[g] = loop.events[g]
        /\ loop'.maxfd = (IF fd > loop.maxfd THEN fd ELSE loop.maxfd)
    BY <1>0, <1>1, <2>1 DEF aeCreateFileEvent, AeTypeOK, LoopType, FileEvent, Masks
  <2>3. interest' = [interest EXCEPT ![fd] = mask \cup loop.events[fd].mask]
    BY <1>1 DEF aeCreateFileEvent, aeApiAddEvent
  <2>4. \A g \in Fds : interest'[g] = (IF g < SetSize THEN loop'.events[g].mask ELSE {})
    <3>1. mask \cup loop.events[fd].mask = loop'.events[fd].mask
      BY <2>2
    <3>2. interest'[fd] = loop'.events[fd].mask /\ \A g \in Fds : g # fd => interest'[g] = interest[g]
      BY <1>0, <2>3, <3>1
    <3>3. \A g \in Fds : g < SetSize => g \in 0 .. SetSize - 1
      BY <1>0
    <3>4. ASSUME NEW g \in Fds, g # fd
          PROVE  interest'[g] = (IF g < SetSize THEN loop'.events[g].mask ELSE {})
      <4>1. interest'[g] = (IF g < SetSize THEN loop.events[g].mask ELSE {})
        BY <3>2, <3>4 DEF TableMatchesKernel
      <4> QED BY <2>1, <2>2, <3>2, <3>3, <3>4, <4>1
    <3>5. fd < SetSize
      BY <1>0, <2>1
    <3> QED BY <3>2, <3>4, <3>5
  <2>5. Registered(loop'.events) = Registered(loop.events) \cup {fd}
    BY <2>1, <2>2
  <2> QED BY <1>0, <2>1, <2>2, <2>4, <2>5 DEF TableMatchesKernel
<1>2. ASSUME NEW fd \in Fds, NEW mask \in Masks \ {{}}, aeDeleteFileEvent(fd, mask)
      PROVE  TableMatchesKernel'
  <2> DEFINE events == [loop.events EXCEPT ![fd].mask = @ \ mask]
  <2>1. fd \in 0 .. SetSize - 1
    BY <1>0, <1>2 DEF aeDeleteFileEvent
  <2>2. /\ events[fd].mask = loop.events[fd].mask \ mask
        /\ \A g \in 0 .. SetSize - 1 : g # fd => events[g] = loop.events[g]
    BY <1>0, <2>1 DEF FileEvent
  <2>3. /\ loop'.events = events
        /\ loop'.maxfd = (IF fd = loop.maxfd /\ events[fd].mask = {} THEN NextMaxfd(events)
                          ELSE loop.maxfd)
        /\ interest' = [interest EXCEPT ![fd] = events[fd].mask \ mask]
    BY <1>2 DEF aeDeleteFileEvent, aeApiDelEvent, AeTypeOK, LoopType
  <2> HIDE DEF events
  <2>4. \A g \in Fds : interest'[g] = (IF g < SetSize THEN loop'.events[g].mask ELSE {})
    <3>1. events[fd].mask \ mask = events[fd].mask
      BY <2>2
    <3>2. interest'[fd] = loop'.events[fd].mask /\ \A g \in Fds : g # fd => interest'[g] = interest[g]
      BY <1>0, <2>3, <3>1
    <3>3. \A g \in Fds : g < SetSize => g \in 0 .. SetSize - 1
      BY <1>0
    <3>4. ASSUME NEW g \in Fds, g # fd
          PROVE  interest'[g] = (IF g < SetSize THEN loop'.events[g].mask ELSE {})
      <4>1. interest'[g] = (IF g < SetSize THEN loop.events[g].mask ELSE {})
        BY <3>2, <3>4 DEF TableMatchesKernel
      <4> QED BY <2>1, <2>2, <2>3, <3>2, <3>3, <3>4, <4>1
    <3>5. fd < SetSize
      BY <1>0, <2>1
    <3> QED BY <3>2, <3>4, <3>5
  <2>5. CASE fd = loop.maxfd /\ events[fd].mask = {}
    <3>1. Registered(events) = Registered(loop.events) \ {fd}
      BY <2>1, <2>2, <2>5
    <3>2. Registered(events) = {g \in 0 .. loop.maxfd - 1 : events[g].mask # {}}
      BY <1>0, <2>1, <2>5, <3>1 DEF TableMatchesKernel
    <3> QED BY <1>0, <2>3, <2>4, <2>5, <3>2, NextMaxfdIsLargest DEF TableMatchesKernel
  <2>6. CASE ~(fd = loop.maxfd /\ events[fd].mask = {})
    <3>1. loop'.maxfd = loop.maxfd
      BY <2>3, <2>6
    <3>2. Registered(loop.events) \ {fd} \subseteq Registered(events)
          /\ Registered(events) \subseteq Registered(loop.events)
      BY <2>1, <2>2
    <3>3. loop.maxfd \in Registered(events) \cup {-1}
      BY <2>1, <2>2, <2>6, <3>2 DEF TableMatchesKernel
    <3> QED BY <2>3, <2>4, <3>1, <3>2, <3>3 DEF TableMatchesKernel
  <2> QED BY <2>5, <2>6
<1>3. CASE loop'.events = loop.events /\ loop'.maxfd = loop.maxfd /\ interest' = interest
  BY <1>3 DEF TableMatchesKernel
<1>4. ASSUME \/ \E delay \in Delays : aeCreateTimeEvent(delay)
             \/ \E id \in Ids : aeDeleteTimeEvent(id)
             \/ aeStop \/ aeMain
             \/ \E delay \in Delays : TimeProcAgain(delay)
             \/ TimeProcNoMore
      PROVE  loop'.events = loop.events /\ loop'.maxfd = loop.maxfd /\ interest' = interest
  BY <1>4 DEF aeCreateTimeEvent, aeDeleteTimeEvent, aeStop, aeMain, TimeProcAgain, TimeProcNoMore,
              AeTypeOK, LoopType
<1>5. ASSUME \/ \E flags \in Flags : aeProcessEvents(flags)
             \/ \E fired \in FiredEvents : aeApiPoll(fired)
             \/ CallReadable \/ CallWritable \/ FileProcReturns \/ FileEventsDone
             \/ processTimeEvents \/ LookAtTimer \/ TimeEventsDone \/ Tick \/ UNCHANGED aeVars
      PROVE  UNCHANGED <<loop, interest>>
  BY <1>5 DEF aeProcessEvents, aeApiPoll, CallReadable, CallWritable, FileProcReturns, FileEventsDone,
              processTimeEvents, LookAtTimer, TimeEventsDone, Tick, aeVars
<1> QED BY <1>1, <1>2, <1>3, <1>4, <1>5 DEF AeNext

-----------------------------------------------------------------------------
(* The pass over the timers, and the time the loop sleeps *)

\* A pass over the timers keeps what it relies on, whatever its handlers create and delete.
LEMMA PassStep ==
    ASSUME AeTypeOK, HandlerHasEvent, NewbornAreNew, TimerPass, [AeNext]_aeVars
    PROVE  HandlerHasEvent' /\ NewbornAreNew' /\ TimerPass'
<1> USE DEF HandlerHasEvent, NewbornAreNew, TimerPass
<1>0. /\ loop.timeEventHead \in Seq(TimeEvent) /\ loop.timeEventNextId \in Nat
      /\ run.maxId \in Int /\ run.te \in Int /\ newborn \subseteq Nat
      /\ loop \in LoopType /\ run \in RunType
  BY DEF AeTypeOK, LoopType, RunType
<1>1. ASSUME \/ \E fd \in Fds, mask \in Masks \ {{}}, proc \in Procs : aeCreateFileEvent(fd, mask, proc)
             \/ \E fd \in Fds, mask \in Masks \ {{}} : aeDeleteFileEvent(fd, mask)
             \/ aeStop
      PROVE  HandlerHasEvent' /\ NewbornAreNew' /\ TimerPass'
  <2>1. /\ InHandler /\ run' = run /\ newborn' = newborn
        /\ loop'.timeEventNextId = loop.timeEventNextId
    BY <1>0, <1>1 DEF aeCreateFileEvent, aeDeleteFileEvent, aeStop, LoopType
  <2> QED BY <2>1 DEF InHandler
<1>2. ASSUME NEW delay \in Delays, aeCreateTimeEvent(delay)
      PROVE  HandlerHasEvent' /\ NewbornAreNew' /\ TimerPass'
  <2>1. /\ InHandler /\ run' = run
        /\ newborn' = (IF run.pc = "timeproc" THEN newborn \cup {loop.timeEventNextId} ELSE newborn)
        /\ loop'.timeEventNextId = loop.timeEventNextId + 1
    BY <1>0, <1>2 DEF aeCreateTimeEvent, LoopType
  <2> QED BY <1>0, <2>1 DEF InHandler
<1>3. ASSUME NEW id \in Ids, aeDeleteTimeEvent(id)
      PROVE  HandlerHasEvent' /\ NewbornAreNew' /\ TimerPass'
  <2>1. /\ InHandler /\ run' = run /\ newborn' = newborn
        /\ loop'.timeEventNextId = loop.timeEventNextId
    BY <1>0, <1>3 DEF aeDeleteTimeEvent, LoopType
  <2> QED BY <2>1 DEF InHandler
<1>4. ASSUME \/ \E flags \in Flags : aeProcessEvents(flags)
             \/ \E fired \in FiredEvents : aeApiPoll(fired)
             \/ CallReadable \/ CallWritable \/ FileProcReturns \/ FileEventsDone
      PROVE  HandlerHasEvent' /\ NewbornAreNew' /\ TimerPass'
  <2>1. /\ UNCHANGED <<loop, newborn>>
        /\ run'.maxId = run.maxId /\ run'.te = run.te /\ run'.pc \notin {"time", "timeproc"}
        /\ run'.pc \in {"rproc", "writable", "wproc"} => run'.fired # <<>>
    <3>1. CASE \E flags \in Flags : aeProcessEvents(flags)
      BY <1>0, <3>1 DEF aeProcessEvents, RunType
    <3>2. CASE \E fired \in FiredEvents : aeApiPoll(fired)
      BY <1>0, <3>2 DEF aeApiPoll, RunType
    <3>3. CASE CallReadable
      BY <1>0, <3>3 DEF CallReadable, RunType
    <3>4. CASE CallWritable
      BY <1>0, <3>4 DEF CallWritable, RunType
    <3>5. CASE FileProcReturns \/ FileEventsDone
      BY <1>0, <3>5 DEF FileProcReturns, FileEventsDone, RunType
    <3> QED BY <1>4, <3>1, <3>2, <3>3, <3>4, <3>5
  <2> QED BY <2>1
<1>5. CASE processTimeEvents
  <2>1. CASE "time" \in run.flags
    <3>1. /\ UNCHANGED loop /\ newborn' = {}
          /\ run'.pc = "time" /\ run'.maxId = loop.timeEventNextId - 1
          /\ run'.te = HeadTimer(loop.timeEventHead)
      BY <1>0, <1>5, <2>1 DEF processTimeEvents, MaxId, RunType
    <3>2. Ids' = Ids /\ run'.te \in Ids \cup {NoTimer}
      BY <1>0, <3>1, NextIsInList DEF Ids
    <3> QED BY <1>0, <3>1, <3>2
  <2>2. CASE "time" \notin run.flags
    <3>1. /\ UNCHANGED loop /\ newborn' = {} /\ run'.pc \in {"stopped", "before"}
          /\ run'.maxId = run.maxId
      BY <1>0, <1>5, <2>2 DEF processTimeEvents, Again, RunType
    <3> QED BY <3>1
  <2> QED BY <2>1, <2>2
<1>6. CASE LookAtTimer
  <2>1. run.te \in Ids /\ UNCHANGED <<loop, newborn>> /\ Ids' = Ids
    BY <1>6 DEF LookAtTimer, Ids
  <2>2. CASE run.te <= run.maxId /\ Due(Timer(run.te))
    <3>1. run'.pc = "timeproc" /\ run'.maxId = run.maxId /\ run'.te = run.te
      BY <1>0, <1>6, <2>2 DEF LookAtTimer, RunType
    <3>2. run.te <= run.maxId /\ run.te \notin newborn
      BY <1>0, <2>2
    <3> QED BY <2>1, <3>1, <3>2
  <2>3. CASE ~(run.te <= run.maxId /\ Due(Timer(run.te)))
    <3>1. run'.pc = "time" /\ run'.maxId = run.maxId /\ run'.te = NextTimer(run.te)
      BY <1>0, <1>6, <2>3 DEF LookAtTimer, RunType
    <3>2. run'.te \in Ids' \cup {NoTimer}
      BY <1>0, <2>1, <3>1, NextIsInList
    <3> QED BY <2>1, <3>1, <3>2
  <2> QED BY <2>2, <2>3
<1>7. ASSUME NEW delay \in Delays, TimeProcAgain(delay)
      PROVE  HandlerHasEvent' /\ NewbornAreNew' /\ TimerPass'
  <2>1. run'.pc = "time" /\ run'.maxId = run.maxId /\ run'.te = HeadTimer(loop.timeEventHead)
        /\ newborn' = newborn
    BY <1>0, <1>7 DEF TimeProcAgain, RunType
  <2>2. TimerAt(run.te) \in DOMAIN loop.timeEventHead
    BY <1>7 DEF TimeProcAgain, Ids, TimerAt
  <2> DEFINE new == aeAddMillisecondsToNow(Timer(run.te), delay)
  <2>3. new.id = Timer(run.te).id
    <3>1. Timer(run.te) \in TimeEvent
      BY <1>0, <2>2, LenProperties DEF Timer
    <3>2. Timer(run.te) \in [id : Nat, when_sec : Int, when_ms : Int]
      BY <3>1, AeAssumption DEF TimeEvent
    <3> QED BY <3>2, DueAfterDelay, AeAssumption DEF AeTypeOK
  <2>4. /\ loop'.timeEventHead = [loop.timeEventHead EXCEPT ![TimerAt(run.te)] = new]
        /\ loop'.timeEventNextId = loop.timeEventNextId
    BY <1>0, <1>7 DEF TimeProcAgain, Timer, LoopType
  <2> HIDE DEF new
  <2>5. /\ DOMAIN loop'.timeEventHead = DOMAIN loop.timeEventHead
        /\ \A i \in DOMAIN loop.timeEventHead : loop'.timeEventHead[i].id = loop.timeEventHead[i].id
    BY <1>0, <2>2, <2>3, <2>4, LenProperties DEF Timer
  <2>6. Ids' = Ids
    BY <2>5 DEF Ids
  <2> QED BY <1>0, <2>1, <2>4, <2>6, NextIsInList
<1>8. CASE TimeProcNoMore
  <2>1. /\ loop'.timeEventHead = Without(loop.timeEventHead, run.te)
        /\ loop'.timeEventNextId = loop.timeEventNextId
        /\ run'.pc = "time" /\ run'.maxId = run.maxId /\ run'.te = HeadTimer(loop'.timeEventHead)
        /\ newborn' = newborn
    BY <1>0, <1>8 DEF TimeProcNoMore, LoopType, RunType
  <2>2. loop'.timeEventHead \in Seq(TimeEvent)
    BY <1>0, <2>1, WithoutIsList
  <2>3. run'.te \in Ids' \cup {NoTimer}
    <3>1. loop'.timeEventHead # <<>> => 1 \in DOMAIN loop'.timeEventHead
      BY <2>2, LenProperties, EmptySeq
    <3> QED BY <2>1, <3>1 DEF HeadTimer, Ids
  <2> QED BY <2>1, <2>3
<1>9. CASE TimeEventsDone
  <2>1. /\ UNCHANGED loop /\ newborn' = {} /\ run'.pc \in {"stopped", "before"} /\ run'.maxId = -1
    BY <1>0, <1>9 DEF TimeEventsDone, Again, RunType
  <2> QED BY <1>0, <2>1
<1>10. CASE aeMain
  <2>1. /\ loop'.timeEventNextId = loop.timeEventNextId /\ newborn' = newborn
        /\ run'.pc = "before" /\ run'.maxId = run.maxId
    BY <1>0, <1>10 DEF aeMain, LoopType, RunType
  <2> QED BY <2>1
<1>11. CASE Tick \/ UNCHANGED aeVars
  BY <1>11 DEF Tick, aeVars, Ids
<1> QED BY <1>1, <1>2, <1>3, <1>4, <1>5, <1>6, <1>7, <1>8, <1>9, <1>10, <1>11 DEF AeNext

\* The time-out that was asked for stays right until the poll returns.
LEMMA SleepStep ==
    ASSUME AeTypeOK, SleepsNoLonger, [AeNext]_aeVars
    PROVE  SleepsNoLonger'
<1>0. loop.timeEventHead \in Seq(TimeEvent) /\ now \in Nat /\ run \in RunType
  BY DEF AeTypeOK, LoopType
<1>1. ASSUME NEW flags \in Flags, aeProcessEvents(flags) PROVE SleepsNoLonger'
  <2>1. /\ UNCHANGED loop /\ run'.flags = flags /\ run'.since = now /\ run'.timeout = Timeout(flags)
    BY <1>0, <1>1 DEF aeProcessEvents, RunType
  <2>2. CASE "time" \in flags /\ "dont_wait" \notin flags /\ loop.timeEventHead # <<>>
    <3>1. /\ run'.timeout = TimeMissing(aeSearchNearestTimer)
          /\ aeSearchNearestTimer \in TimeEvent
          /\ \A i \in DOMAIN loop.timeEventHead :
                /\ WhenOf(aeSearchNearestTimer) <= WhenOf(loop.timeEventHead[i])
                /\ WhenOf(loop.timeEventHead[i]) \in Nat
      BY <1>0, <2>1, <2>2, NearestTimer, EarlierIsLess, LenProperties DEF Timeout
    <3>2. WhenOf(aeSearchNearestTimer) \in Nat
      BY <3>1, EarlierIsLess
    <3>3. /\ run'.timeout \in Nat
          /\ now <= WhenOf(aeSearchNearestTimer) =>
                now + run'.timeout = WhenOf(aeSearchNearestTimer)
          /\ WhenOf(aeSearchNearestTimer) < now => run'.timeout < MsPerSec
      BY <1>0, <3>1, MissingTime
    <3>4. ASSUME NEW i \in DOMAIN loop.timeEventHead, WhenOf(loop.timeEventHead[i]) < now
          PROVE  run'.timeout < MsPerSec
      BY <1>0, <3>1, <3>2, <3>3, <3>4
    <3>5. ASSUME NEW i \in DOMAIN loop.timeEventHead, ~(WhenOf(loop.timeEventHead[i]) < now),
                 ~(WhenOf(aeSearchNearestTimer) < now)
          PROVE  now + run'.timeout <= WhenOf(loop.timeEventHead[i])
      BY <1>0, <3>1, <3>2, <3>3, <3>5
    <3>6. \E i \in DOMAIN loop.timeEventHead : aeSearchNearestTimer = loop.timeEventHead[i]
      BY <1>0, <2>2, NearestTimer
    <3> QED BY <2>1, <3>3, <3>4, <3>5, <3>6 DEF SleepsNoLonger, WhenOf
  <2>3. CASE ~("time" \in flags /\ "dont_wait" \notin flags)
    BY <2>1, <2>3 DEF SleepsNoLonger, WaitsForTimers
  <2>4. CASE loop.timeEventHead = <<>>
    BY <2>1, <2>4 DEF SleepsNoLonger, WhenOf
  <2> QED BY <2>2, <2>3, <2>4
<1>2. CASE Tick \/ UNCHANGED aeVars
  BY <1>2 DEF Tick, aeVars, SleepsNoLonger, WaitsForTimers, WhenOf
<1>3. ASSUME \/ \E fired \in FiredEvents : aeApiPoll(fired)
             \/ CallReadable \/ CallWritable \/ FileProcReturns \/ FileEventsDone
             \/ processTimeEvents \/ LookAtTimer \/ TimeProcNoMore \/ TimeEventsDone \/ aeMain
             \/ \E delay \in Delays : TimeProcAgain(delay)
      PROVE  run'.pc # "asleep"
  BY <1>0, <1>3 DEF aeApiPoll, CallReadable, CallWritable, FileProcReturns, FileEventsDone,
       processTimeEvents, LookAtTimer, TimeProcNoMore, TimeEventsDone, aeMain, TimeProcAgain, Again, RunType
<1>4. ASSUME \/ \E fd \in Fds, mask \in Masks \ {{}}, proc \in Procs : aeCreateFileEvent(fd, mask, proc)
             \/ \E fd \in Fds, mask \in Masks \ {{}} : aeDeleteFileEvent(fd, mask)
             \/ \E delay \in Delays : aeCreateTimeEvent(delay)
             \/ \E id \in Ids : aeDeleteTimeEvent(id)
             \/ aeStop
      PROVE  run'.pc # "asleep"
  BY <1>4 DEF aeCreateFileEvent, aeDeleteFileEvent, aeCreateTimeEvent, aeDeleteTimeEvent, aeStop, InHandler
<1>5. run'.pc # "asleep" => SleepsNoLonger'
  BY DEF SleepsNoLonger
<1> QED BY <1>1, <1>2, <1>3, <1>4, <1>5 DEF AeNext

-----------------------------------------------------------------------------
(* The theorems *)

\* The invariant holds when the loop was created.
LEMMA AeInvInit == AeInit => AeInv
<1> SUFFICES ASSUME AeInit PROVE AeInv
  OBVIOUS
<1>1. AeTypeOK
  BY TypeInit
<1>2. TableMatchesKernel
  BY AeAssumption DEF AeInit, TableMatchesKernel
<1>3. HandlerHasEvent /\ NewbornAreNew /\ SleepsNoLonger /\ TimerPass
  BY DEF AeInit, HandlerHasEvent, NewbornAreNew, SleepsNoLonger, TimerPass
<1> QED BY <1>1, <1>2, <1>3 DEF AeInv

\* The inductive invariant of aeMain and the handlers that run in it
THEOREM AeInvariance == AeSpec => []AeInv
<1>1. AeInv /\ [AeNext]_aeVars => AeInv'
  BY TypeStep, TableStep, PassStep, SleepStep DEF AeInv
<1> QED BY AeInvInit, <1>1, PTL DEF AeSpec

\* ae.c: events, handlers and timers have their types, for tables of any size
THEOREM AeTypeCorrect == AeSpec => []AeTypeOK
<1>1. AeInv => AeTypeOK
  BY DEF AeInv
<1> QED BY AeInvariance, <1>1, PTL

\* aeCreateFileEvent and aeDeleteFileEvent: epoll watches what the table says, and maxfd is the
\* largest registered descriptor
THEOREM TableMatchesKernelAlways == AeSpec => []TableMatchesKernel
<1>1. AeInv => TableMatchesKernel
  BY DEF AeInv
<1> QED BY AeInvariance, <1>1, PTL

\* aeProcessEvents: the loop never sleeps past a timer that is not late already
THEOREM SleepsNoLongerAlways == AeSpec => []SleepsNoLonger
<1>1. AeInv => SleepsNoLonger
  BY DEF AeInv
<1> QED BY AeInvariance, <1>1, PTL

\* processTimeEvents: the walk never looks at a freed timer nor calls one created in this pass
THEOREM TimerPassAlways == AeSpec => []TimerPass
<1>1. AeInv => TimerPass
  BY DEF AeInv
<1> QED BY AeInvariance, <1>1, PTL

-----------------------------------------------------------------------------
(* epoll *)

Keys == {"in", "hup"}
WaiterPcs == {"user", "fetch", "schedule", "send", "scan"}
CtlPcs == {"user", "hook", "poll", "link"}

TaskType == [pc : WaiterPcs \cup CtlPcs, state : {"running", "interruptible"},
             timeout : {"forever", "zero", "some"}, timed_out : BOOLEAN,
             sig : {"none", "signal", "fatal"}, tx : Seq(EpFiles), got : Seq(EpFiles),
             fault : BOOLEAN, file : EpFiles, revents : SUBSET Keys]

ItemType == [linked : BOOLEAN, hooked : BOOLEAN, mode : {"LT", "ET", "ONESHOT"},
             events : SUBSET Keys, reports : Int]

UsedType == [ops : Int, ctls : Int, faults : Int, killed : BOOLEAN]

EpTypeOK ==
    /\ epPipe \in [EpFiles -> [bufs : Int, writer : BOOLEAN]]
    /\ epWakes \subseteq EpFiles \X SUBSET Keys
    /\ epItem \in [EpFiles -> ItemType]
    /\ epRdl \in Seq(EpFiles)
    /\ epOvf \in [active : BOOLEAN, list : Seq(EpFiles)]
    /\ epWq \in Seq(EpWaiters)
    /\ epMtx \in EpTasks \cup {Unlocked}
    /\ epTask \in [EpTasks -> TaskType]
    /\ epFresh \subseteq EpFiles
    /\ epUsed \in UsedType

\* ep->mtx is held by the one task that scans or inserts, and the scan works on its own list
\* while the callback uses ovflist.
MtxHeld ==
    /\ \A t \in EpWaiters : epTask[t].pc \in WaiterPcs /\ (epTask[t].pc = "scan" <=> epMtx = t)
    /\ \A t \in EpControllers : /\ epTask[t].pc \in CtlPcs
                                /\ epTask[t].pc \in {"hook", "poll", "link"} <=> epMtx = t
    /\ \A t \in EpTasks : epTask[t].pc # "scan" => epTask[t].tx = <<>> /\ epTask[t].got = <<>>
    /\ epOvf.active <=> epMtx \in EpWaiters
    /\ ~epOvf.active => epOvf.list = <<>>

\* An item asks for everything a read end has, unless one-shot delivery disabled it.
ItemsSound ==
    /\ \A f \in EpFiles :
          /\ epItem[f].hooked => epItem[f].linked
          /\ epItem[f].events \in {{}, ReadEvents}
          /\ epItem[f].mode = "ONESHOT" =>
                epItem[f].reports <= (IF epItem[f].events = {} THEN 1 ELSE 0)
    /\ \A t \in EpControllers :
          epTask[t].pc \in {"hook", "poll", "link"} => epItem[epTask[t].file].linked
    /\ \A w \in epWakes : "in" \in w[2]

\* The ready list, the list of the scan and ovflist hold each item at most once.
ListsSound ==
    /\ \A t \in EpWaiters : /\ IsInjective(epTask[t].tx \o epRdl)
                            /\ IsInjective(epTask[t].got)
                            /\ ToSet(epTask[t].tx) \cap ToSet(epTask[t].got) = {}
    /\ IsInjective(epRdl) /\ IsInjective(epOvf.list)
    /\ ToSet(epRdl) \cup Stolen \cup ToSet(epOvf.list) \subseteq {f \in EpFiles : epItem[f].linked}

\* What ep_insert polled and has not acted on yet
Polled(f) == \E t \in EpControllers : /\ epTask[t].file = f /\ epTask[t].pc = "link"
                                      /\ epTask[t].revents # {}

\* An item with something to report is on a list, or is going to be put there.
Kept(f) ==
    (/\ epItem[f].hooked
     /\ ~\E t \in EpControllers : epTask[t].file = f /\ epTask[t].pc \in {"hook", "poll"}
     /\ ep_item_poll(f) # {}
     /\ epItem[f].mode = "ET" => f \in epFresh)
    => \/ f \in ToSet(epRdl) \cup Stolen \cup ToSet(epOvf.list)
       \/ \E w \in epWakes : w[1] = f /\ w[2] \cap epItem[f].events # {}
       \/ Polled(f)

EventsKept == \A f \in EpFiles : Kept(f)

\* A task that sleeps is on ep->wq, and one that was killed is counted.
SleepersQueued ==
    /\ \A t \in EpTasks : epTask[t].state = "interruptible" =>
                              t \in EpWaiters /\ epTask[t].pc = "schedule"
    /\ \A t \in EpWaiters : epTask[t].pc = "schedule" => t \in ToSet(epWq)
    /\ \A t \in EpTasks : epTask[t].sig = "fatal" => epUsed.killed

IInv == /\ EpTypeOK /\ MtxHeld /\ ItemsSound /\ ListsSound /\ EventsKept /\ SleepersQueued
        /\ NobodySleepsOverEvents

-----------------------------------------------------------------------------
(* Frames: what a step preserves because it leaves its state alone *)

\* The fields of a task that steps assign keep their types.
LEMMA TaskUpdates ==
    ASSUME NEW r \in TaskType, NEW pc \in WaiterPcs \cup CtlPcs,
           NEW state \in {"running", "interruptible"}, NEW tx \in Seq(EpFiles)
    PROVE  /\ [r EXCEPT !.pc = pc] \in TaskType
           /\ [r EXCEPT !.state = state] \in TaskType
           /\ [r EXCEPT !.pc = pc, !.state = state] \in TaskType
           /\ [r EXCEPT !.state = state, !.timed_out = TRUE] \in TaskType
           /\ \A sig \in {"signal", "fatal"} : [r EXCEPT !.sig = sig, !.state = state] \in TaskType
           /\ \A timeout \in {"forever", "zero", "some"}, out \in BOOLEAN :
                 [r EXCEPT !.pc = pc, !.state = state, !.timeout = timeout, !.timed_out = out]
                    \in TaskType
           /\ [r EXCEPT !.pc = pc, !.tx = tx] \in TaskType
           /\ [r EXCEPT !.tx = tx] \in TaskType
           /\ \A got \in Seq(EpFiles) : [r EXCEPT !.tx = tx, !.got = got] \in TaskType
           /\ [r EXCEPT !.fault = TRUE] \in TaskType
           /\ \A f \in EpFiles : [r EXCEPT !.pc = pc, !.file = f] \in TaskType
           /\ \A e \in SUBSET Keys : [r EXCEPT !.pc = pc, !.revents = e] \in TaskType
<1>1. [r EXCEPT !.pc = pc] \in TaskType
  BY DEF TaskType
<1>2. [r EXCEPT !.state = state] \in TaskType
  BY DEF TaskType
<1>3. [r EXCEPT !.pc = pc, !.state = state] \in TaskType
  BY DEF TaskType
<1>4. [r EXCEPT !.state = state, !.timed_out = TRUE] \in TaskType
  BY DEF TaskType
<1>5. \A sig \in {"signal", "fatal"} : [r EXCEPT !.sig = sig, !.state = state] \in TaskType
  BY DEF TaskType
<1>6. \A timeout \in {"forever", "zero", "some"}, out \in BOOLEAN :
         [r EXCEPT !.pc = pc, !.state = state, !.timeout = timeout, !.timed_out = out] \in TaskType
  BY DEF TaskType
<1>7. [r EXCEPT !.pc = pc, !.tx = tx] \in TaskType
  BY DEF TaskType
<1>8. [r EXCEPT !.tx = tx] \in TaskType
  BY DEF TaskType
<1>9. \A got \in Seq(EpFiles) : [r EXCEPT !.tx = tx, !.got = got] \in TaskType
  BY DEF TaskType
<1>10. [r EXCEPT !.fault = TRUE] \in TaskType
  BY DEF TaskType
<1>11. \A f \in EpFiles : [r EXCEPT !.pc = pc, !.file = f] \in TaskType
  BY DEF TaskType
<1>12. \A e \in SUBSET Keys : [r EXCEPT !.pc = pc, !.revents = e] \in TaskType
  BY DEF TaskType
<1> QED BY <1>1, <1>2, <1>3, <1>4, <1>5, <1>6, <1>7, <1>8, <1>9, <1>10, <1>11, <1>12

\* The record of a task that returned to user space has its type.
LEMMA ReturnUpdate ==
    ASSUME NEW r \in TaskType, NEW none \in Seq(EpFiles)
    PROVE  [r EXCEPT !.pc = "user", !.state = "running", !.sig = "none", !.timed_out = FALSE,
                     !.timeout = "forever", !.fault = FALSE, !.got = none, !.tx = none]
              \in TaskType
  BY DEF TaskType, WaiterPcs

\* The counters of the bounds keep their types.
LEMMA UsedUpdates ==
    ASSUME NEW u \in UsedType
    PROVE  /\ [u EXCEPT !.ops = @ + 1] \in UsedType
           /\ [u EXCEPT !.ctls = @ + 1] \in UsedType
           /\ [u EXCEPT !.faults = @ + 1] \in UsedType
           /\ \A b \in BOOLEAN : [u EXCEPT !.faults = @ + 1, !.killed = b] \in UsedType
<1>1. [u EXCEPT !.ops = @ + 1] \in UsedType
  BY DEF UsedType
<1>2. [u EXCEPT !.ctls = @ + 1] \in UsedType
  BY DEF UsedType
<1>3. [u EXCEPT !.faults = @ + 1] \in UsedType
  BY DEF UsedType
<1>4. ASSUME NEW b \in BOOLEAN PROVE [u EXCEPT !.faults = @ + 1, !.killed = b] \in UsedType
  <2>1. u.faults + 1 \in Int
    BY DEF UsedType
  <2>2. \A n \in Int : [u EXCEPT !.faults = n, !.killed = b] \in UsedType
    BY DEF UsedType
  <2> QED BY <2>1, <2>2, Zenon
<1> QED BY <1>1, <1>2, <1>3, <1>4

\* Items stay on the lists that the scans and the callback filled.
LEMMA ListsFrame ==
    ASSUME ListsSound, UNCHANGED <<epRdl, epOvf>>,
           \A t \in EpWaiters : epTask'[t].tx = epTask[t].tx /\ epTask'[t].got = epTask[t].got,
           \A f \in EpFiles : epItem[f].linked => epItem'[f].linked
    PROVE  ListsSound'
<1>1. Stolen' = Stolen
  BY DEF Stolen
<1> QED BY <1>1 DEF ListsSound

OnLists == ToSet(epRdl) \cup Stolen \cup ToSet(epOvf.list)

\* Events stay kept while pipes, items and wake-ups stay and nothing leaves the lists.
LEMMA EventsFrame ==
    ASSUME EventsKept, UNCHANGED <<epPipe, epItem, epWakes, epFresh>>, OnLists \subseteq OnLists',
           \A t \in EpControllers : /\ epTask'[t].pc = epTask[t].pc
                                    /\ epTask'[t].file = epTask[t].file
                                    /\ epTask'[t].revents = epTask[t].revents
    PROVE  EventsKept'
<1>1. \A f \in EpFiles : Polled(f)' <=> Polled(f)
  BY DEF Polled
<1>2. \A f \in EpFiles : ep_item_poll(f)' = ep_item_poll(f)
  BY DEF ep_item_poll, pipe_poll
<1> QED BY <1>1, <1>2 DEF EventsKept, Kept, OnLists

\* Items stay sound while they and the insertions under way stay.
LEMMA ItemsFrame ==
    ASSUME ItemsSound, UNCHANGED epItem, epWakes' \subseteq epWakes,
           \A t \in EpControllers : epTask'[t].pc = epTask[t].pc /\ epTask'[t].file = epTask[t].file
    PROVE  ItemsSound'
  BY DEF ItemsSound

\* The holder of ep->mtx stays the holder while no task passes into or out of a section.
LEMMA MtxFrame ==
    ASSUME MtxHeld, UNCHANGED epMtx, epOvf'.active = epOvf.active,
           epOvf.active \/ epOvf'.list = epOvf.list,
           \A t \in EpTasks : epTask'[t].pc = epTask[t].pc,
           \A t \in EpTasks : epTask[t].pc # "scan" =>
                                 epTask'[t].tx = epTask[t].tx /\ epTask'[t].got = epTask[t].got
    PROVE  MtxHeld'
  BY DEF MtxHeld, EpTasks

\* Sleepers stay on ep->wq and nobody begins to sleep over events while neither ready list
\* nor states change.
LEMMA SleepFrame ==
    ASSUME SleepersQueued, NobodySleepsOverEvents, UNCHANGED epWq, epUsed'.killed = epUsed.killed,
           epOvf'.active = epOvf.active, epRdl = <<>> => epRdl' = <<>> \/ epOvf.active,
           \A t \in EpTasks : epTask'[t].state = epTask[t].state /\ epTask'[t].sig = epTask[t].sig,
           \A t \in EpWaiters : epTask'[t].pc = epTask[t].pc
    PROVE  SleepersQueued' /\ NobodySleepsOverEvents'
<1>1. SleepersQueued'
  BY DEF SleepersQueued, EpTasks
<1>2. NobodySleepsOverEvents'
  BY DEF NobodySleepsOverEvents, EpTasks
<1> QED BY <1>1, <1>2

-----------------------------------------------------------------------------
(* The wake-up *)

\* wake_up wakes one sleeper of ep->wq if there is one, and changes nothing else.
LEMMA WakesOne ==
    ASSUME NEW task \in [EpTasks -> TaskType], epWq \in Seq(EpWaiters)
    PROVE  /\ wake_up(task) \in [EpTasks -> TaskType]
           /\ \/ /\ wake_up(task) = task
                 /\ \A u \in ToSet(epWq) : task[u].state # "interruptible"
              \/ \E u \in ToSet(epWq) : /\ task[u].state = "interruptible"
                                        /\ wake_up(task) = [task EXCEPT ![u].state = "running"]
<1> DEFINE I == {i \in 1 .. Len(epWq) : task[epWq[i]].state = "interruptible"}
           k == CHOOSE i \in I : \A j \in I : i <= j
<1>1. CASE I = {}
  <2>1. wake_up(task) = task
    BY <1>1 DEF wake_up, SelectInSeq
  <2>2. \A u \in ToSet(epWq) : task[u].state # "interruptible"
    BY <1>1, Elements
  <2> QED BY <2>1, <2>2
<1>2. CASE I # {}
  <2>1. k \in I
    <3>1. I \in SUBSET Nat
      OBVIOUS
    <3>2. \E i \in I : \A j \in I : i <= j
      BY <1>2, <3>1, LeastNumber
    <3> QED BY <3>2
  <2>2. k # 0
    <3> HIDE DEF k
    <3> QED BY <2>1
  <2>3. wake_up(task) = [task EXCEPT ![epWq[k]].state = "running"]
    BY <1>2, <2>2 DEF wake_up, SelectInSeq, Min
  <2> HIDE DEF k
  <2>4. epWq[k] \in ToSet(epWq) /\ epWq[k] \in EpTasks
    BY <2>1, Elements DEF EpTasks
  <2>5. [task[epWq[k]] EXCEPT !.state = "running"] \in TaskType
    <3>1. task[epWq[k]] \in TaskType
      BY <2>4
    <3> QED BY <3>1 DEF TaskType
  <2>6. wake_up(task) \in [EpTasks -> TaskType]
    BY <2>3, <2>4, <2>5
  <2> QED BY <2>1, <2>3, <2>4, <2>6
<1> QED BY <1>1, <1>2

\* What a wake-up leaves alone
SameButAwake(a, b) ==
    /\ a.pc = b.pc /\ a.sig = b.sig /\ a.tx = b.tx /\ a.got = b.got
    /\ a.file = b.file /\ a.revents = b.revents
    /\ a.state = "interruptible" => b.state = "interruptible"

\* wake_up changes of a task only whether it runs.
LEMMA WakeFrame ==
    ASSUME NEW task \in [EpTasks -> TaskType], epWq \in Seq(EpWaiters)
    PROVE  \A u \in EpTasks : SameButAwake(wake_up(task)[u], task[u])
<1>1. CASE wake_up(task) = task
  BY <1>1 DEF SameButAwake
<1>2. ASSUME NEW v \in ToSet(epWq), wake_up(task) = [task EXCEPT ![v].state = "running"]
      PROVE  \A u \in EpTasks : SameButAwake(wake_up(task)[u], task[u])
  BY <1>2 DEF TaskType, SameButAwake
<1> QED BY <1>1, <1>2, WakesOne

\* After the wake-up of ep->wq another task is awake, if one sleeps.
LEMMA WakeStep ==
    ASSUME NEW task \in [EpTasks -> TaskType], epWq \in Seq(EpWaiters), UNCHANGED epWq,
           epTask' = wake_up(task),
           \A u \in EpTasks : task[u].state = "interruptible" =>
                                 u \in EpWaiters /\ task[u].pc = "schedule",
           \A u \in EpWaiters : task[u].pc = "schedule" => u \in ToSet(epWq),
           \A u \in EpTasks : task[u].sig = "fatal" => epUsed'.killed
    PROVE  SleepersQueued' /\ NobodySleepsOverEvents'
<1>1. \A u \in EpTasks : SameButAwake(epTask'[u], task[u])
  BY WakeFrame
<1>2. SleepersQueued'
  BY <1>1 DEF SleepersQueued, SameButAwake, EpTasks
<1>3. NobodySleepsOverEvents'
  <2>1. SUFFICES ASSUME NEW u \in EpWaiters, epTask'[u].state = "interruptible"
                 PROVE  \E v \in EpWaiters : /\ epTask'[v].pc \in {"fetch", "schedule", "send"}
                                             /\ epTask'[v].state = "running"
    BY DEF NobodySleepsOverEvents
  <2>2. task[u].state = "interruptible" /\ u \in ToSet(epWq)
    BY <1>1, <2>1 DEF SameButAwake, EpTasks
  <2>3. PICK v \in ToSet(epWq) : /\ task[v].state = "interruptible"
                                 /\ epTask' = [task EXCEPT ![v].state = "running"]
    BY <2>2, WakesOne
  <2>4. v \in EpWaiters /\ v \in EpTasks
    BY Elements DEF EpTasks
  <2>5. task[v] \in TaskType /\ epTask'[v] = [task[v] EXCEPT !.state = "running"]
    BY <2>3, <2>4
  <2>6. epTask'[v].state = "running"
    BY <2>5 DEF TaskType
  <2>7. epTask'[v].pc = "schedule"
    BY <1>1, <2>3, <2>4 DEF SameButAwake
  <2> QED BY <2>4, <2>6, <2>7
<1> QED BY <1>2, <1>3

-----------------------------------------------------------------------------
(* The steps of a waiter outside the scan *)

\* The record of one task is replaced.
LEMMA OneTask ==
    ASSUME EpTypeOK, NEW t \in EpTasks, NEW r \in TaskType, epTask' = Set(t, r)
    PROVE  /\ epTask' \in [EpTasks -> TaskType] /\ epTask'[t] = r
           /\ \A u \in EpTasks : u # t => epTask'[u] = epTask[u]
  BY DEF EpTypeOK, Set

\* A step of ep_poll: the lists stay as they are, and a task that leaves them behind leaves
\* nothing to look at.
LEMMA QuietStep ==
    ASSUME IInv, EpAssumption, NEW t \in EpWaiters, NEW r \in TaskType, epTask' = Set(t, r),
           UNCHANGED <<epPipe, epWakes, epItem, epRdl, epOvf, epMtx, epFresh>>,
           epWq' \in Seq(EpWaiters), ToSet(epWq) \ {t} \subseteq ToSet(epWq'),
           epUsed' \in UsedType,
           epUsed.killed => epUsed'.killed,
           epTask[t].pc # "scan", r.pc \in WaiterPcs \ {"scan"}, r.tx = <<>>, r.got = <<>>,
           r.state = "interruptible" => r.pc = "schedule" /\ epRdl = <<>>,
           r.pc = "schedule" => t \in ToSet(epWq'),
           r.sig = "fatal" => epUsed'.killed,
           epTask[t].pc \in {"fetch", "schedule", "send"} =>
              \/ r.pc \in {"fetch", "schedule", "send"} /\ r.state = "running"
              \/ epUsed'.killed \/ epRdl = <<>> \/ epOvf.active
    PROVE  IInv'
<1> USE DEF IInv
<1>1. t \in EpTasks /\ t \notin EpControllers
  BY DEF EpTasks, EpAssumption
<1>2. /\ epTask' \in [EpTasks -> TaskType] /\ epTask'[t] = r
      /\ \A u \in EpTasks : u # t => epTask'[u] = epTask[u]
  BY <1>1, OneTask
<1>3. EpTypeOK'
  BY <1>2 DEF EpTypeOK
<1>4. MtxHeld'
  BY <1>1, <1>2 DEF MtxHeld, EpTasks
<1>5. \A u \in EpControllers : epTask'[u] = epTask[u]
  BY <1>1, <1>2 DEF EpTasks
<1>6. ItemsSound'
  BY <1>5, ItemsFrame
<1>7. \A u \in EpWaiters : epTask'[u].tx = epTask[u].tx /\ epTask'[u].got = epTask[u].got
  BY <1>1, <1>2 DEF MtxHeld, EpTasks
<1>8. ListsSound'
  BY <1>7, ListsFrame
<1>9. EventsKept'
  <2>1. Stolen' = Stolen
    BY <1>7 DEF Stolen
  <2>2. OnLists \subseteq OnLists'
    BY <2>1 DEF OnLists
  <2> QED BY <1>5, <2>2, EventsFrame
<1>10. SleepersQueued'
  BY <1>1, <1>2 DEF SleepersQueued, EpTasks
<1>11. NobodySleepsOverEvents'
  BY <1>1, <1>2 DEF NobodySleepsOverEvents, EpTasks
<1> QED BY <1>3, <1>4, <1>6, <1>8, <1>9, <1>10, <1>11

\* A waiter outside the scan has nothing on its lists.
LEMMA WaiterIdle ==
    ASSUME EpTypeOK, MtxHeld, NEW t \in EpWaiters
    PROVE  /\ t \in EpTasks /\ epTask[t] \in TaskType
           /\ epTask[t].pc # "scan" => epTask[t].tx = <<>> /\ epTask[t].got = <<>>
  BY DEF EpTypeOK, MtxHeld, EpTasks

\* A task that returned to user space holds nothing.
LEMMA ReturnedTask ==
    ASSUME EpTypeOK, NEW t \in EpTasks
    PROVE  /\ Returned(t) \in TaskType /\ Returned(t).pc = "user" /\ Returned(t).sig = "none"
           /\ Returned(t).state = "running" /\ Returned(t).tx = <<>> /\ Returned(t).got = <<>>
           /\ Returned(t).file = epTask[t].file /\ Returned(t).revents = epTask[t].revents
<1>1. epTask[t] \in TaskType /\ <<>> \in Seq(EpFiles)
  BY EmptyList DEF EpTypeOK
<1>2. Returned(t) \in TaskType
  BY <1>1, ReturnUpdate, Zenon DEF Returned
<1>3. /\ Returned(t).pc = "user" /\ Returned(t).sig = "none" /\ Returned(t).state = "running"
      /\ Returned(t).tx = <<>> /\ Returned(t).got = <<>>
  BY <1>1 DEF Returned, TaskType
<1>4. Returned(t).file = epTask[t].file /\ Returned(t).revents = epTask[t].revents
  BY <1>1 DEF Returned, TaskType
<1> QED BY <1>2, <1>3, <1>4

\* The record of a task that entered ep_poll has its type.
LEMMA CallUpdate ==
    ASSUME NEW r \in TaskType, NEW timeout \in {"forever", "zero", "some"}, NEW out \in BOOLEAN
    PROVE  /\ [r EXCEPT !.pc = "send", !.state = "running", !.timeout = timeout,
                        !.timed_out = out] \in TaskType
           /\ [r EXCEPT !.pc = "schedule", !.state = "interruptible", !.timeout = timeout,
                        !.timed_out = out] \in TaskType
<1>1. [r EXCEPT !.pc = "send", !.state = "running", !.timeout = timeout, !.timed_out = out]
         \in TaskType
  BY DEF TaskType, WaiterPcs
<1>2. [r EXCEPT !.pc = "schedule", !.state = "interruptible", !.timeout = timeout,
               !.timed_out = out] \in TaskType
  BY DEF TaskType, WaiterPcs
<1> QED BY <1>1, <1>2

\* ep_poll up to its first look at the ready list keeps the invariant.
LEMMA FetchStep ==
    ASSUME IInv, EpAssumption, NEW t \in EpWaiters, NEW timeout \in EpTimeouts, Fetch(t, timeout)
    PROVE  IInv'
<1> DEFINE Called(pc, state) == [epTask[t] EXCEPT !.pc = pc, !.state = state, !.timeout = timeout,
                                   !.timed_out = (timeout = "zero")]
           events == Called("send", "running")
           sleep == Called("schedule", "interruptible")
<1>1. t \in EpTasks /\ epTask[t] \in TaskType /\ epTask[t].pc # "scan"
      /\ epTask[t].tx = <<>> /\ epTask[t].got = <<>>
  BY WaiterIdle DEF IInv, Fetch
<1>2. timeout \in {"forever", "zero", "some"} /\ (timeout = "zero") \in BOOLEAN
  BY DEF EpAssumption
<1>3. events \in TaskType /\ events.pc = "send" /\ events.state = "running" /\ events.tx = <<>>
      /\ events.got = <<>> /\ events.sig = epTask[t].sig
  <2>1. events \in TaskType
    BY <1>1, <1>2, CallUpdate, Zenon
  <2>2. events.pc = "send" /\ events.state = "running" /\ events.tx = epTask[t].tx
        /\ events.got = epTask[t].got /\ events.sig = epTask[t].sig
    BY <1>1, <1>2 DEF TaskType
  <2> HIDE DEF events
  <2> QED BY <1>1, <2>1, <2>2
<1>4. sleep \in TaskType /\ sleep.pc = "schedule" /\ sleep.tx = <<>> /\ sleep.got = <<>>
      /\ sleep.sig = epTask[t].sig
  <2>1. sleep \in TaskType
    BY <1>1, <1>2, CallUpdate, Zenon
  <2>2. sleep.pc = "schedule" /\ sleep.tx = epTask[t].tx /\ sleep.got = epTask[t].got
        /\ sleep.sig = epTask[t].sig
    BY <1>1, <1>2 DEF TaskType
  <2> HIDE DEF sleep
  <2> QED BY <1>1, <2>1, <2>2
<1>5. UNCHANGED <<epPipe, epWakes, epItem, epRdl, epOvf, epMtx, epFresh, epUsed>>
  BY DEF Fetch
<1>6. epTask[t].sig = "fatal" => epUsed'.killed
  BY <1>1, <1>5 DEF IInv, SleepersQueued
<1>7. epUsed' \in UsedType
      /\ epUsed'.killed = epUsed.killed /\ epWq \in Seq(EpWaiters)
  BY <1>5 DEF IInv, EpTypeOK
<1>8. CASE epTask' = Set(t, events) /\ epWq' = epWq
  <2> HIDE DEF events
  <2> QED BY <1>1, <1>3, <1>5, <1>6, <1>7, <1>8, QuietStep DEF WaiterPcs
<1>9. CASE epTask' = Set(t, Returned(t)) /\ epWq' = epWq /\ ~ep_events_available
  <2>1. epRdl = <<>>
    BY <1>9 DEF ep_events_available
  <2> QED BY <2>1, <1>1, <1>5, <1>7, <1>9, QuietStep, ReturnedTask DEF WaiterPcs, IInv
<1>10. CASE epTask' = Set(t, sleep) /\ epWq' = <<t>> \o epWq /\ ~ep_events_available
  <2>1. epRdl = <<>>
    BY <1>10 DEF ep_events_available
  <2>2. epWq' \in Seq(EpWaiters) /\ ToSet(epWq') = ToSet(epWq) \cup {t}
    BY <1>7, <1>10, PushOne
  <2> HIDE DEF sleep
  <2> QED BY <2>1, <2>2, <1>1, <1>4, <1>5, <1>6, <1>7, <1>10, QuietStep DEF WaiterPcs
<1> QED BY <1>8, <1>9, <1>10 DEF Fetch

\* A task of ep_poll that runs again after schedule_hrtimeout_range keeps the invariant.
LEMMA ScheduledStep ==
    ASSUME IInv, EpAssumption, NEW t \in EpWaiters, Scheduled(t)
    PROVE  IInv'
<1> DEFINE send == [epTask[t] EXCEPT !.pc = "send", !.state = "running"]
           sleep == [epTask[t] EXCEPT !.state = "interruptible"]
<1>1. t \in EpTasks /\ epTask[t] \in TaskType /\ epTask[t].pc = "schedule"
      /\ epTask[t].tx = <<>> /\ epTask[t].got = <<>>
  BY WaiterIdle DEF IInv, Scheduled
<1>3. send \in TaskType /\ send.pc = "send" /\ send.state = "running" /\ send.tx = <<>>
      /\ send.got = <<>> /\ send.sig = epTask[t].sig
  <2>1. epTask[t] \in TaskType
    BY <1>1
  <2>3. send \in TaskType
    BY <2>1 DEF TaskType, WaiterPcs
  <2>2. send.pc = "send" /\ send.state = "running" /\ send.tx = epTask[t].tx
        /\ send.got = epTask[t].got /\ send.sig = epTask[t].sig
    BY <1>1 DEF TaskType
  <2> HIDE DEF send
  <2> QED BY <1>1, <2>2, <2>3
<1>4. sleep \in TaskType /\ sleep.pc = "schedule" /\ sleep.tx = <<>> /\ sleep.got = <<>>
      /\ sleep.sig = epTask[t].sig
  BY <1>1 DEF TaskType
<1>5. UNCHANGED <<epPipe, epWakes, epItem, epRdl, epOvf, epMtx, epFresh, epUsed>>
  BY DEF Scheduled
<1>6. /\ epTask[t].sig = "fatal" => epUsed'.killed
      /\ t \in ToSet(epWq)
  BY <1>1, <1>5 DEF IInv, SleepersQueued
<1>7. epUsed' \in UsedType
      /\ epUsed'.killed = epUsed.killed /\ epWq \in Seq(EpWaiters)
  BY <1>5 DEF IInv, EpTypeOK
<1>8. CASE LoopEnds(t)
  <2>1. epTask' = Set(t, CheckEvents(t)) /\ epWq' = RemoveFirst(epWq, t)
    BY <1>8 DEF Scheduled
  <2>2. epWq' \in Seq(EpWaiters) /\ ToSet(epWq) \ {t} \subseteq ToSet(epWq')
    BY <2>1, <1>7, RemoveOne
  <2>3. CASE ep_events_available /\ ~EINTR(t)
    <3>1. epTask' = Set(t, send)
      BY <2>1, <2>3 DEF CheckEvents
    <3> HIDE DEF send
    <3> QED BY <3>1, <2>2, <1>1, <1>3, <1>5, <1>6, <1>7, QuietStep DEF WaiterPcs
  <2>4. CASE ~(ep_events_available /\ ~EINTR(t))
    <3>1. epTask' = Set(t, Returned(t))
      BY <2>1, <2>4 DEF CheckEvents
    <3>2. epUsed'.killed \/ epRdl = <<>>
      BY <2>4, <1>6 DEF EINTR, Fatal, ep_events_available
    <3> QED BY <3>1, <3>2, <2>2, <1>1, <1>5, <1>7, QuietStep, ReturnedTask DEF WaiterPcs, IInv
  <2> QED BY <2>3, <2>4
<1>9. CASE ~LoopEnds(t)
  <2>1. epTask' = Set(t, sleep) /\ epWq' = epWq
    BY <1>9 DEF Scheduled
  <2>2. epRdl = <<>>
    BY <1>9 DEF LoopEnds, ep_events_available
  <2> HIDE DEF sleep
  <2> QED BY <2>1, <2>2, <1>1, <1>4, <1>5, <1>6, <1>7, QuietStep DEF WaiterPcs
<1> QED BY <1>8, <1>9

\* A time-out that fires keeps the invariant.
LEMMA TimerStep ==
    ASSUME IInv, EpAssumption, NEW t \in EpWaiters, hrtimer(t)
    PROVE  IInv'
<1> DEFINE r == [epTask[t] EXCEPT !.state = "running", !.timed_out = TRUE]
<1>1. t \in EpTasks /\ epTask[t] \in TaskType /\ epTask[t].pc = "schedule"
      /\ epTask[t].tx = <<>> /\ epTask[t].got = <<>> /\ epTask' = Set(t, r)
      /\ UNCHANGED <<epPipe, epWakes, epItem, epRdl, epOvf, epWq, epMtx, epFresh>>
      /\ epUsed' = [epUsed EXCEPT !.faults = @ + 1]
  BY WaiterIdle DEF IInv, hrtimer
<1>2. epUsed' \in UsedType
      /\ epUsed'.killed = epUsed.killed /\ epWq \in Seq(EpWaiters)
  <2>1. epUsed \in UsedType
        /\ epWq \in Seq(EpWaiters)
    BY DEF IInv, EpTypeOK
  <2>2. epUsed' \in UsedType
    BY <1>1, <2>1, UsedUpdates
  <2> QED BY <1>1, <2>1, <2>2
<1>3. r \in TaskType /\ r.pc = "schedule" /\ r.tx = <<>> /\ r.got = <<>> /\ r.state = "running"
      /\ r.sig = epTask[t].sig
  BY <1>1 DEF TaskType
<1>4. /\ epTask[t].sig = "fatal" => epUsed'.killed
      /\ t \in ToSet(epWq)
  BY <1>1, <1>2 DEF IInv, SleepersQueued
<1> HIDE DEF r
<1> QED BY <1>1, <1>2, <1>3, <1>4, QuietStep DEF WaiterPcs

\* A signal keeps the invariant.
LEMMA SignalStep ==
    ASSUME IInv, EpAssumption, NEW t \in EpWaiters, NEW sig \in EpSignals, send_signal(t, sig)
    PROVE  IInv'
<1> DEFINE r == [epTask[t] EXCEPT !.sig = sig, !.state = "running"]
<1>1. t \in EpTasks /\ epTask[t] \in TaskType /\ epTask[t].pc \in {"fetch", "schedule"}
      /\ epTask[t].tx = <<>> /\ epTask[t].got = <<>> /\ epTask' = Set(t, r)
      /\ UNCHANGED <<epPipe, epWakes, epItem, epRdl, epOvf, epWq, epMtx, epFresh>>
      /\ epUsed' = [epUsed EXCEPT !.faults = @ + 1, !.killed = @ \/ sig = "fatal"]
  BY WaiterIdle DEF IInv, send_signal
<1>2. epUsed \in UsedType
      /\ epWq \in Seq(EpWaiters)
  BY DEF IInv, EpTypeOK
<1>3. epUsed' \in UsedType
      /\ (epUsed.killed => epUsed'.killed) /\ (sig = "fatal" => epUsed'.killed)
  <2>1. (epUsed.killed \/ sig = "fatal") \in BOOLEAN
    OBVIOUS
  <2>3. epUsed' \in UsedType
    BY <1>1, <1>2, <2>1, UsedUpdates, Zenon
  <2>4. epUsed'.killed = (epUsed.killed \/ sig = "fatal")
    BY <1>1, <1>2 DEF UsedType
  <2> QED BY <2>3, <2>4
<1>4. sig \in {"none", "signal", "fatal"}
  BY DEF EpAssumption
<1>5. r \in TaskType /\ r.pc = epTask[t].pc /\ r.tx = <<>> /\ r.got = <<>> /\ r.state = "running"
      /\ r.sig = sig
  BY <1>1, <1>4 DEF TaskType
<1>6. epTask[t].pc = "schedule" => t \in ToSet(epWq)
  BY <1>1 DEF IInv, SleepersQueued
<1> HIDE DEF r
<1> QED BY <1>1, <1>2, <1>3, <1>5, <1>6, QuietStep DEF WaiterPcs

-----------------------------------------------------------------------------
(* Pipes *)

\* A step that only touches pipes: a pipe that got an event has its wake-up on the way.
LEMMA PipeStep ==
    ASSUME IInv, UNCHANGED <<epItem, epRdl, epOvf, epWq, epMtx, epTask>>, EpTypeOK',
           epUsed'.killed = epUsed.killed, epWakes \subseteq epWakes',
           \A w \in epWakes' : "in" \in w[2], epFresh \subseteq epFresh',
           \A f \in EpFiles :
              \/ \E w \in epWakes' : w[1] = f /\ "in" \in w[2]
              \/ pipe_poll(f)' \subseteq pipe_poll(f) /\ (f \in epFresh' => f \in epFresh)
    PROVE  IInv'
<1> USE DEF IInv
<1>1. MtxHeld'
  BY MtxFrame
<1>2. ItemsSound'
  BY DEF ItemsSound
<1>3. ListsSound'
  BY ListsFrame
<1>4. SleepersQueued' /\ NobodySleepsOverEvents'
  BY SleepFrame
<1>5. EventsKept'
  <2>1. Stolen' = Stolen
    BY DEF Stolen
  <2>2. \A f \in EpFiles : Polled(f)' <=> Polled(f)
    BY DEF Polled
  <2>3. \A f \in EpFiles : ep_item_poll(f)' = pipe_poll(f)' \cap epItem[f].events
    BY DEF ep_item_poll
  <2>4. ASSUME NEW f \in EpFiles,
               \E w \in epWakes' : w[1] = f /\ "in" \in w[2], ep_item_poll(f)' # {}
        PROVE  \E w \in epWakes' : w[1] = f /\ w[2] \cap epItem[f].events # {}
    BY <2>3, <2>4 DEF ItemsSound, ReadEvents
  <2>5. ASSUME NEW f \in EpFiles, pipe_poll(f)' \subseteq pipe_poll(f)
        PROVE  ep_item_poll(f)' # {} => ep_item_poll(f) # {}
    BY <2>3, <2>5 DEF ep_item_poll
  <2> QED BY <2>1, <2>2, <2>4, <2>5 DEF EventsKept, Kept
<1> QED BY <1>1, <1>2, <1>3, <1>4, <1>5

\* A pipe keeps its type.
LEMMA PipeUpdates ==
    ASSUME EpTypeOK, NEW f \in EpFiles
    PROVE  /\ [epPipe EXCEPT ![f].bufs = @ + 1] \in [EpFiles -> [bufs : Int, writer : BOOLEAN]]
           /\ [epPipe EXCEPT ![f].bufs = @ - 1] \in [EpFiles -> [bufs : Int, writer : BOOLEAN]]
           /\ [epPipe EXCEPT ![f].writer = FALSE] \in [EpFiles -> [bufs : Int, writer : BOOLEAN]]
<1>1. epPipe \in [EpFiles -> [bufs : Int, writer : BOOLEAN]]
  BY DEF EpTypeOK
<1>2. /\ [epPipe[f] EXCEPT !.bufs = @ + 1] \in [bufs : Int, writer : BOOLEAN]
      /\ [epPipe[f] EXCEPT !.bufs = @ - 1] \in [bufs : Int, writer : BOOLEAN]
      /\ [epPipe[f] EXCEPT !.writer = FALSE] \in [bufs : Int, writer : BOOLEAN]
  <2>1. epPipe[f] \in [bufs : Int, writer : BOOLEAN]
    BY <1>1
  <2>2. [epPipe[f] EXCEPT !.bufs = @ + 1] \in [bufs : Int, writer : BOOLEAN]
    BY <2>1
  <2>3. [epPipe[f] EXCEPT !.bufs = @ - 1] \in [bufs : Int, writer : BOOLEAN]
    BY <2>1
  <2>4. [epPipe[f] EXCEPT !.writer = FALSE] \in [bufs : Int, writer : BOOLEAN]
    BY <2>1
  <2> QED BY <2>2, <2>3, <2>4
<1>3. [epPipe EXCEPT ![f].bufs = @ + 1] \in [EpFiles -> [bufs : Int, writer : BOOLEAN]]
  BY <1>1, <1>2
<1>4. [epPipe EXCEPT ![f].bufs = @ - 1] \in [EpFiles -> [bufs : Int, writer : BOOLEAN]]
  BY <1>1, <1>2
<1>5. [epPipe EXCEPT ![f].writer = FALSE] \in [EpFiles -> [bufs : Int, writer : BOOLEAN]]
  BY <1>1, <1>2
<1> QED BY <1>3, <1>4, <1>5

\* A write to a pipe keeps the invariant: the wake-up for it is on its way.
LEMMA WriteStep ==
    ASSUME IInv, NEW f \in EpFiles, pipe_write(f)
    PROVE  IInv'
<1>1. epUsed \in UsedType /\ epUsed' = [epUsed EXCEPT !.ops = @ + 1]
  BY DEF IInv, EpTypeOK, pipe_write
<1>2. epUsed' \in UsedType
  BY <1>1, UsedUpdates
<1>3. epUsed'.killed = epUsed.killed
  BY <1>1 DEF UsedType
<1>4. epPipe' \in [EpFiles -> [bufs : Int, writer : BOOLEAN]]
  BY PipeUpdates DEF IInv, pipe_write
<1>5. <<f, {"in"}>> \in EpFiles \X SUBSET Keys
  BY DEF Keys
<1>6. EpTypeOK'
  BY <1>2, <1>4, <1>5 DEF IInv, EpTypeOK, pipe_write
<1>7. \A w \in epWakes' : "in" \in w[2]
  BY DEF IInv, ItemsSound, pipe_write
<1>8. <<f, {"in"}>> \in epWakes'
  BY DEF pipe_write
<1>9. ASSUME NEW g \in EpFiles, g # f
      PROVE  pipe_poll(g)' = pipe_poll(g) /\ (g \in epFresh' => g \in epFresh)
  BY <1>9 DEF IInv, EpTypeOK, pipe_write, pipe_poll
<1> QED BY <1>3, <1>6, <1>7, <1>8, <1>9, PipeStep DEF pipe_write

\* The close of a pipe's write end keeps the invariant.
LEMMA ReleaseStep ==
    ASSUME IInv, NEW f \in EpFiles, pipe_release(f)
    PROVE  IInv'
<1>1. epUsed \in UsedType /\ epUsed' = [epUsed EXCEPT !.ops = @ + 1]
  BY DEF IInv, EpTypeOK, pipe_release
<1>2. epUsed' \in UsedType
  BY <1>1, UsedUpdates
<1>3. epUsed'.killed = epUsed.killed
  BY <1>1 DEF UsedType
<1>4. epPipe' \in [EpFiles -> [bufs : Int, writer : BOOLEAN]]
  BY PipeUpdates DEF IInv, pipe_release
<1>5. <<f, {"in", "hup"}>> \in EpFiles \X SUBSET Keys
  BY DEF Keys
<1>6. EpTypeOK'
  BY <1>2, <1>4, <1>5 DEF IInv, EpTypeOK, pipe_release
<1>7. \A w \in epWakes' : "in" \in w[2]
  BY DEF IInv, ItemsSound, pipe_release
<1>8. <<f, {"in", "hup"}>> \in epWakes'
  BY DEF pipe_release
<1>9. ASSUME NEW g \in EpFiles, g # f
      PROVE  pipe_poll(g)' = pipe_poll(g) /\ (g \in epFresh' => g \in epFresh)
  BY <1>9 DEF IInv, EpTypeOK, pipe_release, pipe_poll
<1> QED BY <1>3, <1>6, <1>7, <1>8, <1>9, PipeStep DEF pipe_release

\* A read from a pipe keeps the invariant: there is less to report afterwards.
LEMMA ReadStep ==
    ASSUME IInv, NEW f \in EpFiles, pipe_read(f)
    PROVE  IInv'
<1>1. epPipe' \in [EpFiles -> [bufs : Int, writer : BOOLEAN]]
  BY PipeUpdates DEF IInv, pipe_read
<1>2. EpTypeOK'
  BY <1>1 DEF IInv, EpTypeOK, pipe_read
<1>3. \A g \in EpFiles : pipe_poll(g)' \subseteq pipe_poll(g)
  BY DEF IInv, EpTypeOK, pipe_read, pipe_poll
<1>4. \A w \in epWakes' : "in" \in w[2]
  BY DEF IInv, ItemsSound, pipe_read
<1> QED BY <1>2, <1>3, <1>4, PipeStep DEF pipe_read

-----------------------------------------------------------------------------
(* The scan *)

\* ep_scan_ready_list takes over the ready list and keeps the invariant.
LEMMA ScanStartStep ==
    ASSUME IInv, EpAssumption, NEW t \in EpWaiters, ScanStart(t)
    PROVE  IInv'
<1> USE DEF IInv
<1> DEFINE r == [epTask[t] EXCEPT !.pc = "scan", !.tx = epRdl]
<1>1. t \in EpTasks /\ t \notin EpControllers /\ t # Unlocked /\ epTask[t] \in TaskType
      /\ epTask[t].pc = "send" /\ epTask[t].tx = <<>> /\ epTask[t].got = <<>>
  BY WaiterIdle DEF ScanStart, EpAssumption, EpTasks
<1>2. epRdl \in Seq(EpFiles)
  BY DEF EpTypeOK
<1>3. r \in TaskType
  BY <1>1, <1>2, TaskUpdates, Zenon DEF WaiterPcs
<1>4. r.pc = "scan" /\ r.tx = epRdl /\ r.got = <<>> /\ r.state = epTask[t].state
      /\ r.sig = epTask[t].sig
  BY <1>1 DEF TaskType
<1>5. epTask' = Set(t, r)
  BY DEF ScanStart
<1> HIDE DEF r
<1>6. /\ epTask' \in [EpTasks -> TaskType] /\ epTask'[t] = r
      /\ \A u \in EpTasks : u # t => epTask'[u] = epTask[u]
  BY <1>1, <1>3, <1>5, OneTask
<1>7. epOvf' \in [active : BOOLEAN, list : Seq(EpFiles)] /\ epOvf'.active /\ epOvf'.list = <<>>
      /\ epRdl' = <<>> /\ epRdl' \in Seq(EpFiles) /\ ToSet(epRdl') = {} /\ ToSet(epOvf'.list) = {}
      /\ IsInjective(epRdl') /\ IsInjective(epOvf'.list)
  BY EmptyList DEF ScanStart
<1>8. EpTypeOK'
  BY <1>1, <1>6, <1>7 DEF EpTypeOK, ScanStart
<1>9. ~epOvf.active /\ epOvf.list = <<>> /\ ToSet(epOvf.list) = {}
  <2>1. Unlocked \notin EpWaiters
    BY DEF EpAssumption, EpTasks
  <2> QED BY <2>1, EmptyList DEF MtxHeld, ScanStart
<1>10. \A u \in EpWaiters : /\ epTask[u].pc # "scan" /\ epTask[u].tx = <<>> /\ epTask[u].got = <<>>
                            /\ u \in EpTasks
  BY <1>1 DEF MtxHeld, ScanStart, EpAssumption, EpTasks
<1>11. \A u \in EpControllers : epTask'[u] = epTask[u] /\ epMtx' # u /\ epMtx # u /\ u \in EpTasks
  BY <1>1, <1>6 DEF ScanStart, EpTasks, EpAssumption
<1>12. MtxHeld'
  <2>1. epMtx' = t
    BY DEF ScanStart
  <2>2. \A u \in EpWaiters : /\ epTask'[u].pc \in WaiterPcs
                             /\ epTask'[u].pc = "scan" <=> epMtx' = u
    BY <2>1, <1>4, <1>6, <1>10 DEF MtxHeld, WaiterPcs
  <2>3. \A u \in EpControllers : /\ epTask'[u].pc \in CtlPcs
                                 /\ epTask'[u].pc \in {"hook", "poll", "link"} <=> epMtx' = u
    BY <1>11 DEF MtxHeld
  <2>4. \A u \in EpTasks : epTask'[u].pc # "scan" => epTask'[u].tx = <<>> /\ epTask'[u].got = <<>>
    BY <1>4, <1>6 DEF MtxHeld
  <2> QED BY <2>1, <2>2, <2>3, <2>4, <1>7 DEF MtxHeld
<1>13. ItemsSound'
  BY <1>11, ItemsFrame DEF ScanStart
<1>14. Stolen = {} /\ Stolen' = ToSet(epRdl)
  <2>1. \A u \in EpWaiters : ToSet(epTask[u].tx) = {}
    BY <1>10, EmptyList
  <2>2. ToSet(epTask'[t].tx) = ToSet(epRdl)
    BY <1>4, <1>6
  <2>3. \A u \in EpWaiters : u # t => ToSet(epTask'[u].tx) = {}
    BY <1>6, <1>10, <2>1
  <2> QED BY <2>1, <2>2, <2>3 DEF Stolen
<1>15. ListsSound'
  <2>1. \A u \in EpWaiters : /\ IsInjective(epTask'[u].tx) /\ epTask'[u].tx \in Seq(EpFiles)
                             /\ epTask'[u].got = <<>>
    <3>1. IsInjective(epTask'[t].tx) /\ epTask'[t].tx \in Seq(EpFiles) /\ epTask'[t].got = <<>>
      BY <1>2, <1>4, <1>6 DEF ListsSound
    <3>2. IsInjective(<<>>) /\ <<>> \in Seq(EpFiles)
      BY EmptyList
    <3> QED BY <3>1, <3>2, <1>6, <1>10
  <2>2. \A u \in EpWaiters : IsInjective(epTask'[u].tx \o epRdl')
    BY <1>7, <2>1, TwoLists
  <2>3. \A u \in EpWaiters : /\ IsInjective(epTask'[u].got)
                             /\ ToSet(epTask'[u].tx) \cap ToSet(epTask'[u].got) = {}
    BY <2>1, EmptyList
  <2>4. UNCHANGED epItem
    BY DEF ScanStart
  <2> QED BY <1>7, <1>14, <2>2, <2>3, <2>4 DEF ListsSound
<1>16. EventsKept'
  <2>1. OnLists \subseteq OnLists'
    BY <1>7, <1>9, <1>14 DEF OnLists
  <2> QED BY <2>1, <1>11, EventsFrame DEF ScanStart
<1>17. SleepersQueued'
  BY <1>1, <1>4, <1>6 DEF SleepersQueued, ScanStart, EpTasks
<1>18. NobodySleepsOverEvents'
  BY <1>7 DEF NobodySleepsOverEvents
<1> QED BY <1>8, <1>12, <1>13, <1>15, <1>16, <1>17, <1>18

\* The task that scans, and what holds while it does
LEMMA Scanning ==
    ASSUME IInv, EpAssumption, NEW t \in EpWaiters, epTask[t].pc = "scan"
    PROVE  /\ t \in EpTasks /\ t \notin EpControllers /\ epTask[t] \in TaskType
           /\ epTask[t].tx \in Seq(EpFiles) /\ epTask[t].got \in Seq(EpFiles)
           /\ epMtx = t /\ epOvf.active /\ epTask[t].state = "running"
           /\ \A u \in EpWaiters : u # t => /\ epTask[u].tx = <<>> /\ epTask[u].got = <<>>
                                            /\ epTask[u].pc # "scan" /\ u \in EpTasks
           /\ \A u \in EpControllers : epTask[u].pc = "user" /\ u \in EpTasks
           /\ Stolen = ToSet(epTask[t].tx)
<1>1. t \in EpTasks /\ t \notin EpControllers /\ epTask[t] \in TaskType
  BY DEF IInv, EpTypeOK, EpTasks, EpAssumption
<1>2. epTask[t].tx \in Seq(EpFiles) /\ epTask[t].got \in Seq(EpFiles)
      /\ epTask[t].state \in {"running", "interruptible"}
  BY <1>1 DEF TaskType
<1>3. epMtx = t /\ epOvf.active
  BY DEF IInv, MtxHeld
<1>4. epTask[t].state = "running"
  BY <1>1, <1>2 DEF IInv, SleepersQueued
<1>5. \A u \in EpWaiters : u # t => /\ epTask[u].tx = <<>> /\ epTask[u].got = <<>>
                                    /\ epTask[u].pc # "scan" /\ u \in EpTasks
  BY <1>3 DEF IInv, MtxHeld, EpTasks
<1>6. \A u \in EpControllers : epTask[u].pc = "user" /\ u \in EpTasks
  BY <1>1, <1>3 DEF IInv, MtxHeld, EpTasks, CtlPcs
<1>7. Stolen = ToSet(epTask[t].tx)
  <2>1. \A u \in EpWaiters : u # t => ToSet(epTask[u].tx) = {}
    BY <1>5, EmptyList
  <2> QED BY <2>1 DEF Stolen
<1> QED BY <1>1, <1>2, <1>3, <1>4, <1>5, <1>6, <1>7

\* One step of the scan: the task is the only one that changes.
LEMMA ScanFrame ==
    ASSUME IInv, EpAssumption, NEW t \in EpWaiters, epTask[t].pc = "scan", NEW r \in TaskType,
           epTask' = Set(t, r), r.pc = "scan", r.state = "running", r.sig = epTask[t].sig,
           UNCHANGED <<epPipe, epWakes, epOvf, epWq, epMtx>>, epUsed' \in UsedType,
           epUsed'.killed = epUsed.killed, epItem' \in [EpFiles -> ItemType],
           epRdl' \in Seq(EpFiles), epFresh' \subseteq EpFiles
    PROVE  /\ EpTypeOK' /\ MtxHeld' /\ SleepersQueued' /\ NobodySleepsOverEvents'
           /\ epTask'[t] = r /\ \A u \in EpTasks : u # t => epTask'[u] = epTask[u]
           /\ Stolen' = ToSet(r.tx)
<1> USE DEF IInv
<1>1. /\ t \in EpTasks /\ t \notin EpControllers /\ epTask[t] \in TaskType
      /\ epMtx = t /\ epOvf.active
      /\ \A u \in EpWaiters : u # t => /\ epTask[u].tx = <<>> /\ epTask[u].got = <<>>
                                       /\ epTask[u].pc # "scan" /\ u \in EpTasks
      /\ \A u \in EpControllers : epTask[u].pc = "user" /\ u \in EpTasks
  BY Scanning
<1>2. /\ epTask' \in [EpTasks -> TaskType] /\ epTask'[t] = r
      /\ \A u \in EpTasks : u # t => epTask'[u] = epTask[u]
  BY <1>1, OneTask
<1>3. EpTypeOK'
  BY <1>2 DEF EpTypeOK
<1>4. MtxHeld'
  BY <1>1, <1>2 DEF MtxHeld, EpTasks
<1>5. SleepersQueued'
  <2>1. \A u \in EpTasks : epTask'[u].state = "interruptible" =>
                              u \in EpWaiters /\ epTask'[u].pc = "schedule"
    BY <1>2 DEF SleepersQueued
  <2>2. \A u \in EpWaiters : epTask'[u].pc = "schedule" => u \in ToSet(epWq')
    BY <1>1, <1>2 DEF SleepersQueued
  <2>3. \A u \in EpTasks : epTask'[u].sig = "fatal" => epUsed'.killed
    BY <1>1, <1>2 DEF SleepersQueued
  <2> QED BY <2>1, <2>2, <2>3 DEF SleepersQueued
<1>6. NobodySleepsOverEvents'
  BY <1>1 DEF NobodySleepsOverEvents
<1>7. Stolen' = ToSet(r.tx)
  <2>1. \A u \in EpWaiters : u # t => ToSet(epTask'[u].tx) = {}
    BY <1>1, <1>2, EmptyList
  <2>2. ToSet(epTask'[t].tx) = ToSet(r.tx)
    BY <1>2
  <2> QED BY <2>1, <2>2 DEF Stolen
<1> QED BY <1>2, <1>3, <1>4, <1>5, <1>6, <1>7

\* An item keeps its type.
LEMMA ItemUpdates ==
    ASSUME NEW i \in ItemType, NEW e \in SUBSET Keys, NEW mode \in {"LT", "ET", "ONESHOT"},
           NEW n \in Int
    PROVE  /\ [i EXCEPT !.events = e, !.reports = n] \in ItemType
           /\ [i EXCEPT !.events = e, !.mode = mode, !.reports = n] \in ItemType
           /\ [i EXCEPT !.hooked = TRUE] \in ItemType
<1>1. [i EXCEPT !.events = e, !.reports = n] \in ItemType
  BY DEF ItemType
<1>2. [i EXCEPT !.events = e, !.mode = mode, !.reports = n] \in ItemType
  BY DEF ItemType
<1>3. [i EXCEPT !.hooked = TRUE] \in ItemType
  BY DEF ItemType
<1> QED BY <1>1, <1>2, <1>3

\* ep_send_events_proc keeps the invariant when it reports an item.
LEMMA SendEventStep ==
    ASSUME IInv, EpAssumption, NEW t \in EpWaiters, SendEvent(t)
    PROVE  IInv'
<1> USE DEF IInv
<1> DEFINE f == Head(epTask[t].tx)
           rest == Tail(epTask[t].tx)
           reported == Append(epTask[t].got, f)
           r == [epTask[t] EXCEPT !.tx = rest, !.got = reported]
           times == IF epItem[f].reports < 2 THEN epItem[f].reports + 1 ELSE epItem[f].reports
           item == [epItem[f] EXCEPT !.events = OneShot(f), !.reports = times]
<1>1. epTask[t].pc = "scan" /\ epTask[t].tx # <<>> /\ ep_item_poll(f) # {}
  BY DEF SendEvent, ReportEvent, ScanMore
<1>2. epTask' = Set(t, r) /\ epItem' = [epItem EXCEPT ![f] = item] /\ epFresh' = epFresh \ {f}
      /\ epRdl' = (IF epItem[f].mode = "LT" THEN Append(epRdl, f) ELSE epRdl)
      /\ UNCHANGED <<epPipe, epWakes, epOvf, epWq, epMtx, epUsed>>
  <2>1. epTask' = Set(t, r) /\ epFresh' = epFresh \ {f}
        /\ UNCHANGED <<epPipe, epWakes, epOvf, epWq, epMtx, epUsed>>
    BY DEF SendEvent, ReportEvent
  <2>2. epItem' = [epItem EXCEPT ![f] = item]
    BY Zenon DEF SendEvent, ReportEvent
  <2>3. epRdl' = IF epItem[f].mode = "LT" THEN Append(epRdl, f) ELSE epRdl
    BY DEF SendEvent, ReportEvent
  <2> QED BY <2>1, <2>2, <2>3
<1>3. /\ t \in EpTasks /\ t \notin EpControllers /\ epTask[t] \in TaskType
      /\ epTask[t].tx \in Seq(EpFiles) /\ epTask[t].got \in Seq(EpFiles)
      /\ epMtx = t /\ epOvf.active /\ epTask[t].state = "running"
      /\ \A u \in EpWaiters : u # t => /\ epTask[u].tx = <<>> /\ epTask[u].got = <<>>
                                       /\ epTask[u].pc # "scan" /\ u \in EpTasks
      /\ \A u \in EpControllers : epTask[u].pc = "user" /\ u \in EpTasks
      /\ Stolen = ToSet(epTask[t].tx)
  BY <1>1, Scanning
<1>4. /\ f \in EpFiles /\ rest \in Seq(EpFiles) /\ ToSet(epTask[t].tx) = ToSet(rest) \cup {f}
      /\ IsInjective(epTask[t].tx) <=> IsInjective(rest) /\ f \notin ToSet(rest)
  BY <1>1, <1>3, PopOne
<1>5. epRdl \in Seq(EpFiles) /\ epItem \in [EpFiles -> ItemType]
  BY DEF EpTypeOK
<1>6. OneShot(f) = (IF epItem[f].mode = "ONESHOT" THEN {} ELSE epItem[f].events)
  BY DEF OneShot
<1> HIDE DEF f, rest
<1>7. /\ reported \in Seq(EpFiles) /\ ToSet(reported) = ToSet(epTask[t].got) \cup {f}
      /\ IsInjective(reported) <=> IsInjective(epTask[t].got) /\ f \notin ToSet(epTask[t].got)
  BY <1>3, <1>4, AppendOne
<1> HIDE DEF reported
<1>8. r \in TaskType
  <2>1. epTask[t] \in TaskType
    BY <1>3
  <2> QED BY <2>1, <1>4, <1>7 DEF TaskType
<1>9. r.pc = "scan" /\ r.state = "running" /\ r.sig = epTask[t].sig /\ r.tx = rest
      /\ r.got = reported
  BY <1>1, <1>3 DEF TaskType
<1> HIDE DEF r
<1>10. epItem[f] \in ItemType /\ epItem[f].events # {} /\ epItem[f].events = ReadEvents
       /\ OneShot(f) \in SUBSET Keys /\ epItem[f].reports \in Int
       /\ epItem[f].mode \in {"LT", "ET", "ONESHOT"}
  <2>1. epItem[f] \in ItemType
    BY <1>4, <1>5
  <2>2. epItem[f].events \in SUBSET Keys /\ epItem[f].reports \in Int
        /\ epItem[f].mode \in {"LT", "ET", "ONESHOT"}
    BY <2>1 DEF ItemType
  <2>3. epItem[f].events # {}
    BY <1>1 DEF ep_item_poll
  <2>4. epItem[f].events = ReadEvents
    BY <1>4, <2>3 DEF ItemsSound
  <2> QED BY <2>1, <2>2, <2>3, <2>4, <1>6
<1>11. times \in Int /\ (epItem[f].reports <= 0 => times <= 1)
  BY <1>10
<1> HIDE DEF times
<1>12. item \in ItemType
  BY <1>10, <1>11, ItemUpdates, Zenon
<1>13. item.linked = epItem[f].linked /\ item.hooked = epItem[f].hooked
       /\ item.mode = epItem[f].mode /\ item.events = OneShot(f) /\ item.reports = times
  BY <1>10 DEF ItemType
<1> HIDE DEF item
<1>14. epItem' \in [EpFiles -> ItemType] /\ epItem'[f] = item
       /\ \A g \in EpFiles : g # f => epItem'[g] = epItem[g]
  BY <1>2, <1>4, <1>5, <1>12
<1>15. /\ epRdl' \in Seq(EpFiles) /\ ToSet(epRdl) \subseteq ToSet(epRdl')
       /\ epItem[f].mode = "LT" => f \in ToSet(epRdl')
       /\ ToSet(epRdl') \subseteq ToSet(epRdl) \cup {f}
       /\ IsInjective(epRdl) /\ f \notin ToSet(epRdl) => IsInjective(epRdl')
  BY <1>2, <1>4, <1>5, AppendOne
<1>16. epUsed' \in UsedType /\ epUsed'.killed = epUsed.killed /\ epFresh' \subseteq EpFiles
  BY <1>2 DEF EpTypeOK
<1>17. /\ EpTypeOK' /\ MtxHeld' /\ SleepersQueued' /\ NobodySleepsOverEvents'
       /\ epTask'[t] = r /\ \A u \in EpTasks : u # t => epTask'[u] = epTask[u]
       /\ Stolen' = ToSet(r.tx)
  BY <1>1, <1>2, <1>8, <1>9, <1>14, <1>15, <1>16, ScanFrame
<1>18. \A u \in EpControllers : epTask'[u] = epTask[u]
  BY <1>3, <1>17
<1>19. ItemsSound'
  <2>1. \A g \in EpFiles : /\ epItem'[g].hooked => epItem'[g].linked
                           /\ epItem'[g].events \in {{}, ReadEvents}
    BY <1>6, <1>10, <1>13, <1>14 DEF ItemsSound
  <2>2. item.mode = "ONESHOT" => item.events = {} /\ item.reports <= 1
    <3>1. epItem[f].mode = "ONESHOT" => epItem[f].reports <= 0
      BY <1>4, <1>10 DEF ItemsSound
    <3> QED BY <3>1, <1>6, <1>11, <1>13
  <2>3. \A g \in EpFiles : epItem'[g].mode = "ONESHOT" =>
            epItem'[g].reports <= (IF epItem'[g].events = {} THEN 1 ELSE 0)
    BY <2>2, <1>14 DEF ItemsSound
  <2>4. \A u \in EpControllers : epTask'[u].pc = "user"
    BY <1>3, <1>18
  <2> QED BY <2>1, <2>3, <2>4, <1>2 DEF ItemsSound
<1>20. IsInjective(epTask[t].tx) /\ ToSet(epTask[t].tx) \cap ToSet(epRdl) = {}
       /\ IsInjective(epTask[t].got) /\ ToSet(epTask[t].tx) \cap ToSet(epTask[t].got) = {}
       /\ IsInjective(epRdl)
  BY <1>3, <1>5, TwoLists DEF ListsSound
<1>21. ListsSound'
  <2>1. IsInjective(rest) /\ IsInjective(reported) /\ IsInjective(epRdl')
        /\ ToSet(rest) \cap ToSet(reported) = {} /\ ToSet(rest) \cap ToSet(epRdl') = {}
    BY <1>4, <1>7, <1>15, <1>20
  <2>2. IsInjective(rest \o epRdl')
    BY <2>1, <1>4, <1>15, TwoLists
  <2>3. IsInjective(<<>> \o epRdl') /\ IsInjective(<<>>) /\ ToSet(<<>>) = {}
    BY <2>1, <1>15, EmptyList, TwoLists
  <2>4. \A u \in EpWaiters : /\ IsInjective(epTask'[u].tx \o epRdl')
                             /\ IsInjective(epTask'[u].got)
                             /\ ToSet(epTask'[u].tx) \cap ToSet(epTask'[u].got) = {}
    <3>1. /\ IsInjective(epTask'[t].tx \o epRdl') /\ IsInjective(epTask'[t].got)
          /\ ToSet(epTask'[t].tx) \cap ToSet(epTask'[t].got) = {}
      BY <2>1, <2>2, <1>9, <1>17
    <3>2. \A u \in EpWaiters : u # t => epTask'[u].tx = <<>> /\ epTask'[u].got = <<>>
      BY <1>3, <1>17
    <3> QED BY <3>1, <3>2, <2>3
  <2>5. \A g \in EpFiles : epItem[g].linked => epItem'[g].linked
    BY <1>13, <1>14
  <2>6. ToSet(epRdl') \cup Stolen' \cup ToSet(epOvf'.list)
           \subseteq ToSet(epRdl) \cup Stolen \cup ToSet(epOvf.list)
    BY <1>2, <1>3, <1>4, <1>9, <1>15, <1>17
  <2> QED BY <2>1, <2>4, <2>5, <2>6, <1>2 DEF ListsSound
<1>22. EventsKept'
  <2>1. SUFFICES ASSUME NEW g \in EpFiles, epItem'[g].hooked, ep_item_poll(g)' # {},
                        epItem'[g].mode = "ET" => g \in epFresh'
                 PROVE  \/ g \in ToSet(epRdl') \cup Stolen' \cup ToSet(epOvf'.list)
                        \/ \E w \in epWakes' : w[1] = g /\ w[2] \cap epItem'[g].events # {}
    BY DEF EventsKept, Kept
  <2>2. ep_item_poll(g)' = pipe_poll(g) \cap epItem'[g].events
    BY <1>2 DEF ep_item_poll, pipe_poll
  <2>3. CASE g = f
    BY <2>1, <2>2, <2>3, <1>2, <1>6, <1>10, <1>13, <1>14, <1>15
  <2>4. CASE g # f
    <3>1. /\ epItem[g].hooked /\ ep_item_poll(g) # {}
          /\ epItem[g].mode = "ET" => g \in epFresh
      BY <2>1, <2>2, <2>4, <1>2, <1>14 DEF ep_item_poll
    <3>2. ~Polled(g) /\ \A u \in EpControllers : epTask[u].pc \notin {"hook", "poll"}
      BY <1>3 DEF Polled
    <3>3. \/ g \in ToSet(epRdl) \cup Stolen \cup ToSet(epOvf.list)
          \/ \E w \in epWakes : w[1] = g /\ w[2] \cap epItem[g].events # {}
      BY <3>1, <3>2 DEF EventsKept, Kept
    <3> QED BY <3>3, <2>4, <1>2, <1>3, <1>4, <1>9, <1>14, <1>15, <1>17
  <2> QED BY <2>3, <2>4
<1> QED BY <1>17, <1>19, <1>21, <1>22

\* ep_send_events_proc keeps the invariant when an item has nothing to report.
LEMMA SkipEventStep ==
    ASSUME IInv, EpAssumption, NEW t \in EpWaiters, SkipEvent(t)
    PROVE  IInv'
<1> USE DEF IInv
<1> DEFINE f == Head(epTask[t].tx)
           rest == Tail(epTask[t].tx)
           r == [epTask[t] EXCEPT !.tx = rest]
<1>1. epTask[t].pc = "scan" /\ epTask[t].tx # <<>> /\ ep_item_poll(f) = {}
      /\ epTask' = Set(t, r) /\ epFresh' = epFresh \ {f}
      /\ UNCHANGED <<epPipe, epWakes, epItem, epRdl, epOvf, epWq, epMtx, epUsed>>
  BY DEF SkipEvent, ScanMore
<1>2. /\ t \in EpTasks /\ t \notin EpControllers /\ epTask[t] \in TaskType
      /\ epTask[t].tx \in Seq(EpFiles) /\ epTask[t].got \in Seq(EpFiles)
      /\ epMtx = t /\ epOvf.active /\ epTask[t].state = "running"
      /\ \A u \in EpWaiters : u # t => /\ epTask[u].tx = <<>> /\ epTask[u].got = <<>>
                                       /\ epTask[u].pc # "scan" /\ u \in EpTasks
      /\ \A u \in EpControllers : epTask[u].pc = "user" /\ u \in EpTasks
      /\ Stolen = ToSet(epTask[t].tx)
  BY <1>1, Scanning
<1>3. /\ f \in EpFiles /\ rest \in Seq(EpFiles) /\ ToSet(epTask[t].tx) = ToSet(rest) \cup {f}
      /\ IsInjective(epTask[t].tx) <=> IsInjective(rest) /\ f \notin ToSet(rest)
  BY <1>1, <1>2, PopOne
<1> HIDE DEF f, rest
<1>4. r \in TaskType
  <2>1. epTask[t] \in TaskType
    BY <1>2
  <2> QED BY <2>1, <1>3 DEF TaskType
<1>5. r.pc = "scan" /\ r.state = "running" /\ r.sig = epTask[t].sig /\ r.tx = rest
      /\ r.got = epTask[t].got
  BY <1>1, <1>2 DEF TaskType
<1> HIDE DEF r
<1>6. epUsed' \in UsedType /\ epUsed'.killed = epUsed.killed /\ epFresh' \subseteq EpFiles
      /\ epItem' \in [EpFiles -> ItemType] /\ epRdl' \in Seq(EpFiles) /\ epRdl \in Seq(EpFiles)
  BY <1>1 DEF EpTypeOK
<1>7. /\ EpTypeOK' /\ MtxHeld' /\ SleepersQueued' /\ NobodySleepsOverEvents'
      /\ epTask'[t] = r /\ \A u \in EpTasks : u # t => epTask'[u] = epTask[u]
      /\ Stolen' = ToSet(r.tx)
  BY <1>1, <1>4, <1>5, <1>6, ScanFrame
<1>8. \A u \in EpControllers : epTask'[u] = epTask[u]
  BY <1>2, <1>7
<1>9. ItemsSound'
  BY <1>1, <1>8, ItemsFrame
<1>10. IsInjective(epTask[t].tx) /\ ToSet(epTask[t].tx) \cap ToSet(epRdl) = {}
       /\ IsInjective(epTask[t].got) /\ ToSet(epTask[t].tx) \cap ToSet(epTask[t].got) = {}
       /\ IsInjective(epRdl)
  BY <1>2, <1>6, TwoLists DEF ListsSound
<1>11. ListsSound'
  <2>1. IsInjective(rest \o epRdl)
    BY <1>3, <1>6, <1>10, TwoLists
  <2>2. \A u \in EpWaiters : /\ IsInjective(epTask'[u].tx \o epRdl)
                             /\ IsInjective(epTask'[u].got)
                             /\ ToSet(epTask'[u].tx) \cap ToSet(epTask'[u].got) = {}
    <3>1. /\ IsInjective(epTask'[t].tx \o epRdl) /\ IsInjective(epTask'[t].got)
          /\ ToSet(epTask'[t].tx) \cap ToSet(epTask'[t].got) = {}
      BY <2>1, <1>3, <1>5, <1>7, <1>10
    <3>2. \A u \in EpWaiters : u # t => epTask'[u] = epTask[u]
      BY <1>2, <1>7
    <3> QED BY <3>1, <3>2 DEF ListsSound
  <2>3. Stolen' \subseteq Stolen
    BY <1>2, <1>3, <1>5, <1>7
  <2> QED BY <2>2, <2>3, <1>1 DEF ListsSound
<1>12. EventsKept'
  <2>1. SUFFICES ASSUME NEW g \in EpFiles, epItem'[g].hooked, ep_item_poll(g)' # {},
                        epItem'[g].mode = "ET" => g \in epFresh'
                 PROVE  \/ g \in ToSet(epRdl') \cup Stolen' \cup ToSet(epOvf'.list)
                        \/ \E w \in epWakes' : w[1] = g /\ w[2] \cap epItem'[g].events # {}
    BY DEF EventsKept, Kept
  <2>2. ep_item_poll(g)' = ep_item_poll(g)
    BY <1>1 DEF ep_item_poll, pipe_poll
  <2>3. g # f
    BY <2>1, <2>2, <1>1
  <2>4. ~Polled(g) /\ \A u \in EpControllers : epTask[u].pc \notin {"hook", "poll"}
    BY <1>2 DEF Polled
  <2>5. \/ g \in ToSet(epRdl) \cup Stolen \cup ToSet(epOvf.list)
        \/ \E w \in epWakes : w[1] = g /\ w[2] \cap epItem[g].events # {}
    BY <2>1, <2>2, <2>4, <1>1 DEF EventsKept, Kept
  <2> QED BY <2>3, <2>5, <1>1, <1>2, <1>3, <1>5, <1>7
<1> QED BY <1>7, <1>9, <1>11, <1>12

\* ep_send_events_proc keeps the invariant when the copy to user space fails.
LEMMA SendFaultStep ==
    ASSUME IInv, EpAssumption, NEW t \in EpWaiters, SendFault(t)
    PROVE  IInv'
<1> USE DEF IInv
<1> DEFINE r == [epTask[t] EXCEPT !.fault = TRUE]
<1>1. epTask[t].pc = "scan" /\ epTask' = Set(t, r) /\ epUsed' = [epUsed EXCEPT !.faults = @ + 1]
      /\ UNCHANGED <<epPipe, epWakes, epItem, epRdl, epOvf, epWq, epMtx, epFresh>>
  BY DEF SendFault, ScanMore
<1>2. /\ t \in EpTasks /\ t \notin EpControllers /\ epTask[t] \in TaskType
      /\ epTask[t].state = "running" /\ \A u \in EpControllers : u \in EpTasks
      /\ \A u \in EpWaiters : u \in EpTasks
      /\ Stolen = ToSet(epTask[t].tx)
  BY <1>1, Scanning DEF EpTasks
<1>3. r \in TaskType
  <2>1. epTask[t] \in TaskType
    BY <1>2
  <2> QED BY <2>1 DEF TaskType
<1>4. r.pc = "scan" /\ r.state = "running" /\ r.sig = epTask[t].sig /\ r.tx = epTask[t].tx
      /\ r.got = epTask[t].got
  BY <1>1, <1>2 DEF TaskType
<1> HIDE DEF r
<1>5. epUsed' \in UsedType /\ epUsed'.killed = epUsed.killed
  <2>1. epUsed \in UsedType
    BY DEF EpTypeOK
  <2>2. epUsed' \in UsedType
    BY <1>1, <2>1, UsedUpdates
  <2>3. epUsed'.killed = epUsed.killed
    BY <1>1, <2>1 DEF UsedType
  <2> QED BY <2>2, <2>3
<1>6. epFresh' \subseteq EpFiles /\ epItem' \in [EpFiles -> ItemType] /\ epRdl' \in Seq(EpFiles)
  BY <1>1 DEF EpTypeOK
<1>7. /\ EpTypeOK' /\ MtxHeld' /\ SleepersQueued' /\ NobodySleepsOverEvents'
      /\ epTask'[t] = r /\ \A u \in EpTasks : u # t => epTask'[u] = epTask[u]
      /\ Stolen' = ToSet(r.tx)
  BY <1>1, <1>3, <1>4, <1>5, <1>6, ScanFrame
<1>8. \A u \in EpControllers : epTask'[u] = epTask[u]
  BY <1>2, <1>7
<1>9. ItemsSound'
  BY <1>1, <1>8, ItemsFrame
<1>10. ListsSound'
  BY <1>1, <1>2, <1>4, <1>7, ListsFrame
<1>11. EventsKept'
  <2>1. OnLists \subseteq OnLists'
    BY <1>1, <1>2, <1>4, <1>7 DEF OnLists
  <2> QED BY <2>1, <1>1, <1>8, EventsFrame
<1> QED BY <1>7, <1>9, <1>10, <1>11

\* ep_scan_ready_list puts ovflist and what was not sent back and keeps the invariant.
LEMMA ScanDoneStep ==
    ASSUME IInv, EpAssumption, NEW t \in EpWaiters, ScanDone(t)
    PROVE  IInv'
<1> USE DEF IInv
<1> DEFINE rdl == epTask[t].tx \o epRdl \o Late
           again == [epTask[t] EXCEPT !.pc = "fetch", !.tx = <<>>]
<1>1. epTask[t].pc = "scan" /\ epRdl' = rdl /\ epOvf' = [active |-> FALSE, list |-> <<>>]
      /\ epMtx' = Unlocked /\ UNCHANGED <<epPipe, epWakes, epItem, epWq, epFresh, epUsed>>
  BY DEF ScanDone, FinishScan
<1>2. /\ t \in EpTasks /\ t \notin EpControllers /\ epTask[t] \in TaskType
      /\ epTask[t].tx \in Seq(EpFiles) /\ epTask[t].got \in Seq(EpFiles)
      /\ epMtx = t /\ epOvf.active /\ epTask[t].state = "running"
      /\ \A u \in EpWaiters : u # t => /\ epTask[u].tx = <<>> /\ epTask[u].got = <<>>
                                       /\ epTask[u].pc # "scan" /\ u \in EpTasks
      /\ \A u \in EpControllers : epTask[u].pc = "user" /\ u \in EpTasks
      /\ Stolen = ToSet(epTask[t].tx)
  BY <1>1, Scanning
<1>3. epRdl \in Seq(EpFiles) /\ epOvf.list \in Seq(EpFiles) /\ epWq \in Seq(EpWaiters)
  BY DEF EpTypeOK
<1>4. /\ Late \in Seq(EpFiles) /\ IsInjective(Late)
      /\ ToSet(Late) \subseteq ToSet(epOvf.list)
      /\ ToSet(Late) \cap (ToSet(epRdl) \cup ToSet(epTask[t].tx)) = {}
      /\ ToSet(epOvf.list) \subseteq ToSet(Late) \cup ToSet(epRdl) \cup Stolen
  <2> DEFINE T == {f \in EpFiles : ~ep_is_linked(f)}
  <2>1. \A f \in EpFiles : f \in T <=> f \notin ToSet(epRdl) /\ f \notin Stolen
    BY DEF ep_is_linked, Stolen
  <2> HIDE DEF T
  <2>2. Late = Filter(epOvf.list, T)
    BY DEF Late, T
  <2>3. /\ Late \in Seq(EpFiles) /\ ToSet(Late) = ToSet(epOvf.list) \cap T
        /\ IsInjective(epOvf.list) => IsInjective(Late)
    BY <2>2, <1>3, FilterKeeps
  <2>4. ToSet(epOvf.list) \subseteq EpFiles
    BY <1>3, Elements
  <2> QED BY <2>1, <2>3, <2>4, <1>2 DEF ListsSound
<1>5. /\ rdl \in Seq(EpFiles) /\ IsInjective(rdl)
      /\ ToSet(rdl) = ToSet(epTask[t].tx) \cup ToSet(epRdl) \cup ToSet(Late)
  <2> DEFINE front == epTask[t].tx \o epRdl
  <2>1. front \in Seq(EpFiles) /\ ToSet(front) = ToSet(epTask[t].tx) \cup ToSet(epRdl)
        /\ IsInjective(front)
    BY <1>2, <1>3, TwoLists DEF ListsSound
  <2> HIDE DEF front
  <2>2. /\ front \o Late \in Seq(EpFiles) /\ ToSet(front \o Late) = ToSet(front) \cup ToSet(Late)
        /\ IsInjective(front \o Late)
    BY <2>1, <1>4, TwoLists
  <2> QED BY <2>1, <2>2 DEF front
<1> HIDE DEF rdl
<1>6. PICK r : /\ epTask' = IF rdl # <<>> THEN wake_up(Set(t, r)) ELSE Set(t, r)
               /\ r = Returned(t) \/ (r = again /\ epTask[t].got = <<>>)
  <2> DEFINE next == IF epTask[t].got = <<>> /\ ~epTask[t].fault /\ ~epTask[t].timed_out
                     THEN again ELSE Returned(t)
  <2>1. epTask' = IF rdl # <<>> THEN wake_up(Set(t, next)) ELSE Set(t, next)
    BY DEF ScanDone, FinishScan, rdl
  <2>2. next = Returned(t) \/ (next = again /\ epTask[t].got = <<>>)
    OBVIOUS
  <2> HIDE DEF next
  <2> QED BY <2>1, <2>2
<1>7. /\ r \in TaskType /\ r.pc \in WaiterPcs \ {"scan", "schedule"} /\ r.state = "running"
      /\ r.tx = <<>> /\ r.got = <<>>
      /\ r.sig = "fatal" => epTask[t].sig = "fatal"
  <2>1. CASE r = again /\ epTask[t].got = <<>>
    <3>1. epTask[t] \in TaskType /\ <<>> \in Seq(EpFiles)
      BY <1>2, EmptyList
    <3>2. again \in TaskType
      BY <3>1 DEF TaskType, WaiterPcs
    <3>3. again.pc = "fetch" /\ again.state = epTask[t].state /\ again.tx = <<>>
          /\ again.got = epTask[t].got /\ again.sig = epTask[t].sig
      BY <3>1 DEF TaskType
    <3> HIDE DEF again
    <3> QED BY <2>1, <3>2, <3>3, <1>2, <1>6 DEF WaiterPcs
  <2>2. CASE r = Returned(t)
    BY <2>2, <1>2, ReturnedTask DEF WaiterPcs
  <2> QED BY <1>6, <2>1, <2>2
<1> HIDE DEF again
<1> DEFINE task == Set(t, r)
<1>8. /\ task \in [EpTasks -> TaskType] /\ task[t] = r
      /\ \A u \in EpTasks : u # t => task[u] = epTask[u]
  BY <1>2, <1>7 DEF EpTypeOK, Set
<1> HIDE DEF task
<1>9. epTask' = (IF rdl # <<>> THEN wake_up(task) ELSE task)
  BY <1>6 DEF task
<1>10. epTask' \in [EpTasks -> TaskType] /\ \A u \in EpTasks : SameButAwake(epTask'[u], task[u])
  <2>1. CASE rdl # <<>>
    BY <2>1, <1>3, <1>8, <1>9, WakesOne, WakeFrame
  <2>2. CASE rdl = <<>>
    BY <2>2, <1>8, <1>9 DEF SameButAwake
  <2> QED BY <2>1, <2>2
<1>11. <<>> \in Seq(EpFiles) /\ ToSet(<<>>) = {} /\ IsInjective(<<>>)
  BY EmptyList
<1>12. epOvf' \in [active : BOOLEAN, list : Seq(EpFiles)] /\ ~epOvf'.active /\ epOvf'.list = <<>>
  BY <1>1, <1>11
<1>13. EpTypeOK'
  BY <1>1, <1>5, <1>10, <1>12 DEF EpTypeOK
<1>14. \A u \in EpWaiters : /\ epTask'[u].tx = <<>> /\ epTask'[u].got = <<>>
                            /\ epTask'[u].pc # "scan" /\ epTask'[u].pc \in WaiterPcs
                            /\ u \in EpTasks /\ u # Unlocked
  <2>1. \A u \in EpWaiters : u \in EpTasks /\ u # Unlocked
    BY DEF EpTasks, EpAssumption
  <2>2. \A u \in EpWaiters : /\ task[u].tx = <<>> /\ task[u].got = <<>>
                             /\ task[u].pc # "scan" /\ task[u].pc \in WaiterPcs
    <3>1. \A u \in EpWaiters : u # t => task[u] = epTask[u] /\ epTask[u].pc \in WaiterPcs
      BY <2>1, <1>8 DEF MtxHeld
    <3>2. task[t].tx = <<>> /\ task[t].got = <<>> /\ task[t].pc # "scan" /\ task[t].pc \in WaiterPcs
      BY <1>7, <1>8
    <3> QED BY <3>1, <3>2, <1>2
  <2> QED BY <2>1, <2>2, <1>10 DEF SameButAwake
<1>15. \A u \in EpControllers : /\ epTask'[u].pc = epTask[u].pc /\ epTask'[u].file = epTask[u].file
                                /\ epTask'[u].revents = epTask[u].revents /\ epTask'[u].tx = <<>>
                                /\ epTask'[u].got = <<>> /\ epTask'[u].pc = "user"
                                /\ u \in EpTasks /\ u # Unlocked
  <2>1. \A u \in EpControllers : u \in EpTasks /\ u # Unlocked /\ task[u] = epTask[u]
                                 /\ epTask[u].tx = <<>> /\ epTask[u].got = <<>>
    BY <1>2, <1>8 DEF EpTasks, EpAssumption, MtxHeld
  <2> QED BY <2>1, <1>2, <1>10 DEF SameButAwake
<1>16. MtxHeld'
  BY <1>1, <1>12, <1>14, <1>15 DEF MtxHeld, EpTasks, CtlPcs
<1>17. ItemsSound'
  BY <1>1, <1>15, ItemsFrame
<1>18. Stolen' = {}
  BY <1>11, <1>14 DEF Stolen
<1>19. ListsSound'
  <2>1. \A u \in EpWaiters : /\ IsInjective(epTask'[u].tx \o epRdl') /\ IsInjective(epTask'[u].got)
                             /\ ToSet(epTask'[u].tx) \cap ToSet(epTask'[u].got) = {}
    <3>1. IsInjective(<<>> \o rdl)
      BY <1>5, <1>11, TwoLists
    <3> QED BY <3>1, <1>1, <1>11, <1>14
  <2> QED BY <2>1, <1>1, <1>2, <1>4, <1>5, <1>11, <1>12, <1>18 DEF ListsSound
<1>20. EventsKept'
  <2>1. OnLists \subseteq OnLists'
    BY <1>1, <1>2, <1>4, <1>5 DEF OnLists
  <2> QED BY <2>1, <1>1, <1>15, EventsFrame
<1>21. /\ \A u \in EpTasks : task[u].state = "interruptible" =>
                                u \in EpWaiters /\ task[u].pc = "schedule"
       /\ \A u \in EpWaiters : task[u].pc = "schedule" => u \in ToSet(epWq)
       /\ \A u \in EpTasks : task[u].sig = "fatal" => epUsed'.killed
  <2>1. epUsed'.killed = epUsed.killed
    BY <1>1
  <2>2. task[t].state = "running" /\ task[t].pc # "schedule"
        /\ (task[t].sig = "fatal" => epTask[t].sig = "fatal")
    BY <1>7, <1>8
  <2>3. \A u \in EpWaiters : u \in EpTasks
    BY DEF EpTasks
  <2> QED BY <2>1, <2>2, <2>3, <1>2, <1>8 DEF SleepersQueued
<1>22. SleepersQueued' /\ NobodySleepsOverEvents'
  <2>1. CASE rdl # <<>>
    BY <2>1, <1>1, <1>3, <1>8, <1>9, <1>21, WakeStep
  <2>2. CASE rdl = <<>>
    <3>1. epTask' = task /\ epRdl' = <<>>
      BY <2>2, <1>1, <1>9
    <3>2. SleepersQueued'
      BY <3>1, <1>1, <1>21 DEF SleepersQueued
    <3> QED BY <3>1, <3>2 DEF NobodySleepsOverEvents
  <2> QED BY <2>1, <2>2
<1> QED BY <1>13, <1>16, <1>17, <1>19, <1>20, <1>22

-----------------------------------------------------------------------------
(* The callback *)

\* ep_poll_callback keeps the invariant.
LEMMA PipeWakeStep ==
    ASSUME IInv, EpAssumption, NEW w \in epWakes, pipe_wake(w[1], w[2])
    PROVE  IInv'
<1> USE DEF IInv
<1> DEFINE f == w[1]
           key == w[2]
           wanted == epItem[f].hooked /\ key \cap epItem[f].events # {}
<1>1. f \in EpFiles /\ w = <<f, key>>
  BY DEF EpTypeOK
<1>2. /\ epWakes' = epWakes \ {w} /\ UNCHANGED <<epPipe, epItem, epWq, epMtx, epFresh, epUsed>>
      /\ epOvf' = IF wanted /\ epOvf.active /\ f \notin ToSet(epOvf.list)
                    THEN [epOvf EXCEPT !.list = <<f>> \o @] ELSE epOvf
      /\ epRdl' = IF wanted /\ ~epOvf.active /\ ~ep_is_linked(f) THEN Append(epRdl, f) ELSE epRdl
      /\ epTask' = IF wanted /\ ~epOvf.active THEN wake_up(epTask) ELSE epTask
  BY <1>1 DEF pipe_wake, ep_poll_callback
<1> HIDE DEF f, key
<1>3. /\ epRdl \in Seq(EpFiles) /\ epWq \in Seq(EpWaiters) /\ epTask \in [EpTasks -> TaskType]
      /\ epOvf \in [active : BOOLEAN, list : Seq(EpFiles)] /\ epOvf.list \in Seq(EpFiles)
  BY DEF EpTypeOK
<1>4. epTask' \in [EpTasks -> TaskType] /\ \A u \in EpTasks : SameButAwake(epTask'[u], epTask[u])
  <2>1. CASE wanted /\ ~epOvf.active
    BY <2>1, <1>2, <1>3, WakesOne, WakeFrame
  <2>2. CASE ~(wanted /\ ~epOvf.active)
    BY <2>2, <1>2, <1>3 DEF SameButAwake
  <2> QED BY <2>1, <2>2
<1>5. /\ epOvf' \in [active : BOOLEAN, list : Seq(EpFiles)] /\ epOvf'.active = epOvf.active
      /\ ToSet(epOvf'.list) = ToSet(epOvf.list) \cup (IF wanted /\ epOvf.active THEN {f} ELSE {})
      /\ IsInjective(epOvf.list) => IsInjective(epOvf'.list)
      /\ epOvf.active \/ epOvf'.list = epOvf.list
  <2>1. CASE wanted /\ epOvf.active /\ f \notin ToSet(epOvf.list)
    <3> DEFINE new == <<f>> \o epOvf.list
    <3>1. new \in Seq(EpFiles) /\ ToSet(new) = ToSet(epOvf.list) \cup {f}
          /\ (IsInjective(epOvf.list) => IsInjective(new))
      BY <2>1, <1>1, <1>3, PushOne
    <3>2. epOvf' = [epOvf EXCEPT !.list = new]
      BY <2>1, <1>2
    <3> HIDE DEF new
    <3>3. epOvf'.list = new /\ epOvf'.active = epOvf.active
      BY <3>2, <1>3
    <3>4. epOvf' \in [active : BOOLEAN, list : Seq(EpFiles)]
      BY <3>1, <3>2, <1>3
    <3> QED BY <3>1, <3>3, <3>4, <2>1
  <2>2. CASE ~(wanted /\ epOvf.active /\ f \notin ToSet(epOvf.list))
    BY <2>2, <1>2, <1>3
  <2> QED BY <2>1, <2>2
<1>6. /\ epRdl' \in Seq(EpFiles) /\ ToSet(epRdl) \subseteq ToSet(epRdl')
      /\ ToSet(epRdl') \subseteq ToSet(epRdl) \cup {f}
      /\ wanted /\ ~epOvf.active => f \in ToSet(epRdl') \cup Stolen
      /\ epOvf.active => epRdl' = epRdl
      /\ epRdl' = epRdl \/ (f \notin ToSet(epRdl) /\ wanted)
      /\ IsInjective(epRdl) => IsInjective(epRdl')
  <2>1. ep_is_linked(f) <=> f \in ToSet(epRdl) \cup Stolen
    BY DEF ep_is_linked, Stolen
  <2>2. CASE wanted /\ ~epOvf.active /\ ~ep_is_linked(f)
    <3>1. epRdl' = Append(epRdl, f)
      BY <2>2, <1>2
    <3> QED BY <3>1, <2>1, <2>2, <1>1, <1>3, AppendOne
  <2>3. CASE ~(wanted /\ ~epOvf.active /\ ~ep_is_linked(f))
    BY <2>1, <2>3, <1>2, <1>3
  <2> QED BY <2>2, <2>3
<1>7. EpTypeOK'
  BY <1>2, <1>4, <1>5, <1>6 DEF EpTypeOK
<1>8. \A u \in EpTasks : /\ epTask'[u].pc = epTask[u].pc /\ epTask'[u].tx = epTask[u].tx
                         /\ epTask'[u].got = epTask[u].got /\ epTask'[u].file = epTask[u].file
                         /\ epTask'[u].revents = epTask[u].revents
  BY <1>4 DEF SameButAwake
<1>9. MtxHeld'
  BY <1>2, <1>5, <1>8, MtxFrame
<1>10. ItemsSound'
  BY <1>2, <1>8, ItemsFrame DEF EpTasks
<1>11. Stolen' = Stolen
  <2>1. \A u \in EpWaiters : epTask'[u].tx = epTask[u].tx
    BY <1>8 DEF EpTasks
  <2> QED BY <2>1 DEF Stolen
<1>12. ListsSound'
  <2>1. wanted => epItem[f].linked
    BY <1>1 DEF ItemsSound
  <2>2. \A u \in EpWaiters : IsInjective(epTask[u].tx \o epRdl')
    <3>1. CASE epOvf.active
      BY <3>1, <1>6 DEF ListsSound
    <3>2. CASE ~epOvf.active
      <4>1. \A u \in EpWaiters : epTask[u].tx = <<>>
        BY <3>2 DEF MtxHeld, EpTasks
      <4>2. IsInjective(<<>> \o epRdl')
        BY <1>6, EmptyList, TwoLists DEF ListsSound
      <4> QED BY <4>1, <4>2
    <3> QED BY <3>1, <3>2
  <2>3. \A u \in EpWaiters : /\ IsInjective(epTask'[u].tx \o epRdl')
                             /\ IsInjective(epTask'[u].got)
                             /\ ToSet(epTask'[u].tx) \cap ToSet(epTask'[u].got) = {}
    BY <2>2, <1>8 DEF ListsSound, EpTasks
  <2>4. /\ IsInjective(epRdl') /\ IsInjective(epOvf'.list)
        /\ ToSet(epRdl') \cup Stolen' \cup ToSet(epOvf'.list)
              \subseteq {g \in EpFiles : epItem[g].linked}
    BY <2>1, <1>1, <1>5, <1>6, <1>11 DEF ListsSound
  <2> QED BY <2>3, <2>4, <1>2 DEF ListsSound
<1>13. EventsKept'
  <2>1. SUFFICES ASSUME NEW g \in EpFiles, epItem[g].hooked, ep_item_poll(g) # {},
                        epItem[g].mode = "ET" => g \in epFresh,
                        ~\E u \in EpControllers : epTask[u].file = g /\ epTask[u].pc \in {"hook", "poll"},
                        ~Polled(g)
                 PROVE  \/ g \in ToSet(epRdl') \cup Stolen' \cup ToSet(epOvf'.list)
                        \/ \E v \in epWakes' : v[1] = g /\ v[2] \cap epItem'[g].events # {}
    <3>1. \A g \in EpFiles : (Polled(g)' <=> Polled(g)) /\ ep_item_poll(g)' = ep_item_poll(g)
      BY <1>2, <1>8 DEF Polled, ep_item_poll, pipe_poll, EpTasks
    <3>2. \A u \in EpControllers : epTask'[u].pc = epTask[u].pc /\ epTask'[u].file = epTask[u].file
      BY <1>8 DEF EpTasks
    <3> QED BY <3>1, <3>2, <1>2 DEF EventsKept, Kept
  <2>2. CASE g \in ToSet(epRdl) \cup Stolen \cup ToSet(epOvf.list)
    BY <2>2, <1>5, <1>6, <1>11
  <2>3. CASE \E v \in epWakes : v[1] = g /\ v[2] \cap epItem[g].events # {}
    <3>1. PICK v \in epWakes : v[1] = g /\ v[2] \cap epItem[g].events # {}
      BY <2>3
    <3>2. CASE v # w
      BY <3>1, <3>2, <1>2
    <3>3. CASE v = w
      <4>1. g = f /\ wanted
        BY <3>1, <3>3, <2>1 DEF f, key
      <4> QED BY <4>1, <1>5, <1>6, <1>11
    <3> QED BY <3>2, <3>3
  <2> QED BY <2>1, <2>2, <2>3 DEF EventsKept, Kept
<1>14. SleepersQueued' /\ NobodySleepsOverEvents'
  <2>1. CASE wanted /\ ~epOvf.active
    <3>1. epTask' = wake_up(epTask) /\ epUsed'.killed = epUsed.killed
      BY <2>1, <1>2
    <3> QED BY <3>1, <1>2, <1>3, WakeStep DEF SleepersQueued
  <2>2. CASE ~(wanted /\ ~epOvf.active)
    BY <2>2, <1>2, <1>5, SleepFrame
  <2> QED BY <2>1, <2>2
<1> QED BY <1>7, <1>9, <1>10, <1>12, <1>13, <1>14

-----------------------------------------------------------------------------
(* epoll_ctl *)

\* While no waiter holds ep->mtx no list but the ready list is in use.
LEMMA NoScan ==
    ASSUME IInv, EpAssumption, epMtx \notin EpWaiters
    PROVE  /\ \A u \in EpWaiters : /\ epTask[u].tx = <<>> /\ epTask[u].got = <<>>
                                   /\ epTask[u].pc # "scan" /\ u \in EpTasks
           /\ ~epOvf.active /\ epOvf.list = <<>> /\ Stolen = {} /\ ToSet(epOvf.list) = {}
<1>1. \A u \in EpWaiters : /\ epTask[u].tx = <<>> /\ epTask[u].got = <<>>
                           /\ epTask[u].pc # "scan" /\ u \in EpTasks
  BY DEF IInv, MtxHeld, EpTasks
<1>2. ToSet(<<>>) = {}
  BY EmptyList
<1>3. Stolen = {}
  BY <1>1, <1>2 DEF Stolen
<1> QED BY <1>1, <1>2, <1>3 DEF IInv, MtxHeld

\* Outside a scan the ready list is the only list.
LEMMA ReadyListOnly ==
    ASSUME \A u \in EpWaiters : epTask'[u].tx = <<>> /\ epTask'[u].got = <<>>,
           epOvf'.list = <<>>, epRdl' \in Seq(EpFiles), IsInjective(epRdl'),
           ToSet(epRdl') \subseteq {f \in EpFiles : epItem'[f].linked}
    PROVE  ListsSound' /\ Stolen' = {}
<1>1. <<>> \in Seq(EpFiles) /\ ToSet(<<>>) = {} /\ IsInjective(<<>>) /\ IsInjective(<<>> \o epRdl')
  BY EmptyList, TwoLists
<1>2. Stolen' = {}
  BY <1>1 DEF Stolen
<1> QED BY <1>1, <1>2 DEF ListsSound

\* epoll_ctl moves the event of one item.
LEMMA OthersKept ==
    ASSUME IInv, EpAssumption, epMtx \notin EpWaiters, NEW f \in EpFiles, Kept(f)',
           UNCHANGED <<epPipe, epWakes>>,
           \A g \in EpFiles : g # f => /\ epItem'[g] = epItem[g]
                                       /\ g \in epFresh' => g \in epFresh
                                       /\ g \in ToSet(epRdl) => g \in ToSet(epRdl'),
           \A u \in EpControllers :
              \/ /\ epTask'[u].pc = epTask[u].pc /\ epTask'[u].file = epTask[u].file
                 /\ epTask'[u].revents = epTask[u].revents
              \/ /\ epTask[u].pc = "user" \/ epTask[u].file = f
                 /\ epTask'[u].pc = "user" \/ epTask'[u].file = f
    PROVE  EventsKept'
<1>1. SUFFICES ASSUME NEW g \in EpFiles, g # f PROVE Kept(g)'
  BY DEF EventsKept
<1>2. ep_item_poll(g)' = ep_item_poll(g)
  BY <1>1 DEF ep_item_poll, pipe_poll
<1>3. Kept(g) /\ Stolen = {} /\ ToSet(epOvf.list) = {}
  BY NoScan DEF IInv, EventsKept
<1>4. Polled(g) => Polled(g)'
  BY <1>1 DEF Polled
<1>5. (\E u \in EpControllers : epTask[u].file = g /\ epTask[u].pc \in {"hook", "poll"})
      => \E u \in EpControllers : epTask'[u].file = g /\ epTask'[u].pc \in {"hook", "poll"}
  BY <1>1
<1> QED BY <1>1, <1>2, <1>3, <1>4, <1>5 DEF Kept

\* A step of the task that adds a file, which takes ep->mtx or has it
LEMMA CtlFrame ==
    ASSUME IInv, EpAssumption, NEW t \in EpControllers, epMtx \in {Unlocked, t}, NEW r \in TaskType,
           epTask' = Set(t, r), r.pc \in CtlPcs, r.state = epTask[t].state, r.sig = epTask[t].sig,
           r.tx = <<>>, r.got = <<>>, epMtx' = (IF r.pc = "user" THEN Unlocked ELSE t),
           UNCHANGED <<epPipe, epWakes, epOvf, epWq>>, epUsed' \in UsedType,
           epUsed'.killed = epUsed.killed, epItem' \in [EpFiles -> ItemType],
           epRdl' \in Seq(EpFiles), epRdl = <<>> => epRdl' = <<>>, epFresh' \subseteq EpFiles
    PROVE  /\ EpTypeOK' /\ MtxHeld' /\ SleepersQueued' /\ NobodySleepsOverEvents'
           /\ epTask'[t] = r /\ \A u \in EpTasks : u # t => epTask'[u] = epTask[u]
           /\ \A u \in EpControllers : u # t => /\ epTask'[u] = epTask[u]
                                                /\ epTask[u].pc = "user"
           /\ \A u \in EpWaiters : epTask'[u].tx = <<>> /\ epTask'[u].got = <<>>
           /\ epOvf'.list = <<>> /\ epMtx \notin EpWaiters
<1> USE DEF IInv
<1>1. t \in EpTasks /\ t \notin EpWaiters /\ Unlocked \notin EpTasks /\ epMtx \notin EpWaiters
  BY DEF EpAssumption, EpTasks
<1>2. /\ epTask' \in [EpTasks -> TaskType] /\ epTask'[t] = r
      /\ \A u \in EpTasks : u # t => epTask'[u] = epTask[u]
  BY <1>1, OneTask
<1>3. EpTypeOK'
  BY <1>1, <1>2 DEF EpTypeOK
<1>4. \A u \in EpControllers : u # t => /\ epTask'[u] = epTask[u] /\ u \in EpTasks
                                        /\ epTask[u].pc = "user" /\ u # epMtx'
  BY <1>1, <1>2 DEF MtxHeld, EpTasks, CtlPcs
<1>5. \A u \in EpWaiters : /\ epTask'[u] = epTask[u] /\ u \in EpTasks /\ u # epMtx'
                           /\ epTask[u].tx = <<>> /\ epTask[u].got = <<>> /\ epTask[u].pc # "scan"
  BY <1>1, <1>2, NoScan
<1>6. ~epOvf.active /\ epOvf.list = <<>>
  BY <1>1, NoScan
<1>7. MtxHeld'
  <2>1. \A u \in EpWaiters : /\ epTask'[u].pc \in WaiterPcs
                             /\ epTask'[u].pc = "scan" <=> epMtx' = u
    BY <1>5 DEF MtxHeld
  <2>2. \A u \in EpControllers : /\ epTask'[u].pc \in CtlPcs
                                 /\ epTask'[u].pc \in {"hook", "poll", "link"} <=> epMtx' = u
    <3>1. /\ epTask'[t].pc \in CtlPcs
          /\ epTask'[t].pc \in {"hook", "poll", "link"} <=> epMtx' = t
      BY <1>1, <1>2 DEF CtlPcs
    <3> QED BY <3>1, <1>4 DEF CtlPcs
  <2>3. \A u \in EpTasks : epTask'[u].pc # "scan" => epTask'[u].tx = <<>> /\ epTask'[u].got = <<>>
    BY <1>2 DEF MtxHeld
  <2>4. epMtx' \notin EpWaiters
    BY <1>1 DEF EpTasks
  <2> QED BY <2>1, <2>2, <2>3, <2>4, <1>6 DEF MtxHeld
<1>8. \A u \in EpTasks : epTask'[u].state = epTask[u].state /\ epTask'[u].sig = epTask[u].sig
  BY <1>2
<1>9. SleepersQueued' /\ NobodySleepsOverEvents'
  BY <1>5, <1>8, SleepFrame
<1> QED BY <1>1, <1>2, <1>3, <1>4, <1>5, <1>6, <1>7, <1>9

\* The task in epoll_ctl: it runs, and has no lists.
LEMMA Controller ==
    ASSUME IInv, EpAssumption, NEW t \in EpControllers
    PROVE  /\ t \in EpTasks /\ t \notin EpWaiters /\ epTask[t] \in TaskType
           /\ epTask[t].tx = <<>> /\ epTask[t].got = <<>> /\ epTask[t].file \in EpFiles
           /\ epTask[t].state = "running"
           /\ epTask[t].pc \in {"hook", "poll", "link"} =>
                 epMtx = t /\ epItem[epTask[t].file].linked
<1>1. t \in EpTasks /\ t \notin EpWaiters
  BY DEF EpTasks, EpAssumption
<1>2. epTask[t] \in TaskType
  BY <1>1 DEF IInv, EpTypeOK
<1>3. epTask[t].file \in EpFiles /\ epTask[t].state \in {"running", "interruptible"}
  BY <1>2 DEF TaskType
<1>4. epTask[t].state = "running"
  BY <1>1, <1>3 DEF IInv, SleepersQueued
<1>5. epTask[t].tx = <<>> /\ epTask[t].got = <<>>
  BY <1>1 DEF IInv, MtxHeld, CtlPcs
<1> QED BY <1>1, <1>2, <1>3, <1>4, <1>5 DEF IInv, MtxHeld, ItemsSound

\* ep_insert keeps the invariant when it creates the item.
LEMMA AddStep ==
    ASSUME IInv, EpAssumption, NEW t \in EpControllers, NEW f \in EpFiles, NEW m \in EpModes[f],
           EpollCtlAdd(t, f, m)
    PROVE  IInv'
<1> USE DEF IInv
<1> DEFINE r == [epTask[t] EXCEPT !.pc = "hook", !.file = f]
           item == [linked |-> TRUE, hooked |-> FALSE, mode |-> m, events |-> ReadEvents,
                    reports |-> 0]
<1>1. /\ epTask[t].pc = "user" /\ epMtx = Unlocked /\ epUsed' = [epUsed EXCEPT !.ctls = @ + 1]
      /\ ~epItem[f].linked /\ epItem' = [epItem EXCEPT ![f] = item] /\ epMtx' = t
      /\ epTask' = Set(t, r) /\ UNCHANGED <<epPipe, epWakes, epRdl, epOvf, epWq, epFresh>>
  BY DEF EpollCtlAdd, BeginCtl
<1>2. /\ t \in EpTasks /\ t \notin EpWaiters /\ epTask[t] \in TaskType
      /\ epTask[t].tx = <<>> /\ epTask[t].got = <<>> /\ epTask[t].state = "running"
  BY Controller
<1>3. r \in TaskType
  <2>1. epTask[t] \in TaskType
    BY <1>2
  <2> QED BY <2>1 DEF TaskType, CtlPcs
<1>4. r.pc = "hook" /\ r.file = f /\ r.state = epTask[t].state /\ r.sig = epTask[t].sig
      /\ r.tx = epTask[t].tx /\ r.got = epTask[t].got
  BY <1>2 DEF TaskType
<1> HIDE DEF r
<1>5. item \in ItemType
  <2>1. m \in {"LT", "ET", "ONESHOT"}
    BY DEF EpAssumption
  <2> QED BY <2>1 DEF ItemType, ReadEvents, Keys
<1>6. item.linked /\ ~item.hooked /\ item.mode = m /\ item.events = ReadEvents /\ item.reports = 0
  OBVIOUS
<1> HIDE DEF item
<1>7. epItem \in [EpFiles -> ItemType] /\ epRdl \in Seq(EpFiles) /\ epFresh \subseteq EpFiles
      /\ epUsed \in UsedType
  BY DEF EpTypeOK
<1>8. epItem' \in [EpFiles -> ItemType] /\ epItem'[f] = item
      /\ \A g \in EpFiles : g # f => epItem'[g] = epItem[g]
  BY <1>1, <1>5, <1>7
<1>9. epUsed' \in UsedType /\ epUsed'.killed = epUsed.killed
  <2>1. epUsed' \in UsedType
    BY <1>1, <1>7, UsedUpdates
  <2>2. epUsed'.killed = epUsed.killed
    BY <1>1, <1>7 DEF UsedType
  <2> QED BY <2>1, <2>2
<1>10. /\ EpTypeOK' /\ MtxHeld' /\ SleepersQueued' /\ NobodySleepsOverEvents'
       /\ epTask'[t] = r /\ \A u \in EpTasks : u # t => epTask'[u] = epTask[u]
       /\ \A u \in EpControllers : u # t => /\ epTask'[u] = epTask[u]
                                            /\ epTask[u].pc = "user"
       /\ \A u \in EpWaiters : epTask'[u].tx = <<>> /\ epTask'[u].got = <<>>
       /\ epOvf'.list = <<>> /\ epMtx \notin EpWaiters
  <2>1. r.pc \in CtlPcs /\ r.pc # "user" /\ r.tx = <<>> /\ r.got = <<>>
    BY <1>2, <1>4 DEF CtlPcs
  <2> QED BY <1>1, <1>3, <1>4, <1>7, <1>8, <1>9, <2>1, CtlFrame
<1>11. ItemsSound'
  BY <1>1, <1>4, <1>6, <1>8, <1>10 DEF ItemsSound
<1>12. ListsSound'
  <2>1. IsInjective(epRdl) /\ ToSet(epRdl) \subseteq {g \in EpFiles : epItem'[g].linked}
    BY <1>6, <1>8 DEF ListsSound
  <2> QED BY <2>1, <1>1, <1>7, <1>10, ReadyListOnly
<1>13. EventsKept'
  <2>1. Kept(f)'
    BY <1>6, <1>8 DEF Kept
  <2> QED BY <2>1, <1>1, <1>4, <1>8, <1>10, OthersKept
<1> QED BY <1>10, <1>11, <1>12, <1>13

\* ep_ptable_queue_proc keeps the invariant.
LEMMA HookStep ==
    ASSUME IInv, EpAssumption, NEW t \in EpControllers, ep_ptable_queue_proc(t)
    PROVE  IInv'
<1> USE DEF IInv
<1>13. PICK f \in EpFiles : f = epTask[t].file
  BY Controller
<1> DEFINE r == [epTask[t] EXCEPT !.pc = "poll"]
           item == [epItem[f] EXCEPT !.hooked = TRUE]
<1>1. /\ epTask[t].pc = "hook" /\ epItem' = [epItem EXCEPT ![f] = item] /\ epTask' = Set(t, r)
      /\ UNCHANGED <<epPipe, epWakes, epRdl, epOvf, epWq, epMtx, epFresh, epUsed>>
  BY <1>13 DEF ep_ptable_queue_proc, GoTo
<1>2. /\ t \in EpTasks /\ t \notin EpWaiters /\ epTask[t] \in TaskType /\ epMtx = t
      /\ epTask[t].tx = <<>> /\ epTask[t].got = <<>> /\ epTask[t].state = "running"
      /\ f \in EpFiles /\ epItem[f].linked
  BY <1>1, <1>13, Controller
<1>3. r \in TaskType
  <2>1. epTask[t] \in TaskType
    BY <1>2
  <2> QED BY <2>1 DEF TaskType, CtlPcs
<1>4. r.pc = "poll" /\ r.file = f /\ r.state = epTask[t].state /\ r.sig = epTask[t].sig
      /\ r.tx = epTask[t].tx /\ r.got = epTask[t].got
  BY <1>2, <1>13 DEF TaskType
<1> HIDE DEF r
<1>5. epItem \in [EpFiles -> ItemType] /\ epRdl \in Seq(EpFiles) /\ epFresh \subseteq EpFiles
      /\ epUsed \in UsedType
  BY DEF EpTypeOK
<1>6. epItem[f] \in ItemType /\ item \in ItemType
  <2>1. epItem[f] \in ItemType
    BY <1>2, <1>5
  <2>2. item \in ItemType
    BY <2>1 DEF ItemType
  <2> QED BY <2>1, <2>2
<1>7. item.linked = epItem[f].linked /\ item.mode = epItem[f].mode
      /\ item.events = epItem[f].events /\ item.reports = epItem[f].reports
  BY <1>6 DEF ItemType
<1> HIDE DEF item
<1>8. epItem' \in [EpFiles -> ItemType] /\ epItem'[f] = item
      /\ \A g \in EpFiles : g # f => epItem'[g] = epItem[g]
  BY <1>1, <1>2, <1>5, <1>6
<1>9. /\ EpTypeOK' /\ MtxHeld' /\ SleepersQueued' /\ NobodySleepsOverEvents'
      /\ epTask'[t] = r /\ \A u \in EpTasks : u # t => epTask'[u] = epTask[u]
      /\ \A u \in EpControllers : u # t => /\ epTask'[u] = epTask[u]
                                           /\ epTask[u].pc = "user"
      /\ \A u \in EpWaiters : epTask'[u].tx = <<>> /\ epTask'[u].got = <<>>
      /\ epOvf'.list = <<>> /\ epMtx \notin EpWaiters
  <2>1. r.pc \in CtlPcs /\ r.pc # "user" /\ r.tx = <<>> /\ r.got = <<>>
    BY <1>2, <1>4 DEF CtlPcs
  <2> QED BY <1>1, <1>2, <1>3, <1>4, <1>5, <1>8, <2>1, CtlFrame
<1>10. ItemsSound'
  <2>1. \A g \in EpFiles : /\ epItem'[g].hooked => epItem'[g].linked
                           /\ epItem'[g].events = epItem[g].events
                           /\ epItem'[g].mode = epItem[g].mode
                           /\ epItem'[g].reports = epItem[g].reports
    BY <1>2, <1>7, <1>8 DEF ItemsSound
  <2>2. \A u \in EpControllers : epTask'[u].pc \in {"hook", "poll", "link"} =>
                                    epItem'[epTask'[u].file].linked
    BY <1>2, <1>4, <1>7, <1>8, <1>9
  <2> QED BY <2>1, <2>2, <1>1 DEF ItemsSound
<1>11. ListsSound'
  <2>1. IsInjective(epRdl) /\ ToSet(epRdl) \subseteq {g \in EpFiles : epItem'[g].linked}
    BY <1>2, <1>7, <1>8 DEF ListsSound
  <2> QED BY <2>1, <1>1, <1>5, <1>9, ReadyListOnly
<1>12. EventsKept'
  <2>1. Kept(f)'
    BY <1>4, <1>9 DEF Kept
  <2> QED BY <2>1, <1>13, <1>1, <1>2, <1>4, <1>8, <1>9, OthersKept
<1> QED BY <1>9, <1>10, <1>11, <1>12

\* ep_insert keeps the invariant when it polls the file.
LEMMA InsertPollStep ==
    ASSUME IInv, EpAssumption, NEW t \in EpControllers, InsertPoll(t)
    PROVE  IInv'
<1> USE DEF IInv
<1>13. PICK f \in EpFiles : f = epTask[t].file
  BY Controller
<1> DEFINE has == ep_item_poll(f)
           r == [epTask[t] EXCEPT !.pc = "link", !.revents = has]
<1>1. /\ epTask[t].pc = "poll" /\ epTask' = Set(t, r) /\ epFresh' = epFresh \ {f}
      /\ UNCHANGED <<epPipe, epWakes, epItem, epRdl, epOvf, epWq, epMtx, epUsed>>
  BY <1>13 DEF InsertPoll
<1>2. /\ t \in EpTasks /\ t \notin EpWaiters /\ epTask[t] \in TaskType /\ epMtx = t
      /\ epTask[t].tx = <<>> /\ epTask[t].got = <<>> /\ epTask[t].state = "running"
      /\ f \in EpFiles /\ epItem[f].linked
  BY <1>1, <1>13, Controller
<1>3. has \in SUBSET Keys
  BY DEF ep_item_poll, pipe_poll, Keys
<1>4. ep_item_poll(f)' = has
  BY <1>1 DEF ep_item_poll, pipe_poll
<1> HIDE DEF has
<1>5. r \in TaskType
  <2>1. epTask[t] \in TaskType
    BY <1>2
  <2> QED BY <2>1, <1>3 DEF TaskType, CtlPcs
<1>6. r.pc = "link" /\ r.file = f /\ r.state = epTask[t].state /\ r.sig = epTask[t].sig
      /\ r.tx = epTask[t].tx /\ r.got = epTask[t].got /\ r.revents = has
  BY <1>2, <1>13 DEF TaskType
<1> HIDE DEF r
<1>7. epItem \in [EpFiles -> ItemType] /\ epRdl \in Seq(EpFiles) /\ epFresh \subseteq EpFiles
      /\ epUsed \in UsedType
  BY DEF EpTypeOK
<1>8. /\ EpTypeOK' /\ MtxHeld' /\ SleepersQueued' /\ NobodySleepsOverEvents'
      /\ epTask'[t] = r /\ \A u \in EpTasks : u # t => epTask'[u] = epTask[u]
      /\ \A u \in EpControllers : u # t => /\ epTask'[u] = epTask[u]
                                           /\ epTask[u].pc = "user"
      /\ \A u \in EpWaiters : epTask'[u].tx = <<>> /\ epTask'[u].got = <<>>
      /\ epOvf'.list = <<>> /\ epMtx \notin EpWaiters
  <2>1. r.pc \in CtlPcs /\ r.pc # "user" /\ r.tx = <<>> /\ r.got = <<>>
    BY <1>2, <1>6 DEF CtlPcs
  <2>2. epFresh' \subseteq EpFiles
    BY <1>1, <1>7
  <2> QED BY <1>1, <1>2, <1>5, <1>6, <1>7, <2>1, <2>2, CtlFrame
<1>9. ItemsSound'
  <2>1. \A u \in EpControllers : epTask'[u].pc \in {"hook", "poll", "link"} =>
                                    epItem[epTask'[u].file].linked
    BY <1>2, <1>6, <1>8
  <2> QED BY <2>1, <1>1 DEF ItemsSound
<1>10. ListsSound'
  <2>1. IsInjective(epRdl) /\ ToSet(epRdl) \subseteq {g \in EpFiles : epItem'[g].linked}
    BY <1>1 DEF ListsSound
  <2> QED BY <2>1, <1>1, <1>7, <1>8, ReadyListOnly
<1>11. EventsKept'
  <2>2. ep_item_poll(f)' # {} => Polled(f)'
    BY <1>4, <1>6, <1>8 DEF Polled
  <2>3. Kept(f)'
    BY <2>2 DEF Kept
  <2> QED BY <2>3, <1>13, <1>1, <1>2, <1>6, <1>8, OthersKept
<1> QED BY <1>8, <1>9, <1>10, <1>11

\* Unlink takes the item off the ready list.
LEMMA Unlinked ==
    ASSUME IInv, EpAssumption, epMtx \notin EpWaiters, NEW f \in EpFiles, Unlink(f)
    PROVE  /\ epItem' \in [EpFiles -> ItemType] /\ epItem'[f] = NoItem
           /\ \A g \in EpFiles : g # f => epItem'[g] = epItem[g]
           /\ epRdl' \in Seq(EpFiles) /\ IsInjective(epRdl')
           /\ ToSet(epRdl') = ToSet(epRdl) \ {f} /\ (epRdl = <<>> => epRdl' = <<>>)
           /\ ToSet(epRdl') \subseteq {g \in EpFiles : epItem'[g].linked}
<1>1. epItem \in [EpFiles -> ItemType] /\ epRdl \in Seq(EpFiles) /\ NoItem \in ItemType
  BY DEF IInv, EpTypeOK, NoItem, ItemType, Keys
<1>2. epItem' \in [EpFiles -> ItemType] /\ epItem'[f] = NoItem
      /\ \A g \in EpFiles : g # f => epItem'[g] = epItem[g]
  BY <1>1 DEF Unlink
<1>3. IsInjective(epRdl) /\ ToSet(epRdl) \subseteq {g \in EpFiles : epItem[g].linked}
  BY DEF IInv, ListsSound
<1>4. epRdl' \in Seq(EpFiles) /\ IsInjective(epRdl') /\ ToSet(epRdl') = ToSet(epRdl) \ {f}
  BY <1>1, <1>3, RemoveOne DEF Unlink
<1>5. epRdl = <<>> => epRdl' = <<>>
  <2>1. epRdl = <<>> <=> ToSet(epRdl) = {}
    BY <1>1, Elements
  <2>2. epRdl' = <<>> <=> ToSet(epRdl') = {}
    BY <1>4, Elements
  <2> QED BY <2>1, <2>2, <1>4
<1> QED BY <1>2, <1>3, <1>4, <1>5

\* An item that is removed leaves the others sound.
LEMMA UnlinkedItems ==
    ASSUME IInv, NEW f \in EpFiles, epItem'[f] = NoItem,
           \A g \in EpFiles : g # f => epItem'[g] = epItem[g], UNCHANGED epWakes,
           \A u \in EpControllers : epTask'[u].pc \in {"hook", "poll", "link"} =>
                                       epItem'[epTask'[u].file].linked
    PROVE  ItemsSound'
<1>1. NoItem.hooked = FALSE /\ NoItem.events = {} /\ NoItem.mode = "LT"
  BY DEF NoItem
<1> QED BY <1>1 DEF IInv, ItemsSound

\* ep_insert keeps the invariant when it fails and takes the item out again.
LEMMA InsertFailsStep ==
    ASSUME IInv, EpAssumption, NEW t \in EpControllers, InsertFails(t)
    PROVE  IInv'
<1> USE DEF IInv
<1>1. PICK f \in EpFiles : f = epTask[t].file
  BY Controller
<1> DEFINE r == [epTask[t] EXCEPT !.pc = "user"]
<1>2. /\ epTask[t].pc = "hook" /\ Unlink(f) /\ epTask' = Set(t, r) /\ epMtx' = Unlocked
      /\ epUsed' = [epUsed EXCEPT !.faults = @ + 1]
      /\ UNCHANGED <<epPipe, epWakes, epOvf, epWq, epFresh>>
  BY <1>1 DEF InsertFails, GoTo
<1>3. /\ t \in EpTasks /\ t \notin EpWaiters /\ epTask[t] \in TaskType /\ epMtx = t
      /\ epTask[t].tx = <<>> /\ epTask[t].got = <<>> /\ epTask[t].state = "running"
  BY <1>2, Controller
<1>4. r \in TaskType
  <2>1. epTask[t] \in TaskType
    BY <1>3
  <2> QED BY <2>1 DEF TaskType, CtlPcs
<1>5. r.pc = "user" /\ r.state = epTask[t].state /\ r.sig = epTask[t].sig
      /\ r.tx = epTask[t].tx /\ r.got = epTask[t].got
  BY <1>3 DEF TaskType
<1> HIDE DEF r
<1>6. /\ epItem' \in [EpFiles -> ItemType] /\ epItem'[f] = NoItem
      /\ \A g \in EpFiles : g # f => epItem'[g] = epItem[g]
      /\ epRdl' \in Seq(EpFiles) /\ IsInjective(epRdl')
      /\ ToSet(epRdl') = ToSet(epRdl) \ {f} /\ (epRdl = <<>> => epRdl' = <<>>)
      /\ ToSet(epRdl') \subseteq {g \in EpFiles : epItem'[g].linked}
  BY <1>2, <1>3, Unlinked
<1>7. epUsed' \in UsedType /\ epUsed'.killed = epUsed.killed /\ epFresh' \subseteq EpFiles
  <2>1. epUsed \in UsedType /\ epFresh \subseteq EpFiles
    BY DEF EpTypeOK
  <2>2. epUsed' \in UsedType
    BY <1>2, <2>1, UsedUpdates
  <2>3. epUsed'.killed = epUsed.killed
    BY <1>2, <2>1 DEF UsedType
  <2> QED BY <2>1, <2>2, <2>3, <1>2
<1>8. /\ EpTypeOK' /\ MtxHeld' /\ SleepersQueued' /\ NobodySleepsOverEvents'
      /\ epTask'[t] = r /\ \A u \in EpTasks : u # t => epTask'[u] = epTask[u]
      /\ \A u \in EpControllers : u # t => /\ epTask'[u] = epTask[u]
                                           /\ epTask[u].pc = "user"
      /\ \A u \in EpWaiters : epTask'[u].tx = <<>> /\ epTask'[u].got = <<>>
      /\ epOvf'.list = <<>> /\ epMtx \notin EpWaiters
  <2>1. r.pc \in CtlPcs /\ r.tx = <<>> /\ r.got = <<>>
    BY <1>3, <1>5 DEF CtlPcs
  <2> QED BY <1>2, <1>3, <1>4, <1>5, <1>6, <1>7, <2>1, CtlFrame
<1>9. ItemsSound'
  <2>1. \A u \in EpControllers : epTask'[u].pc = "user"
    BY <1>5, <1>8
  <2> QED BY <2>1, <1>2, <1>6, UnlinkedItems
<1>10. ListsSound'
  BY <1>6, <1>8, ReadyListOnly
<1>11. EventsKept'
  <2>1. Kept(f)'
    BY <1>6 DEF Kept, NoItem
  <2> QED BY <2>1, <1>1, <1>2, <1>3, <1>5, <1>6, <1>8, OthersKept
<1> QED BY <1>8, <1>9, <1>10, <1>11

\* ep_remove keeps the invariant.
LEMMA RemoveStep ==
    ASSUME IInv, EpAssumption, NEW t \in EpControllers, NEW f \in EpFiles, ep_remove(t, f)
    PROVE  IInv'
<1> USE DEF IInv
<1>1. /\ epMtx = Unlocked /\ Unlink(f) /\ epUsed' = [epUsed EXCEPT !.ctls = @ + 1]
      /\ UNCHANGED <<epPipe, epWakes, epOvf, epWq, epMtx, epTask, epFresh>>
  BY DEF ep_remove, BeginCtl
<1>2. epMtx \notin EpWaiters /\ \A u \in EpControllers : epTask[u].pc = "user"
  BY <1>1 DEF EpAssumption, EpTasks, MtxHeld, CtlPcs
<1>3. /\ epItem' \in [EpFiles -> ItemType] /\ epItem'[f] = NoItem
      /\ \A g \in EpFiles : g # f => epItem'[g] = epItem[g]
      /\ epRdl' \in Seq(EpFiles) /\ IsInjective(epRdl')
      /\ ToSet(epRdl') = ToSet(epRdl) \ {f} /\ (epRdl = <<>> => epRdl' = <<>>)
      /\ ToSet(epRdl') \subseteq {g \in EpFiles : epItem'[g].linked}
  BY <1>1, <1>2, Unlinked
<1>4. epUsed' \in UsedType /\ epUsed'.killed = epUsed.killed
  <2>1. epUsed \in UsedType
    BY DEF EpTypeOK
  <2>2. epUsed' \in UsedType
    BY <1>1, <2>1, UsedUpdates
  <2>3. epUsed'.killed = epUsed.killed
    BY <1>1, <2>1 DEF UsedType
  <2> QED BY <2>2, <2>3
<1>5. EpTypeOK'
  BY <1>1, <1>3, <1>4 DEF EpTypeOK
<1>6. MtxHeld'
  BY <1>1, MtxFrame
<1>7. ItemsSound'
  BY <1>1, <1>2, <1>3, UnlinkedItems
<1>8. ListsSound'
  <2>1. \A u \in EpWaiters : epTask'[u].tx = <<>> /\ epTask'[u].got = <<>>
    BY <1>1, <1>2, NoScan
  <2>2. epOvf'.list = <<>>
    BY <1>1, <1>2, NoScan
  <2> QED BY <2>1, <2>2, <1>3, ReadyListOnly
<1>9. EventsKept'
  <2>1. Kept(f)'
    BY <1>3 DEF Kept, NoItem
  <2> QED BY <2>1, <1>1, <1>2, <1>3, OthersKept
<1>10. SleepersQueued' /\ NobodySleepsOverEvents'
  BY <1>1, <1>3, <1>4, SleepFrame
<1> QED BY <1>5, <1>6, <1>7, <1>8, <1>9, <1>10

\* epoll_ctl puts an item that is ready on the ready list, once.
LEMMA LinkOne ==
    ASSUME IInv, EpAssumption, epMtx \notin EpWaiters, NEW f \in EpFiles, epItem[f].linked,
           NEW ready \in BOOLEAN,
           epRdl' = IF ready /\ ~ep_is_linked(f) THEN Append(epRdl, f) ELSE epRdl
    PROVE  /\ epRdl' \in Seq(EpFiles) /\ IsInjective(epRdl')
           /\ ToSet(epRdl) \subseteq ToSet(epRdl') /\ ToSet(epRdl') \subseteq ToSet(epRdl) \cup {f}
           /\ ready => f \in ToSet(epRdl')
           /\ ToSet(epRdl') \subseteq {g \in EpFiles : epItem[g].linked}
<1>1. epRdl \in Seq(EpFiles) /\ IsInjective(epRdl)
      /\ ToSet(epRdl) \subseteq {g \in EpFiles : epItem[g].linked}
  BY DEF IInv, EpTypeOK, ListsSound
<1>2. ep_is_linked(f) <=> f \in ToSet(epRdl)
  <2>1. ep_is_linked(f) <=> f \in ToSet(epRdl) \cup Stolen
    BY DEF ep_is_linked, Stolen
  <2> QED BY <2>1, NoScan
<1>3. CASE ready /\ ~ep_is_linked(f)
  <2>1. epRdl' = Append(epRdl, f)
    BY <1>3
  <2> QED BY <2>1, <1>1, <1>2, <1>3, AppendOne
<1>4. CASE ~(ready /\ ~ep_is_linked(f))
  BY <1>1, <1>2, <1>4
<1> QED BY <1>3, <1>4

\* The wake-up that goes with it
LEMMA LinkWakes ==
    ASSUME IInv, EpAssumption, NEW task \in [EpTasks -> TaskType], NEW new \in BOOLEAN,
           epTask' = IF new THEN wake_up(task) ELSE task,
           UNCHANGED <<epWq, epOvf>>, epUsed'.killed = epUsed.killed, ~new => epRdl' = epRdl,
           \A u \in EpTasks : task[u].state = epTask[u].state /\ task[u].sig = epTask[u].sig,
           \A u \in EpWaiters : task[u].pc = epTask[u].pc
    PROVE  /\ epTask' \in [EpTasks -> TaskType]
           /\ \A u \in EpTasks : SameButAwake(epTask'[u], task[u])
           /\ SleepersQueued' /\ NobodySleepsOverEvents'
<1>1. epWq \in Seq(EpWaiters)
  BY DEF IInv, EpTypeOK
<1>2. CASE new
  <2>1. epTask' = wake_up(task)
    BY <1>2
  <2>2. epTask' \in [EpTasks -> TaskType] /\ \A u \in EpTasks : SameButAwake(epTask'[u], task[u])
    BY <2>1, <1>1, WakesOne, WakeFrame
  <2>3. /\ \A u \in EpTasks : task[u].state = "interruptible" =>
                                 u \in EpWaiters /\ task[u].pc = "schedule"
        /\ \A u \in EpWaiters : task[u].pc = "schedule" => u \in ToSet(epWq)
        /\ \A u \in EpTasks : task[u].sig = "fatal" => epUsed'.killed
    BY DEF IInv, SleepersQueued
  <2> QED BY <2>1, <2>2, <2>3, <1>1, WakeStep
<1>3. CASE ~new
  <2>1. epTask' = task /\ epRdl' = epRdl
    BY <1>3
  <2>2. SleepersQueued' /\ NobodySleepsOverEvents'
    BY <2>1, SleepFrame DEF IInv
  <2> QED BY <2>1, <2>2 DEF SameButAwake
<1> QED BY <1>2, <1>3

\* ep_insert keeps the invariant when it puts a ready item on the list.
LEMMA InsertLinkStep ==
    ASSUME IInv, EpAssumption, NEW t \in EpControllers, InsertLink(t)
    PROVE  IInv'
<1> USE DEF IInv
<1>1. PICK f \in EpFiles : f = epTask[t].file
  BY Controller
<1> DEFINE r == [epTask[t] EXCEPT !.pc = "user", !.revents = {}]
           ready == epTask[t].revents # {}
           new == ready /\ ~ep_is_linked(f)
           task == Set(t, r)
<1>2. /\ epTask[t].pc = "link" /\ epMtx' = Unlocked
      /\ epRdl' = (IF new THEN Append(epRdl, f) ELSE epRdl)
      /\ epTask' = (IF new THEN wake_up(task) ELSE task)
      /\ UNCHANGED <<epPipe, epWakes, epItem, epOvf, epWq, epFresh, epUsed>>
  BY <1>1 DEF InsertLink
<1>3. /\ t \in EpTasks /\ t \notin EpWaiters /\ epTask[t] \in TaskType /\ epMtx = t
      /\ epTask[t].tx = <<>> /\ epTask[t].got = <<>> /\ epTask[t].state = "running"
      /\ epItem[f].linked /\ epMtx \notin EpWaiters
  BY <1>1, <1>2, Controller
<1>4. r \in TaskType
  <2>1. epTask[t] \in TaskType
    BY <1>3
  <2> QED BY <2>1 DEF TaskType, CtlPcs
<1>5. r.pc = "user" /\ r.state = epTask[t].state /\ r.sig = epTask[t].sig
      /\ r.tx = epTask[t].tx /\ r.got = epTask[t].got
  BY <1>3 DEF TaskType
<1> HIDE DEF r
<1>6. /\ task \in [EpTasks -> TaskType] /\ task[t] = r
      /\ \A u \in EpTasks : u # t => task[u] = epTask[u]
  BY <1>3, <1>4 DEF EpTypeOK, Set
<1> HIDE DEF task
<1>7. ready \in BOOLEAN /\ new \in BOOLEAN
  OBVIOUS
<1>8. /\ epRdl' \in Seq(EpFiles) /\ IsInjective(epRdl')
      /\ ToSet(epRdl) \subseteq ToSet(epRdl') /\ ToSet(epRdl') \subseteq ToSet(epRdl) \cup {f}
      /\ ready => f \in ToSet(epRdl')
      /\ ToSet(epRdl') \subseteq {g \in EpFiles : epItem[g].linked}
  <2> HIDE DEF ready
  <2> QED BY <1>2, <1>3, <1>7, LinkOne
<1>9. /\ epTask' \in [EpTasks -> TaskType]
      /\ \A u \in EpTasks : SameButAwake(epTask'[u], task[u])
      /\ SleepersQueued' /\ NobodySleepsOverEvents'
  <2>1. ~new => epRdl' = epRdl
    BY <1>2
  <2>2. \A u \in EpTasks : task[u].state = epTask[u].state /\ task[u].sig = epTask[u].sig
    BY <1>5, <1>6
  <2>3. \A u \in EpWaiters : task[u].pc = epTask[u].pc
    BY <1>3, <1>6 DEF EpTasks
  <2> HIDE DEF new
  <2> QED BY <2>1, <2>2, <2>3, <1>2, <1>6, <1>7, LinkWakes
<1> HIDE DEF new
<1>10. EpTypeOK'
  BY <1>2, <1>8, <1>9 DEF EpTypeOK
<1>11. \A u \in EpWaiters : /\ epTask'[u].tx = <<>> /\ epTask'[u].got = <<>> /\ u # epMtx'
                            /\ epTask'[u].pc = epTask[u].pc /\ epTask[u].pc # "scan"
                            /\ u \in EpTasks
  <2>1. \A u \in EpWaiters : /\ task[u].tx = <<>> /\ task[u].got = <<>> /\ u # epMtx'
                             /\ task[u].pc = epTask[u].pc /\ epTask[u].pc # "scan"
                             /\ u \in EpTasks
    <3>1. \A u \in EpWaiters : task[u] = epTask[u] /\ u # epMtx'
      BY <1>2, <1>3, <1>6 DEF EpTasks, EpAssumption
    <3> QED BY <3>1, <1>3, NoScan
  <2> QED BY <2>1, <1>9 DEF SameButAwake
<1>12. \A u \in EpControllers : /\ epTask'[u].pc = "user" /\ u # epMtx' /\ u \in EpTasks
                                /\ u # t => /\ epTask[u].pc = "user"
                                            /\ epTask'[u].file = epTask[u].file
                                            /\ epTask'[u].revents = epTask[u].revents
  <2>1. \A u \in EpControllers : u # epMtx' /\ u \in EpTasks
    BY <1>2 DEF EpTasks, EpAssumption
  <2>2. \A u \in EpControllers : u # t => epTask[u].pc = "user"
    BY <1>3 DEF MtxHeld, CtlPcs
  <2>3. \A u \in EpControllers : task[u].pc = "user" /\ (u # t => task[u] = epTask[u])
    BY <2>1, <2>2, <1>5, <1>6
  <2> QED BY <2>1, <2>2, <2>3, <1>9 DEF SameButAwake
<1>13. ~epOvf.active /\ epOvf.list = <<>>
  BY <1>3, NoScan
<1>14. MtxHeld'
  <2>1. \A u \in EpTasks : epTask'[u].tx = <<>> /\ epTask'[u].got = <<>>
    <3>1. \A u \in EpTasks : task[u].tx = <<>> /\ task[u].got = <<>>
      <4>1. \A u \in EpTasks : u # t => epTask[u].pc # "scan"
        BY <1>3, <1>11, <1>12 DEF EpTasks
      <4> QED BY <4>1, <1>3, <1>5, <1>6 DEF MtxHeld
    <3> QED BY <3>1, <1>9 DEF SameButAwake
  <2>2. epMtx' \notin EpWaiters
    BY <1>2 DEF EpAssumption, EpTasks
  <2> QED BY <2>1, <2>2, <1>2, <1>11, <1>12, <1>13 DEF MtxHeld, CtlPcs
<1>15. ItemsSound'
  BY <1>2, <1>12 DEF ItemsSound
<1>16. ListsSound'
  BY <1>2, <1>8, <1>11, <1>13, ReadyListOnly
<1>17. EventsKept'
  <2>1. Kept(f)'
    <3>1. CASE ready
      BY <3>1, <1>8 DEF Kept
    <3>2. CASE ~ready
      <4>1. ~Polled(f)
        BY <3>2, <1>12 DEF Polled
      <4>2. ~\E u \in EpControllers : epTask[u].file = f /\ epTask[u].pc \in {"hook", "poll"}
        BY <1>2, <1>12
      <4>3. Kept(f) /\ ep_item_poll(f)' = ep_item_poll(f)
        BY <1>2 DEF EventsKept, ep_item_poll, pipe_poll
      <4>4. Stolen = {} /\ ToSet(epOvf.list) = {}
        BY <1>3, NoScan
      <4> QED BY <4>1, <4>2, <4>3, <4>4, <1>2, <1>8 DEF Kept
    <3> QED BY <3>1, <3>2
  <2>2. \A u \in EpControllers :
           \/ /\ epTask'[u].pc = epTask[u].pc /\ epTask'[u].file = epTask[u].file
              /\ epTask'[u].revents = epTask[u].revents
           \/ /\ epTask[u].pc = "user" \/ epTask[u].file = f
              /\ epTask'[u].pc = "user" \/ epTask'[u].file = f
    BY <1>1, <1>12
  <2> QED BY <2>1, <2>2, <1>2, <1>3, <1>8, OthersKept
<1> QED BY <1>9, <1>10, <1>14, <1>15, <1>16, <1>17

\* ep_modify keeps the invariant.
LEMMA ModifyStep ==
    ASSUME IInv, EpAssumption, NEW t \in EpControllers, NEW f \in EpFiles, NEW m \in EpModes[f],
           ep_modify(t, f, m)
    PROVE  IInv'
<1> USE DEF IInv
<1> DEFINE ready == pipe_poll(f) \cap ReadEvents # {}
           new == ready /\ ~ep_is_linked(f)
           item == [epItem[f] EXCEPT !.events = ReadEvents, !.mode = m, !.reports = 0]
<1>1. /\ epMtx = Unlocked /\ epUsed' = [epUsed EXCEPT !.ctls = @ + 1] /\ epItem[f].linked
      /\ epItem' = [epItem EXCEPT ![f] = item] /\ epFresh' = epFresh \ {f}
      /\ epRdl' = (IF new THEN Append(epRdl, f) ELSE epRdl)
      /\ epTask' = (IF new THEN wake_up(epTask) ELSE epTask)
      /\ UNCHANGED <<epPipe, epWakes, epOvf, epWq, epMtx>>
  BY DEF ep_modify, BeginCtl
<1>2. /\ epMtx \notin EpWaiters
      /\ \A u \in EpControllers : epTask[u].pc = "user" /\ u \in EpTasks
  BY <1>1 DEF EpAssumption, EpTasks, MtxHeld, CtlPcs
<1>3. epItem \in [EpFiles -> ItemType] /\ epTask \in [EpTasks -> TaskType]
      /\ epUsed \in UsedType /\ epFresh \subseteq EpFiles
  BY DEF EpTypeOK
<1>4. epItem[f] \in ItemType /\ item \in ItemType
  <2>1. epItem[f] \in ItemType
    BY <1>3
  <2>2. m \in {"LT", "ET", "ONESHOT"} /\ ReadEvents \in SUBSET Keys /\ 0 \in Int
    BY DEF EpAssumption, ReadEvents, Keys
  <2> QED BY <2>1, <2>2, ItemUpdates, Zenon
<1>5. item.linked = epItem[f].linked /\ item.hooked = epItem[f].hooked /\ item.mode = m
      /\ item.events = ReadEvents /\ item.reports = 0
  BY <1>4 DEF ItemType
<1> HIDE DEF item
<1>6. epItem' \in [EpFiles -> ItemType] /\ epItem'[f] = item
      /\ \A g \in EpFiles : g # f => epItem'[g] = epItem[g]
  BY <1>1, <1>3, <1>4
<1>7. epUsed' \in UsedType /\ epUsed'.killed = epUsed.killed
  <2>1. epUsed' \in UsedType
    BY <1>1, <1>3, UsedUpdates
  <2>2. epUsed'.killed = epUsed.killed
    BY <1>1, <1>3 DEF UsedType
  <2> QED BY <2>1, <2>2
<1>8. ready \in BOOLEAN /\ new \in BOOLEAN
  OBVIOUS
<1>9. /\ epRdl' \in Seq(EpFiles) /\ IsInjective(epRdl')
      /\ ToSet(epRdl) \subseteq ToSet(epRdl') /\ ToSet(epRdl') \subseteq ToSet(epRdl) \cup {f}
      /\ ready => f \in ToSet(epRdl')
      /\ ToSet(epRdl') \subseteq {g \in EpFiles : epItem[g].linked}
  <2> HIDE DEF ready
  <2> QED BY <1>1, <1>2, <1>8, LinkOne
<1>10. /\ epTask' \in [EpTasks -> TaskType]
       /\ \A u \in EpTasks : SameButAwake(epTask'[u], epTask[u])
       /\ SleepersQueued' /\ NobodySleepsOverEvents'
  <2>1. ~new => epRdl' = epRdl
    BY <1>1
  <2> HIDE DEF new
  <2> QED BY <2>1, <1>1, <1>3, <1>7, <1>8, LinkWakes
<1> HIDE DEF new
<1>11. EpTypeOK'
  BY <1>1, <1>3, <1>6, <1>7, <1>9, <1>10 DEF EpTypeOK
<1>12. \A u \in EpTasks : /\ epTask'[u].pc = epTask[u].pc /\ epTask'[u].tx = epTask[u].tx
                          /\ epTask'[u].got = epTask[u].got /\ epTask'[u].file = epTask[u].file
                          /\ epTask'[u].revents = epTask[u].revents
  BY <1>10 DEF SameButAwake
<1>13. MtxHeld'
  BY <1>1, <1>12, MtxFrame
<1>14. ItemsSound'
  <2>1. \A u \in EpControllers : epTask'[u].pc = "user"
    BY <1>2, <1>12
  <2>2. /\ epItem'[f].hooked => epItem'[f].linked
        /\ epItem'[f].events \in {{}, ReadEvents}
        /\ epItem'[f].reports <= (IF epItem'[f].events = {} THEN 1 ELSE 0)
    <3>1. epItem'[f].linked
      BY <1>1, <1>5, <1>6
    <3>2. epItem'[f].events = ReadEvents
      BY <1>5, <1>6
    <3>3. epItem'[f].reports = 0
      BY <1>5, <1>6
    <3> QED BY <3>1, <3>2, <3>3
  <2>3. \A g \in EpFiles : /\ epItem'[g].hooked => epItem'[g].linked
                           /\ epItem'[g].events \in {{}, ReadEvents}
                           /\ epItem'[g].mode = "ONESHOT" =>
                                 epItem'[g].reports <= (IF epItem'[g].events = {} THEN 1 ELSE 0)
    BY <2>2, <1>6 DEF ItemsSound
  <2> QED BY <2>1, <2>3, <1>1 DEF ItemsSound
<1>15. ListsSound'
  <2>1. \A u \in EpWaiters : epTask'[u].tx = <<>> /\ epTask'[u].got = <<>>
    BY <1>2, <1>12, NoScan
  <2>2. epOvf'.list = <<>>
    BY <1>1, <1>2, NoScan
  <2>3. ToSet(epRdl') \subseteq {g \in EpFiles : epItem'[g].linked}
    BY <1>5, <1>6, <1>9
  <2> QED BY <2>1, <2>2, <2>3, <1>9, ReadyListOnly
<1>16. EventsKept'
  <2>1. Kept(f)'
    <3>1. ep_item_poll(f)' = pipe_poll(f) \cap ReadEvents
      BY <1>1, <1>5, <1>6 DEF ep_item_poll, pipe_poll
    <3> QED BY <3>1, <1>9 DEF Kept
  <2>2. \A u \in EpControllers : /\ epTask'[u].pc = epTask[u].pc
                                 /\ epTask'[u].file = epTask[u].file
                                 /\ epTask'[u].revents = epTask[u].revents
    BY <1>2, <1>12
  <2> QED BY <2>1, <2>2, <1>1, <1>2, <1>6, <1>9, OthersKept
<1> QED BY <1>10, <1>11, <1>13, <1>14, <1>15, <1>16

-----------------------------------------------------------------------------
(* The theorems *)

\* The invariant holds for a new epoll file.
LEMMA IInvInit == ASSUME EpInit, EpAssumption PROVE IInv
<1>1. \E f : f \in EpFiles
  BY DEF EpAssumption
<1> DEFINE file == CHOOSE f \in EpFiles : TRUE
           task == [pc |-> "user", state |-> "running", timeout |-> "forever",
                    timed_out |-> FALSE, sig |-> "none", tx |-> <<>>, got |-> <<>>,
                    fault |-> FALSE, file |-> file, revents |-> {}]
<1>2. file \in EpFiles
  BY <1>1
<1> HIDE DEF file
<1>3. <<>> \in Seq(EpFiles) /\ <<>> \in Seq(EpWaiters) /\ ToSet(<<>>) = {} /\ IsInjective(<<>>)
      /\ IsInjective(<<>> \o <<>>)
  BY EmptyList, TwoLists
<1>4. task \in TaskType
  BY <1>2, <1>3 DEF TaskType, WaiterPcs
<1>5. task.pc = "user" /\ task.state = "running" /\ task.sig = "none" /\ task.tx = <<>>
      /\ task.got = <<>>
  OBVIOUS
<1>6. epTask = [t \in EpTasks |-> task]
  BY DEF EpInit, file
<1> HIDE DEF task
<1>7. \A t \in EpTasks : epTask[t] = task
  BY <1>6
<1>8. /\ epRdl = <<>> /\ ~epOvf.active /\ epOvf.list = <<>> /\ epMtx = Unlocked
      /\ epItem = [f \in EpFiles |-> NoItem] /\ epWakes = {}
  BY DEF EpInit
<1>9. EpTypeOK
  <2>1. NoItem \in ItemType
    BY DEF NoItem, ItemType, Keys
  <2>2. epUsed \in UsedType
    BY DEF EpInit, UsedType
  <2>3. epItem \in [EpFiles -> ItemType] /\ epTask \in [EpTasks -> TaskType]
    BY <2>1, <1>4, <1>6, <1>8
  <2>4. epPipe \in [EpFiles -> [bufs : Int, writer : BOOLEAN]]
    BY DEF EpInit
  <2>5. epOvf \in [active : BOOLEAN, list : Seq(EpFiles)]
    BY <1>3 DEF EpInit
  <2>6. epWakes \subseteq EpFiles \X SUBSET Keys /\ epFresh \subseteq EpFiles
        /\ epRdl \in Seq(EpFiles) /\ epWq \in Seq(EpWaiters) /\ epMtx \in EpTasks \cup {Unlocked}
    BY <1>3 DEF EpInit
  <2> QED BY <2>2, <2>3, <2>4, <2>5, <2>6 DEF EpTypeOK
<1>10. MtxHeld
  BY <1>5, <1>7, <1>8 DEF MtxHeld, EpTasks, EpAssumption, WaiterPcs, CtlPcs
<1>11. ItemsSound
  <2>1. NoItem.hooked = FALSE /\ NoItem.events = {} /\ NoItem.mode = "LT"
    BY DEF NoItem
  <2> QED BY <2>1, <1>5, <1>7, <1>8 DEF ItemsSound, EpTasks
<1>12. Stolen = {}
  BY <1>3, <1>5, <1>7 DEF Stolen, EpTasks
<1>13. ListsSound
  BY <1>3, <1>5, <1>7, <1>8, <1>12 DEF ListsSound, EpTasks
<1>14. EventsKept
  BY <1>8 DEF EventsKept, Kept, NoItem
<1>15. SleepersQueued /\ NobodySleepsOverEvents
  BY <1>5, <1>7, <1>8 DEF SleepersQueued, NobodySleepsOverEvents, EpTasks
<1> QED BY <1>9, <1>10, <1>11, <1>13, <1>14, <1>15 DEF IInv

\* The invariant speaks of epVars only.
LEMMA IInvStutters == ASSUME IInv, UNCHANGED epVars PROVE IInv'
<1> USE DEF IInv, epVars
<1>1. EpTypeOK' /\ MtxHeld' /\ ItemsSound'
  BY DEF EpTypeOK, MtxHeld, ItemsSound
<1>2. ListsSound'
  BY ListsFrame
<1>3. EventsKept'
  <2>1. Stolen' = Stolen
    BY DEF Stolen
  <2>2. OnLists \subseteq OnLists'
    BY <2>1 DEF OnLists
  <2> QED BY <2>2, EventsFrame
<1>4. SleepersQueued' /\ NobodySleepsOverEvents'
  BY SleepFrame
<1> QED BY <1>1, <1>2, <1>3, <1>4

\* The inductive invariant: the lists and ep->mtx are in order, every event is kept somewhere,
\* and nobody sleeps over one.
THEOREM EpInvariance == EpSpec => []IInv
<1>1. EpInit => IInv
  BY EpAssumption, IInvInit
<1>2. IInv /\ [EpNext]_epVars => IInv'
  <2> SUFFICES ASSUME IInv, [EpNext]_epVars PROVE IInv'
    OBVIOUS
  <2> USE EpAssumption
  <2>1. CASE Environment
    BY <2>1, WriteStep, ReleaseStep, ReadStep, InsertFailsStep, RemoveStep, AddStep, ModifyStep,
       TimerStep, SendFaultStep, SignalStep DEF Environment
  <2>2. CASE Wakes
    BY <2>2, PipeWakeStep DEF Wakes
  <2>3. ASSUME NEW t \in EpWaiters, TaskStep(t) PROVE IInv'
    BY <2>3, FetchStep, ScheduledStep, ScanStartStep, SendEventStep, SkipEventStep, ScanDoneStep
       DEF TaskStep
  <2>4. ASSUME NEW t \in EpControllers, CtlStep(t) PROVE IInv'
    BY <2>4, HookStep, InsertPollStep, InsertLinkStep DEF CtlStep
  <2>5. CASE UNCHANGED epVars
    BY <2>5, IInvStutters
  <2> QED BY <2>1, <2>2, <2>3, <2>4, <2>5 DEF EpNext
<1> QED BY <1>1, <1>2, PTL DEF EpSpec

\* The types of epoll's state
THEOREM EpTypeCorrect == EpSpec => []EpTypeOK
<1>1. IInv => EpTypeOK
  BY DEF IInv
<1> QED BY <1>1, EpInvariance, PTL

\* ep_insert, the scan and ep_poll_callback lose no event between them, whatever the files,
\* the waiters and maxevents.
THEOREM NoEventLostAlways == EpSpec => []NoEventLost
<1>1. IInv => NoEventLost
  <2>1. ASSUME NEW f \in EpFiles, ~Inserting(f) PROVE ~Polled(f)
    BY <2>1 DEF Inserting, Polled
  <2> QED BY <2>1 DEF IInv, EventsKept, Kept, NoEventLost, Inserting
<1> QED BY <1>1, EpInvariance, PTL

\* The exclusive wake-ups of ep_poll_callback, ep_insert, ep_modify and ep_scan_ready_list leave
\* nobody asleep over a ready list that nobody else is on the way to.
THEOREM NobodySleepsOverEventsAlways == EpSpec => []NobodySleepsOverEvents
<1>1. IInv => NobodySleepsOverEvents
  BY DEF IInv
<1> QED BY <1>1, EpInvariance, PTL

\* The ready list, txlist and ovflist hold each item at most once and only items that exist,
\* and a one-shot item is reported once.
THEOREM ReadyListsSoundAlways == EpSpec => []ReadyListsSound
<1>1. IInv => ReadyListsSound
  <2> SUFFICES ASSUME IInv PROVE ReadyListsSound
    OBVIOUS
  <2>1. epOvf.active <=> \E t \in EpWaiters : epTask[t].pc = "scan"
    BY DEF IInv, MtxHeld
  <2>2. \A f \in EpFiles : epItem[f].mode = "ONESHOT" => epItem[f].reports <= 1
    <3>1. \A f \in EpFiles : epItem[f].reports \in Int
      BY DEF IInv, EpTypeOK, ItemType
    <3> QED BY <3>1 DEF IInv, ItemsSound
  <2> QED BY <2>1, <2>2 DEF IInv, ListsSound, ReadyListsSound
<1> QED BY <1>1, EpInvariance, PTL

=============================================================================
