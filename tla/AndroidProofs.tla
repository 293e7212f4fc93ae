--------------------------- MODULE AndroidProofs ----------------------------
(***************************************************************************)
(* Proofs about Android: the message queue accounts for its messages and the *)
(* looper misses no wake-up; the broadcast queue serves every receiver once, *)
(* in its order, and an ordered broadcast has one result.                  *)
(***************************************************************************)
EXTENDS MessageQueue, BroadcastQueue, ListsProofs, FiniteSetTheorems

-----------------------------------------------------------------------------
(* The message queue *)

MsgType == [when : Nat, barrier : BOOLEAN, async : BOOLEAN, task : Senders \cup {Nobody}]

LooperType == [pc : {"poll", "next", "idle", "dispatch", "exited"}, deadline : Int, idleCount : Int,
               pending : Seq(IdleHandlers), m : Messages \cup {NoMessage}]

SenderType == [pc : {"idle", "holds", "waits", "done"}, m : Messages \cup {NoMessage}]

MqTypeOK ==
    /\ mMessages \in Seq(Messages) /\ sPool \in Seq(Messages)
    /\ msg \in [Messages -> MsgType]
    /\ mBlocked \in BOOLEAN /\ mQuitting \in BOOLEAN /\ awake \in BOOLEAN
    /\ mIdleHandlers \subseteq IdleHandlers
    /\ looper \in LooperType
    /\ sender \in [Senders -> SenderType]
    /\ uptime \in Nat \ {0} /\ sends \in Nat

\* A thread holds a message exactly while it works on one, the pool is not overfull, and a
\* message that is neither queued nor being dispatched carries nothing.
HoldersSound ==
    /\ looper.m # NoMessage <=> looper.pc = "dispatch"
    /\ \A t \in Senders : sender[t].m # NoMessage <=> sender[t].pc = "holds"
    /\ Len(sPool) <= MAX_POOL_SIZE
    /\ \A m \in Messages : m \in ToSet(mMessages) \/ m = looper.m \/ msg[m] = Blank

\* A thread whose task is queued or being run waits for it, for that one only.
TasksSound ==
    /\ \A m \in Messages, t \in Senders : msg[m].task = t => sender[t].pc = "waits"
    /\ \A m, n \in Messages : msg[m].task = msg[n].task /\ msg[m].task # Nobody => m = n

\* What the looper counts on when nobody wakes it: next() either has not looked at the queue
\* since its last poll and will not wait, or blocked for the message it would take.
PollSound ==
    looper.pc = "poll" /\ ~awake /\ ~mBlocked =>
        looper.deadline # Forever /\ looper.deadline <= uptime

MqInv ==
    MqTypeOK /\ HoldersSound /\ MessagesAccounted /\ TasksSound /\ PollSound /\ NoMissedWake


-----------------------------------------------------------------------------
(* The pool and the order of the queue *)

\* A list turned round
LEMMA ReverseList ==
    ASSUME NEW S, NEW s \in Seq(S)
    PROVE  /\ Reverse(s) \in Seq(S) /\ Len(Reverse(s)) = Len(s) /\ ToSet(Reverse(s)) = ToSet(s)
           /\ IsInjective(s) => IsInjective(Reverse(s))
<1>1. /\ Len(s) \in Nat /\ \A i \in 1 .. Len(s) : s[i] \in S
      /\ \A i \in 1 .. Len(s) : (Len(s) - i) + 1 \in 1 .. Len(s)
  BY LenProperties
<1>2. PICK t : t = [i \in 1 .. Len(s) |-> s[(Len(s) - i) + 1]]
  OBVIOUS
<1>3. t \in Seq(S) /\ Len(t) = Len(s)
  BY <1>1, <1>2, IsASeq
<1>4. \A x \in ToSet(t) : x \in ToSet(s)
  <2> SUFFICES ASSUME NEW x \in ToSet(t) PROVE x \in ToSet(s)
    OBVIOUS
  <2>1. PICK i \in 1 .. Len(t) : t[i] = x
    BY <1>3, Elements
  <2>2. x = s[(Len(s) - i) + 1] /\ (Len(s) - i) + 1 \in 1 .. Len(s)
    BY <1>1, <1>2, <1>3, <2>1
  <2> QED BY <2>2, Elements
<1>5. \A x \in ToSet(s) : x \in ToSet(t)
  <2> SUFFICES ASSUME NEW x \in ToSet(s) PROVE x \in ToSet(t)
    OBVIOUS
  <2>1. PICK i \in 1 .. Len(s) : s[i] = x
    BY Elements
  <2>2. PICK j \in 1 .. Len(s) : j = (Len(s) - i) + 1
    BY <1>1
  <2>3. (Len(s) - j) + 1 = i
    BY <1>1, <2>2
  <2>4. t[j] = x /\ j \in 1 .. Len(t)
    BY <1>2, <1>3, <2>1, <2>3
  <2> QED BY <1>3, <2>4, Elements
<1>6. ASSUME IsInjective(s) PROVE IsInjective(t)
  <2> SUFFICES ASSUME NEW i \in 1 .. Len(t), NEW j \in 1 .. Len(t), t[i] = t[j] PROVE i = j
    BY <1>3, Elements
  <2>1. s[(Len(s) - i) + 1] = s[(Len(s) - j) + 1]
    BY <1>2, <1>3
  <2>2. (Len(s) - i) + 1 = (Len(s) - j) + 1
    <3>1. \A x, y \in 1 .. Len(s) : s[x] = s[y] => x = y
      BY <1>6, Elements
    <3>2. PICK a \in 1 .. Len(s) : a = (Len(s) - i) + 1
      BY <1>1, <1>3
    <3>3. PICK b \in 1 .. Len(s) : b = (Len(s) - j) + 1
      BY <1>1, <1>3
    <3> QED BY <2>1, <3>1, <3>2, <3>3
  <2> QED BY <1>1, <1>3, <2>2
<1> QED BY <1>2, <1>3, <1>4, <1>5, <1>6 DEF Reverse

\* What recycling leaves in the pool
LEMMA PoolKeeps ==
    ASSUME NEW pool \in Seq(Messages), NEW ms \in Seq(Messages), Len(pool) <= MAX_POOL_SIZE
    PROVE  /\ recycleUnchecked(pool, ms) \in Seq(Messages)
           /\ Len(recycleUnchecked(pool, ms)) <= MAX_POOL_SIZE
           /\ ToSet(recycleUnchecked(pool, ms)) \subseteq ToSet(pool) \cup ToSet(ms)
           /\ IsInjective(pool) /\ IsInjective(ms) /\ ToSet(pool) \cap ToSet(ms) = {} =>
                 IsInjective(recycleUnchecked(pool, ms))
<1>1. /\ Len(pool) \in Nat /\ Len(ms) \in Nat /\ MAX_POOL_SIZE \in Nat
  BY LenProperties, MqAssumption
<1>2. PICK room \in Nat : room = MAX_POOL_SIZE - Len(pool)
  BY <1>1
<1>3. PICK some : some = IF Len(ms) <= room THEN ms ELSE SubSeq(ms, 1, room)
  OBVIOUS
<1>4. /\ some \in Seq(Messages) /\ Len(some) <= room /\ ToSet(some) \subseteq ToSet(ms)
      /\ IsInjective(ms) => IsInjective(some)
  <2>1. CASE Len(ms) <= room
    BY <1>3, <2>1
  <2>2. CASE ~(Len(ms) <= room)
    <3>1. room \in 0 .. Len(ms) /\ 1 \in Nat \ {0}
      BY <1>1, <1>2, <2>2
    <3>2. /\ SubSeq(ms, 1, room) \in Seq(Messages)
          /\ Len(SubSeq(ms, 1, room)) = (IF 1 <= room THEN room - 1 + 1 ELSE 0)
          /\ ToSet(SubSeq(ms, 1, room)) = {ms[k] : k \in 1 .. room}
          /\ IsInjective(ms) => IsInjective(SubSeq(ms, 1, room))
      BY <3>1, Slice
    <3>3. \A k \in 1 .. room : ms[k] \in ToSet(ms)
      <4>1. \A k \in 1 .. room : k \in 1 .. Len(ms)
        BY <1>1, <1>2, <2>2
      <4> QED BY <4>1, Elements
    <3>4. Len(SubSeq(ms, 1, room)) <= room
      BY <1>1, <1>2, <3>2
    <3> QED BY <1>3, <2>2, <3>2, <3>3, <3>4
  <2> QED BY <2>1, <2>2
<1>5. PICK back : back = Reverse(some)
  OBVIOUS
<1>6. /\ back \in Seq(Messages) /\ Len(back) = Len(some) /\ ToSet(back) = ToSet(some)
      /\ IsInjective(some) => IsInjective(back)
  BY <1>4, <1>5, ReverseList
<1>7. /\ back \o pool \in Seq(Messages) /\ ToSet(back \o pool) = ToSet(back) \cup ToSet(pool)
      /\ IsInjective(back \o pool) <=> IsInjective(back) /\ IsInjective(pool) /\ ToSet(back) \cap ToSet(pool) = {}
  BY <1>6, TwoLists
<1>8. Len(back \o pool) <= MAX_POOL_SIZE
  <2>1. Len(back \o pool) = Len(back) + Len(pool) /\ Len(back) \in Nat
    BY <1>6, ConcatProperties, LenProperties
  <2> QED BY <1>1, <1>2, <1>4, <1>6, <2>1
<1>9. recycleUnchecked(pool, ms) = back \o pool
  BY <1>2, <1>3, <1>5 DEF recycleUnchecked
<1>10. ToSet(back \o pool) \subseteq ToSet(pool) \cup ToSet(ms)
  BY <1>4, <1>6, <1>7
<1>11. ASSUME IsInjective(pool), IsInjective(ms), ToSet(pool) \cap ToSet(ms) = {}
       PROVE  IsInjective(back \o pool)
  BY <1>4, <1>6, <1>7, <1>11
<1> QED BY <1>7, <1>8, <1>9, <1>10, <1>11

\* The messages of the queue and their times
LEMMA QueueTypes ==
    ASSUME MqTypeOK
    PROVE  /\ Len(mMessages) \in Nat /\ DOMAIN mMessages = 1 .. Len(mMessages)
           /\ mMessages = <<>> <=> Len(mMessages) = 0
           /\ \A i \in 1 .. Len(mMessages) :
                 /\ mMessages[i] \in Messages /\ mMessages[i] \in ToSet(mMessages)
                 /\ When(i) \in Nat /\ IsBarrier(i) \in BOOLEAN /\ IsAsync(i) \in BOOLEAN
           /\ ToSet(mMessages) \subseteq Messages /\ ToSet(sPool) \subseteq Messages
<1>1. mMessages \in Seq(Messages) /\ sPool \in Seq(Messages) /\ msg \in [Messages -> MsgType]
  BY DEF MqTypeOK
<1>2. /\ Len(mMessages) \in Nat /\ DOMAIN mMessages = 1 .. Len(mMessages)
      /\ \A i \in 1 .. Len(mMessages) : mMessages[i] \in Messages /\ mMessages[i] \in ToSet(mMessages)
      /\ mMessages = <<>> <=> Len(mMessages) = 0
      /\ ToSet(mMessages) \subseteq Messages /\ ToSet(sPool) \subseteq Messages
  BY <1>1, LenProperties, EmptySeq, Elements
<1>3. \A i \in 1 .. Len(mMessages) : When(i) \in Nat /\ IsBarrier(i) \in BOOLEAN /\ IsAsync(i) \in BOOLEAN
  BY <1>1, <1>2 DEF When, IsBarrier, IsAsync, MsgType
<1> QED BY <1>2, <1>3

\* The least number of a set is what CHOOSE picks.
LEMMA LeastOf ==
    ASSUME NEW n \in Nat, NEW S \in SUBSET (1 .. n), S # {}, NEW c, c = CHOOSE i \in S : \A j \in S : i <= j
    PROVE  c \in S /\ \A j \in S : c <= j
<1>1. S \in SUBSET Nat
  OBVIOUS
<1>2. \E i \in S : \A j \in S : i <= j
  BY <1>1, LeastNumber
<1> QED BY <1>2

\* Where a message goes: behind those that are not later
LEMMA PlaceIs ==
    ASSUME MqTypeOK, NEW when \in Nat
    PROVE  /\ Place(when) \in 1 .. Len(mMessages) + 1
           /\ \A i \in 1 .. Place(when) - 1 : When(i) <= when
           /\ Place(when) <= Len(mMessages) => when <= When(Place(when))
           /\ Place(when) = 1 => NewHead(when)
           /\ ~NewHead(when) => Place(when) > 1 /\ mMessages # <<>>
<1>0. /\ Len(mMessages) \in Nat /\ DOMAIN mMessages = 1 .. Len(mMessages)
      /\ \A i \in 1 .. Len(mMessages) : When(i) \in Nat
      /\ mMessages = <<>> <=> Len(mMessages) = 0
  BY QueueTypes
<1>1. PICK later, p : later = {i \in 1 .. Len(mMessages) : When(i) > when} /\ p = Place(when)
  OBVIOUS
<1>2. CASE when = 0
  <2>1. p = 1
    BY <1>1, <1>2 DEF Place
  <2>2. \A i \in 1 .. p - 1 : FALSE
    BY <2>1
  <2> QED BY <1>0, <1>1, <1>2, <2>1, <2>2 DEF NewHead
<1>3. CASE when # 0 /\ later = {}
  <2>1. p = Len(mMessages) + 1
    BY <1>0, <1>1, <1>3 DEF Place
  <2>2. \A i \in 1 .. Len(mMessages) : When(i) <= when
    BY <1>0, <1>1, <1>3
  <2>3. \A i \in 1 .. p - 1 : i \in 1 .. Len(mMessages)
    BY <1>0, <2>1
  <2>4. p = 1 => mMessages = <<>>
    BY <1>0, <2>1
  <2>5. p \in 1 .. Len(mMessages) + 1 /\ ~(p <= Len(mMessages)) /\ (p > 1 \/ p = 1)
    BY <1>0, <2>1
  <2> QED BY <1>1, <2>2, <2>3, <2>4, <2>5 DEF NewHead
<1>4. CASE when # 0 /\ later # {}
  <2>1. p = CHOOSE i \in later : \A j \in later : i <= j
    BY <1>0, <1>1, <1>4 DEF Place
  <2>2. p \in later /\ \A j \in later : p <= j
    <3>1. later \in SUBSET (1 .. Len(mMessages))
      BY <1>1
    <3> QED BY <1>0, <1>4, <2>1, <3>1, LeastOf
  <2>3. p \in 1 .. Len(mMessages) /\ When(p) > when
    BY <1>1, <2>2
  <2>4. ASSUME NEW i \in 1 .. p - 1 PROVE When(i) <= when
    <3>1. i \in 1 .. Len(mMessages) /\ i < p
      BY <1>0, <2>3
    <3>2. i \notin later
      BY <1>0, <2>2, <2>3, <3>1
    <3> QED BY <1>0, <1>1, <3>1, <3>2
  <2>5. p \in 1 .. Len(mMessages) + 1 /\ when <= When(p) /\ (p > 1 \/ p = 1) /\ mMessages # <<>>
    BY <1>0, <2>3
  <2>6. p = 1 => when < When(1)
    BY <1>0, <2>3
  <2> QED BY <1>1, <2>4, <2>5, <2>6 DEF NewHead
<1> QED BY <1>2, <1>3, <1>4

\* The message next() looks at
LEMMA CandidateIs ==
    ASSUME MqTypeOK
    PROVE  /\ Candidate \in 0 .. Len(mMessages)
           /\ mMessages = <<>> => Candidate = 0
           /\ mMessages # <<>> /\ ~IsBarrier(1) => Candidate = 1
           /\ mMessages # <<>> /\ IsBarrier(1) =>
                 /\ Candidate = 0 => \A i \in 1 .. Len(mMessages) : ~IsAsync(i)
                 /\ Candidate # 0 => /\ IsAsync(Candidate)
                                     /\ \A i \in 1 .. Len(mMessages) : IsAsync(i) => Candidate <= i
<1>0. /\ Len(mMessages) \in Nat /\ DOMAIN mMessages = 1 .. Len(mMessages)
      /\ mMessages = <<>> <=> Len(mMessages) = 0
  BY QueueTypes
<1>1. PICK S : S = IF mMessages = <<>> THEN {}
                   ELSE IF IsBarrier(1) THEN {i \in 1 .. Len(mMessages) : IsAsync(i)} ELSE {1}
  OBVIOUS
<1>2. Candidate = IF S = {} THEN 0 ELSE CHOOSE i \in S : \A j \in S : i <= j
  BY <1>0, <1>1 DEF Candidate
<1>3. S \in SUBSET (1 .. Len(mMessages))
  BY <1>0, <1>1
<1>4. CASE S = {}
  BY <1>0, <1>1, <1>2, <1>4
<1>5. CASE S # {}
  <2>1. Candidate \in S /\ \A j \in S : Candidate <= j
    BY <1>0, <1>2, <1>3, <1>5, LeastOf
  <2>2. Candidate \in 1 .. Len(mMessages) /\ Candidate # 0
    BY <1>3, <2>1
  <2> QED BY <1>0, <1>1, <1>5, <2>1, <2>2
<1> QED BY <1>4, <1>5

\* What MessagesAccounted says, of any lists, fields and holders
Accounted(q, p, f, lm, held) ==
    LET where == ToSet(q \o p) \cup {lm}
    IN  /\ IsInjective(q \o p)
        /\ lm \notin ToSet(q \o p)
        /\ \A t \in Senders : held[t].m # NoMessage => held[t].m \notin where
        /\ \A s, t \in Senders : s # t /\ held[s].m # NoMessage => held[s].m # held[t].m
        /\ \A m \in ToSet(p) : f[m] = Blank
        /\ \A i \in 2 .. Len(q) : f[q[i - 1]].when <= f[q[i]].when

ByTime(q, f) == \A i, j \in 1 .. Len(q) : i < j => f[q[i]].when <= f[q[j]].when

Apart(q, p, lm, held) ==
    /\ IsInjective(q) /\ IsInjective(p) /\ ToSet(q) \cap ToSet(p) = {}
    /\ lm \notin ToSet(q) /\ lm \notin ToSet(p)
    /\ \A t \in Senders : held[t].m # NoMessage =>
          held[t].m \notin ToSet(q) /\ held[t].m \notin ToSet(p) /\ held[t].m # lm
    /\ \A s, t \in Senders : s # t /\ held[s].m # NoMessage => held[s].m # held[t].m

\* Neighbours in order are a list in order.
LEMMA OrderOfAll ==
    ASSUME NEW q \in Seq(Messages), NEW f \in [Messages -> MsgType]
    PROVE  (\A i \in 2 .. Len(q) : f[q[i - 1]].when <= f[q[i]].when) <=> ByTime(q, f)
<1>1. Len(q) \in Nat /\ \A i \in 1 .. Len(q) : q[i] \in Messages /\ f[q[i]].when \in Nat
  BY LenProperties DEF MsgType
<1>2. ASSUME ByTime(q, f), NEW i \in 2 .. Len(q) PROVE f[q[i - 1]].when <= f[q[i]].when
  <2>1. i - 1 \in 1 .. Len(q) /\ i \in 1 .. Len(q) /\ i - 1 < i
    BY <1>1
  <2> QED BY <1>2, <2>1 DEF ByTime
<1>3. ASSUME \A i \in 2 .. Len(q) : f[q[i - 1]].when <= f[q[i]].when
      PROVE  ByTime(q, f)
  <2> DEFINE P == {n \in Nat : \A i, j \in 1 .. Len(q) : i < j /\ j <= i + n => f[q[i]].when <= f[q[j]].when}
  <2>1. 0 \in P
    BY <1>1
  <2>2. ASSUME NEW n \in Nat, n \in P PROVE n + 1 \in P
    <3> SUFFICES ASSUME NEW i \in 1 .. Len(q), NEW j \in 1 .. Len(q), i < j, j <= i + (n + 1)
                 PROVE  f[q[i]].when <= f[q[j]].when
      OBVIOUS
    <3>1. j \in 2 .. Len(q) /\ j - 1 \in 1 .. Len(q)
      BY <1>1
    <3>2. f[q[j - 1]].when <= f[q[j]].when
      BY <1>3, <3>1
    <3>3. CASE i = j - 1
      BY <3>2, <3>3
    <3>4. CASE i # j - 1
      <4>1. i < j - 1 /\ j - 1 <= i + n
        BY <1>1, <3>1, <3>4
      <4>2. f[q[i]].when <= f[q[j - 1]].when
        BY <2>2, <3>1, <4>1
      <4>3. f[q[i]].when \in Nat /\ f[q[j - 1]].when \in Nat /\ f[q[j]].when \in Nat
        BY <1>1, <3>1
      <4> QED BY <3>2, <4>2, <4>3
    <3> QED BY <3>3, <3>4
  <2>3. P = Nat
    <3> HIDE DEF P
    <3>1. P \in SUBSET Nat
      BY DEF P
    <3> QED BY <2>1, <2>2, <3>1, AllNumbers
  <2>4. ASSUME NEW i \in 1 .. Len(q), NEW j \in 1 .. Len(q), i < j
        PROVE  f[q[i]].when <= f[q[j]].when
    <3>1. Len(q) \in P
      <4> HIDE DEF P
      <4> QED BY <1>1, <2>3
    <3>2. j <= i + Len(q)
      BY <1>1
    <3> QED BY <2>4, <3>1, <3>2
  <2> QED BY <2>4 DEF ByTime
<1> QED BY <1>2, <1>3

\* What it means that messages are accounted for, part by part
LEMMA AccountedAre ==
    ASSUME NEW q \in Seq(Messages), NEW p \in Seq(Messages), NEW f \in [Messages -> MsgType],
           NEW lm, NEW held
    PROVE  Accounted(q, p, f, lm, held) <=>
              Apart(q, p, lm, held) /\ (\A m \in ToSet(p) : f[m] = Blank) /\ ByTime(q, f)
<1>1. /\ ToSet(q \o p) = ToSet(q) \cup ToSet(p)
      /\ IsInjective(q \o p) <=> IsInjective(q) /\ IsInjective(p) /\ ToSet(q) \cap ToSet(p) = {}
  BY TwoLists
<1>2. (\A i \in 2 .. Len(q) : f[q[i - 1]].when <= f[q[i]].when) <=> ByTime(q, f)
  BY OrderOfAll
<1>3. PICK u, v, w : u = ToSet(q) /\ v = ToSet(p) /\ w = ToSet(q \o p)
  OBVIOUS
<1> QED BY <1>1, <1>2, <1>3 DEF Accounted, Apart

\* The same of the present state
LEMMA AccountedNow ==
    ASSUME MqTypeOK
    PROVE  MessagesAccounted <=>
              /\ Apart(mMessages, sPool, looper.m, sender)
              /\ \A m \in ToSet(sPool) : msg[m] = Blank
              /\ ByTime(mMessages, msg)
<1>1. PICK q, p, f, lm, held : q = mMessages /\ p = sPool /\ f = msg /\ lm = looper.m /\ held = sender
  OBVIOUS
<1>2. q \in Seq(Messages) /\ p \in Seq(Messages) /\ f \in [Messages -> MsgType]
  BY <1>1 DEF MqTypeOK
<1>3. MessagesAccounted <=> Accounted(q, p, f, lm, held)
  BY <1>1 DEF MessagesAccounted, Accounted, When
<1>4. Accounted(q, p, f, lm, held) <=>
              Apart(q, p, lm, held) /\ (\A m \in ToSet(p) : f[m] = Blank) /\ ByTime(q, f)
  BY <1>2, AccountedAre
<1> QED BY <1>1, <1>3, <1>4

\* The same of the next state
LEMMA AccountedNext ==
    ASSUME MqTypeOK'
    PROVE  MessagesAccounted' <=>
              /\ Apart(mMessages', sPool', looper'.m, sender')
              /\ \A m \in ToSet(sPool') : msg'[m] = Blank
              /\ ByTime(mMessages', msg')
<1>1. PICK q, p, f, lm, held : q = mMessages' /\ p = sPool' /\ f = msg' /\ lm = looper'.m /\ held = sender'
  OBVIOUS
<1>2. q \in Seq(Messages) /\ p \in Seq(Messages) /\ f \in [Messages -> MsgType]
  BY <1>1 DEF MqTypeOK
<1>3. MessagesAccounted' <=> Accounted(q, p, f, lm, held)
  BY <1>1 DEF MessagesAccounted, Accounted, When
<1>4. Accounted(q, p, f, lm, held) <=>
              Apart(q, p, lm, held) /\ (\A m \in ToSet(p) : f[m] = Blank) /\ ByTime(q, f)
  BY <1>2, AccountedAre
<1> QED BY <1>1, <1>3, <1>4

-----------------------------------------------------------------------------
(* Types *)

\* What a new message is
LEMMA ObtainIs ==
    ASSUME MqTypeOK, HoldersSound, MessagesAccounted, CanObtain
    PROVE  /\ obtain \in Messages /\ obtain # NoMessage
           /\ obtain \notin ToSet(mMessages) /\ obtain # looper.m
           /\ \A t \in Senders : sender[t].m # obtain
           /\ PoolAfterObtain \in Seq(Messages) /\ Len(PoolAfterObtain) <= MAX_POOL_SIZE
           /\ IsInjective(PoolAfterObtain) /\ obtain \notin ToSet(PoolAfterObtain)
           /\ ToSet(PoolAfterObtain) \subseteq ToSet(sPool)
<1>0. /\ mMessages \in Seq(Messages) /\ sPool \in Seq(Messages) /\ Len(sPool) <= MAX_POOL_SIZE
      /\ Apart(mMessages, sPool, looper.m, sender)
  BY AccountedNow DEF MqTypeOK, HoldersSound
<1>1. CASE sPool # <<>>
  <2>1. /\ Head(sPool) \in Messages /\ Tail(sPool) \in Seq(Messages)
        /\ ToSet(sPool) = ToSet(Tail(sPool)) \cup {Head(sPool)}
        /\ IsInjective(sPool) <=> IsInjective(Tail(sPool)) /\ Head(sPool) \notin ToSet(Tail(sPool))
    BY <1>0, <1>1, PopOne
  <2>2. Len(Tail(sPool)) <= MAX_POOL_SIZE
    <3>1. Len(Tail(sPool)) = Len(sPool) - 1 /\ Len(sPool) \in Nat
      BY <1>0, <1>1, HeadTailProperties, LenProperties
    <3> QED BY <1>0, <3>1, MqAssumption
  <2>3. obtain = Head(sPool) /\ PoolAfterObtain = Tail(sPool)
    BY <1>1 DEF obtain, PoolAfterObtain
  <2>4. PICK x, p : x = Head(sPool) /\ p = Tail(sPool)
    OBVIOUS
  <2>5. x \in ToSet(sPool) /\ x # NoMessage
    BY <2>1, <2>4, MqAssumption
  <2> QED BY <1>0, <2>1, <2>2, <2>3, <2>4, <2>5 DEF Apart
<1>2. CASE sPool = <<>>
  <2>1. \E m \in Messages : m \notin Reachable
    BY <1>2 DEF CanObtain
  <2>2. obtain = CHOOSE m \in Messages : m \notin Reachable
    BY <1>2 DEF obtain
  <2>3. obtain \in Messages /\ obtain \notin Reachable
    BY <2>1, <2>2
  <2>4. PoolAfterObtain = sPool
    BY <1>2 DEF PoolAfterObtain
  <2>5. PICK x : x = obtain
    OBVIOUS
  <2>6. x # NoMessage /\ x \notin ToSet(mMessages) /\ x \notin ToSet(sPool) /\ x # looper.m
    BY <2>3, <2>5, MqAssumption DEF Reachable
  <2>7. \A t \in Senders : sender[t].m # x
    BY <2>3, <2>5 DEF Reachable
  <2> QED BY <1>0, <2>3, <2>4, <2>5, <2>6, <2>7 DEF Apart
<1> QED BY <1>1, <1>2

\* Messages that are recycled are blank, the others stay.
LEMMA ClearedType ==
    ASSUME MqTypeOK, NEW ms \in Seq(Messages)
    PROVE  /\ Cleared(ms) \in [Messages -> MsgType]
           /\ \A m \in Messages : Cleared(ms)[m] = IF m \in ToSet(ms) THEN Blank ELSE msg[m]
<1>1. Blank \in MsgType
  BY DEF Blank, MsgType
<1>2. PICK u : u = ToSet(ms)
  OBVIOUS
<1> QED BY <1>1, <1>2 DEF Cleared, MqTypeOK

\* The list of idle handlers
LEMMA IdleList ==
    ASSUME MqTypeOK
    PROVE  /\ Cardinality(mIdleHandlers) \in Nat
           /\ SetToSeq(mIdleHandlers) \in Seq(IdleHandlers)
<1>1. IsFiniteSet(mIdleHandlers)
  BY FS_Subset, MqAssumption DEF MqTypeOK
<1>2. Cardinality(mIdleHandlers) \in Nat /\ ExistsBijection(1 .. Cardinality(mIdleHandlers), mIdleHandlers)
  BY <1>1, FS_CardinalityType
<1>3. \E f \in [1 .. Cardinality(mIdleHandlers) -> mIdleHandlers] : IsInjective(f)
  BY <1>2 DEF ExistsBijection, Bijection, Injection
<1>4. SetToSeq(mIdleHandlers) \in [1 .. Cardinality(mIdleHandlers) -> mIdleHandlers]
  BY <1>3 DEF SetToSeq
<1>5. SetToSeq(mIdleHandlers) \in [1 .. Cardinality(mIdleHandlers) -> IdleHandlers]
  BY <1>4 DEF MqTypeOK
<1> QED BY <1>2, <1>5, IsASeq

\* The invariant holds before the first message.
LEMMA MqInitInv == MqInit => MqInv
<1> SUFFICES ASSUME MqInit PROVE MqInv
  OBVIOUS
<1>1. MqTypeOK
  <2>1. <<>> \in Seq(Messages) /\ <<>> \in Seq(IdleHandlers)
    BY EmptySeq
  <2>2. looper \in LooperType
    BY <2>1 DEF MqInit, EnterNext, LooperType
  <2>3. sender \in [Senders -> SenderType]
    BY DEF MqInit, SenderType
  <2>4. msg \in [Messages -> MsgType]
    BY DEF MqInit, Blank, MsgType
  <2>5. mMessages \in Seq(Messages) /\ sPool \in Seq(Messages)
    BY <2>1 DEF MqInit
  <2>6. /\ mBlocked \in BOOLEAN /\ mQuitting \in BOOLEAN /\ awake \in BOOLEAN
        /\ mIdleHandlers \subseteq IdleHandlers
    BY Zenon DEF MqInit
  <2>7. uptime \in Nat \ {0} /\ sends \in Nat
    BY DEF MqInit
  <2> QED BY <2>2, <2>3, <2>4, <2>5, <2>6, <2>7 DEF MqTypeOK
<1>2. ToSet(<<>>) = {} /\ IsInjective(<<>>) /\ Len(<<>>) = 0
  BY EmptyList, EmptySeq
<1>3. HoldersSound
  BY <1>2, MqAssumption DEF MqInit, EnterNext, HoldersSound
<1>4. MessagesAccounted
  <2>1. Apart(mMessages, sPool, looper.m, sender)
    BY <1>2 DEF MqInit, EnterNext, Apart
  <2>2. \A m \in ToSet(sPool) : msg[m] = Blank
    BY <1>2 DEF MqInit
  <2>3. ByTime(mMessages, msg)
    BY <1>2 DEF MqInit, ByTime
  <2> QED BY <1>1, <2>1, <2>2, <2>3, AccountedNow
<1>5. PollSound
  BY DEF MqInit, EnterNext, PollSound, Forever
<1>6. NoMissedWake
  <2>1. Candidate = 0
    BY <1>1, CandidateIs DEF MqInit
  <2> QED BY <2>1 DEF MqInit, EnterNext, NoMissedWake, Forever
<1>7. TasksSound
  BY MqAssumption DEF MqInit, Blank, TasksSound
<1> QED BY <1>1, <1>3, <1>4, <1>5, <1>6, <1>7 DEF MqInv

-----------------------------------------------------------------------------
(* Where they are *)

MqLists == MqTypeOK /\ HoldersSound /\ MessagesAccounted

\* A message joins the queue.
LEMMA InsertOnce ==
    ASSUME MqTypeOK, NEW k \in 1 .. Len(mMessages) + 1, NEW m \in Messages
    PROVE  /\ Len(InsertAt(mMessages, k, m)) = Len(mMessages) + 1
           /\ \A i \in 1 .. k - 1 : InsertAt(mMessages, k, m)[i] = mMessages[i]
           /\ InsertAt(mMessages, k, m)[k] = m
           /\ \A i \in k + 1 .. Len(mMessages) + 1 : InsertAt(mMessages, k, m)[i] = mMessages[i - 1]
<1>1. mMessages \in Seq(Messages)
  BY DEF MqTypeOK
<1> QED BY <1>1, InsertOne

\* A message that is put in its place leaves the queue in the order of time.
LEMMA InsertInOrder ==
    ASSUME MqTypeOK, ByTime(mMessages, msg), NEW when \in Nat, NEW m \in Messages,
           m \notin ToSet(mMessages), NEW f \in [Messages -> MsgType], f[m].when = when,
           \A x \in Messages : x # m => f[x] = msg[x]
    PROVE  ByTime(InsertAt(mMessages, Place(when), m), f)
<1>0. mMessages \in Seq(Messages) /\ Len(mMessages) \in Nat
      /\ \A i \in 1 .. Len(mMessages) : mMessages[i] \in Messages /\ mMessages[i] \in ToSet(mMessages) /\ When(i) \in Nat
  BY QueueTypes DEF MqTypeOK
<1>1. PICK q, n, k : q = mMessages /\ n = Len(mMessages) /\ k = Place(when)
  OBVIOUS
<1>2. /\ k \in 1 .. n + 1
      /\ \A i \in 1 .. k - 1 : When(i) <= when
      /\ k <= n => when <= When(k)
  BY <1>1, PlaceIs
<1>3. PICK t : t = InsertAt(q, k, m)
  OBVIOUS
<1>4. /\ Len(t) = n + 1
      /\ \A i \in 1 .. k - 1 : t[i] = q[i]
      /\ t[k] = m
      /\ \A i \in k + 1 .. n + 1 : t[i] = q[i - 1]
  <2>1. k \in 1 .. Len(mMessages) + 1
    BY <1>1, <1>2
  <2> QED BY <1>1, <1>3, <2>1, InsertOnce
<1>5. \A i \in 1 .. n : f[q[i]].when = When(i) /\ When(i) \in Nat
  BY <1>0, <1>1 DEF When
<1>6. \A i, j \in 1 .. n : i < j => When(i) <= When(j)
  BY <1>1 DEF ByTime, When
<1>7. ASSUME NEW i \in 1 .. n + 1, NEW j \in 1 .. n + 1, i < j
      PROVE  f[t[i]].when <= f[t[j]].when
  <2>0. n \in Nat /\ k \in Nat
    BY <1>0, <1>1, <1>2
  <2>1. CASE j < k
    <3>1. i \in 1 .. k - 1 /\ j \in 1 .. k - 1 /\ i \in 1 .. n /\ j \in 1 .. n
      BY <1>2, <1>7, <2>0, <2>1
    <3> QED BY <1>4, <1>5, <1>6, <1>7, <3>1
  <2>2. CASE j = k
    <3>1. i \in 1 .. k - 1 /\ i \in 1 .. n
      BY <1>2, <1>7, <2>0, <2>2
    <3> QED BY <1>2, <1>4, <1>5, <2>2, <3>1
  <2>3. CASE i < k /\ k < j
    <3>1. i \in 1 .. k - 1 /\ i \in 1 .. n /\ j \in k + 1 .. n + 1 /\ j - 1 \in 1 .. n /\ i < j - 1
      BY <1>2, <1>7, <2>0, <2>3
    <3> QED BY <1>4, <1>5, <1>6, <3>1
  <2>4. CASE i = k
    <3>1. j \in k + 1 .. n + 1 /\ j - 1 \in 1 .. n /\ k \in 1 .. n /\ (k = j - 1 \/ k < j - 1)
      BY <1>2, <1>7, <2>0, <2>4
    <3>2. when <= When(k) /\ When(k) <= When(j - 1)
      BY <1>2, <1>5, <1>6, <3>1
    <3>3. When(k) \in Nat /\ When(j - 1) \in Nat /\ f[t[j]].when = When(j - 1) /\ f[t[i]].when = when
      BY <1>4, <1>5, <2>4, <3>1
    <3> QED BY <3>2, <3>3
  <2>5. CASE k < i
    <3>1. /\ i \in k + 1 .. n + 1 /\ j \in k + 1 .. n + 1
          /\ i - 1 \in 1 .. n /\ j - 1 \in 1 .. n /\ i - 1 < j - 1
      BY <1>2, <1>7, <2>0, <2>5
    <3> QED BY <1>4, <1>5, <1>6, <3>1
  <2> QED BY <1>7, <2>0, <2>1, <2>2, <2>3, <2>4, <2>5
<1> QED BY <1>1, <1>3, <1>4, <1>7 DEF ByTime

\* Message.obtain keeps messages accounted for.
LEMMA ObtainLists ==
    ASSUME MqLists, NEW t \in Senders, Obtain(t) PROVE MqLists'
<1> USE DEF Obtain
<1>1. MqTypeOK /\ HoldersSound /\ MessagesAccounted
  BY DEF MqLists
<1>2. PICK x : x = obtain
  OBVIOUS
<1>3. PICK p : p = PoolAfterObtain
  OBVIOUS
<1>4. /\ x \in Messages /\ x # NoMessage
      /\ x \notin ToSet(mMessages) /\ x # looper.m
      /\ \A s \in Senders : sender[s].m # x
      /\ p \in Seq(Messages) /\ Len(p) <= MAX_POOL_SIZE
      /\ IsInjective(p) /\ x \notin ToSet(p)
      /\ ToSet(p) \subseteq ToSet(sPool)
  BY <1>1, <1>2, <1>3, ObtainIs
<1>5. /\ sender' = [sender EXCEPT ![t] = [pc |-> "holds", m |-> x]] /\ sPool' = p
      /\ sender \in [Senders -> SenderType]
  BY <1>1, <1>2, <1>3 DEF MqTypeOK
<1>6. sender' \in [Senders -> SenderType]
  <2>1. [pc |-> "holds", m |-> x] \in SenderType
    BY <1>4 DEF SenderType
  <2> QED BY <1>5, <2>1
<1>7. MqTypeOK'
  <2>1. sends' \in Nat
    BY <1>1 DEF MqTypeOK
  <2> QED BY <1>1, <1>4, <1>5, <1>6, <2>1 DEF MqTypeOK
<1>8. HoldersSound'
  BY <1>1, <1>4, <1>5 DEF HoldersSound
<1>9. Apart(mMessages', sPool', looper'.m, sender')
  <2>1. Apart(mMessages, sPool, looper.m, sender)
    BY <1>1, AccountedNow
  <2> QED BY <1>4, <1>5, <2>1 DEF Apart
<1>10. (\A m \in ToSet(sPool') : msg'[m] = Blank) /\ ByTime(mMessages', msg')
  <2>1. (\A m \in ToSet(sPool) : msg[m] = Blank) /\ ByTime(mMessages, msg)
    BY <1>1, AccountedNow
  <2> QED BY <1>4, <1>5, <2>1 DEF ByTime
<1> QED BY <1>7, <1>8, <1>9, <1>10, AccountedNext DEF MqLists

\* enqueueMessage keeps messages accounted for.
LEMMA EnqueueLists ==
    ASSUME MqLists, NEW t \in Senders, NEW when \in Nat, NEW async \in BOOLEAN, NEW task \in BOOLEAN,
           enqueueMessage(t, when, async, task)
    PROVE  MqLists'
<1> USE DEF enqueueMessage
<1>1. MqTypeOK /\ HoldersSound /\ MessagesAccounted
  BY DEF MqLists
<1>2. PICK x : x = sender[t].m
  OBVIOUS
<1>3. PICK r : r = [when |-> when, barrier |-> FALSE, async |-> async, task |-> IF task THEN t ELSE Nobody]
  OBVIOUS
<1>4. PICK y : y = [pc |-> IF task THEN "waits" ELSE "idle", m |-> NoMessage]
  OBVIOUS
<1>5. /\ msg' = [msg EXCEPT ![x] = r] /\ mMessages' = InsertAt(mMessages, Place(when), x)
      /\ sender' = [sender EXCEPT ![t] = y]
  BY <1>2, <1>3, <1>4
<1>6. r \in MsgType /\ r.when = when
  BY <1>3 DEF MsgType
<1>7. y \in SenderType /\ y.m = NoMessage /\ y.pc # "holds"
  BY <1>4 DEF SenderType
<1>8. /\ mMessages \in Seq(Messages) /\ msg \in [Messages -> MsgType] /\ sender \in [Senders -> SenderType]
      /\ sPool \in Seq(Messages)
  BY <1>1 DEF MqTypeOK
<1>9. /\ Apart(mMessages, sPool, looper.m, sender)
      /\ \A m \in ToSet(sPool) : msg[m] = Blank
      /\ ByTime(mMessages, msg)
  BY <1>1, AccountedNow
<1>10. /\ x \in Messages /\ x # NoMessage /\ x \notin ToSet(mMessages) /\ x \notin ToSet(sPool)
       /\ x # looper.m /\ \A s \in Senders : s # t => sender[s].m # x
  <2>1. x # NoMessage
    BY <1>1, <1>2 DEF HoldersSound
  <2>2. x \in Messages
    BY <1>2, <1>8, <2>1 DEF SenderType
  <2> QED BY <1>2, <1>9, <2>1, <2>2 DEF Apart
<1>11. Place(when) \in 1 .. Len(mMessages) + 1
  BY <1>1, PlaceIs
<1>12. /\ mMessages' \in Seq(Messages)
       /\ ToSet(mMessages') = ToSet(mMessages) \cup {x}
       /\ IsInjective(mMessages') <=> IsInjective(mMessages) /\ x \notin ToSet(mMessages)
  <2>1. PICK k : k = Place(when)
    OBVIOUS
  <2>2. k \in 1 .. Len(mMessages) + 1 /\ mMessages' = InsertAt(mMessages, k, x)
    BY <1>5, <1>11, <2>1
  <2> QED BY <1>8, <1>10, <2>2, InsertOne
<1>13. msg' \in [Messages -> MsgType] /\ msg'[x].when = when /\ \A m \in Messages : m # x => msg'[m] = msg[m]
  <2>1. msg'[x] = r /\ \A m \in Messages : m # x => msg'[m] = msg[m]
    BY <1>5, <1>8, <1>10
  <2>2. msg' \in [Messages -> MsgType]
    BY <1>5, <1>6, <1>8
  <2> QED BY <1>6, <2>1, <2>2
<1>14. MqTypeOK'
  <2>1. awake' \in BOOLEAN
    BY Zenon
  <2>2. sender' \in [Senders -> SenderType]
    BY <1>5, <1>7, <1>8
  <2> QED BY <1>1, <1>12, <1>13, <2>1, <2>2 DEF MqTypeOK
<1>15. HoldersSound'
  <2>1. \A m \in Messages : m \in ToSet(mMessages') \/ m = looper'.m \/ msg'[m] = Blank
    BY <1>1, <1>12, <1>13 DEF HoldersSound
  <2> QED BY <1>1, <1>5, <1>7, <1>8, <2>1 DEF HoldersSound
<1>16. Apart(mMessages', sPool', looper'.m, sender')
  BY <1>5, <1>7, <1>8, <1>9, <1>10, <1>12 DEF Apart
<1>17. \A m \in ToSet(sPool') : msg'[m] = Blank
  <2>1. ToSet(sPool) \subseteq Messages
    BY <1>8, Elements
  <2> QED BY <1>9, <1>10, <1>13, <2>1
<1>18. ByTime(mMessages', msg')
  <2>1. PICK f : f = msg'
    OBVIOUS
  <2>2. /\ f \in [Messages -> MsgType] /\ f[x].when = when
        /\ \A m \in Messages : m # x => f[m] = msg[m]
    BY <1>13, <2>1
  <2>3. x \in Messages /\ x \notin ToSet(mMessages) /\ ByTime(mMessages, msg)
    BY <1>9, <1>10
  <2>4. ByTime(InsertAt(mMessages, Place(when), x), f)
    BY <1>1, <2>2, <2>3, InsertInOrder
  <2> QED BY <1>5, <2>1, <2>4
<1> QED BY <1>14, <1>15, <1>16, <1>17, <1>18, AccountedNext DEF MqLists

\* recycleUnchecked puts a message into the pool, unless that is full.
LEMMA RecycleOne ==
    ASSUME MqLists, NEW x \in Messages, x \notin ToSet(sPool), NEW p, p = recycleUnchecked(sPool, <<x>>)
    PROVE  /\ p \in Seq(Messages) /\ Len(p) <= MAX_POOL_SIZE /\ IsInjective(p)
           /\ ToSet(p) \subseteq ToSet(sPool) \cup {x}
<1>1. MqTypeOK /\ HoldersSound /\ MessagesAccounted
  BY DEF MqLists
<1>2. sPool \in Seq(Messages) /\ Len(sPool) <= MAX_POOL_SIZE /\ IsInjective(sPool)
  BY <1>1, AccountedNow DEF MqTypeOK, HoldersSound, Apart
<1>3. PICK ms : ms = <<x>>
  OBVIOUS
<1>4. ms \in Seq(Messages) /\ ToSet(ms) = {x} /\ IsInjective(ms)
  BY <1>3, OneElement
<1>5. /\ recycleUnchecked(sPool, ms) \in Seq(Messages)
      /\ Len(recycleUnchecked(sPool, ms)) <= MAX_POOL_SIZE
      /\ ToSet(recycleUnchecked(sPool, ms)) \subseteq ToSet(sPool) \cup ToSet(ms)
      /\ IsInjective(sPool) /\ IsInjective(ms) /\ ToSet(sPool) \cap ToSet(ms) = {} =>
            IsInjective(recycleUnchecked(sPool, ms))
  BY <1>2, <1>4, PoolKeeps
<1> QED BY <1>2, <1>3, <1>4, <1>5

\* enqueueMessage on a queue that quit recycles the message.
LEMMA DeadLists ==
    ASSUME MqLists, NEW t \in Senders, enqueueOnDeadThread(t) PROVE MqLists'
<1> USE DEF enqueueOnDeadThread
<1>1. MqTypeOK /\ HoldersSound /\ MessagesAccounted
  BY DEF MqLists
<1>2. PICK x, p : x = sender[t].m /\ p = recycleUnchecked(sPool, <<x>>)
  OBVIOUS
<1>3. PICK y : y = [pc |-> "idle", m |-> NoMessage]
  OBVIOUS
<1>4. sPool' = p /\ sender' = [sender EXCEPT ![t] = y]
  BY <1>2, <1>3
<1>5. y \in SenderType /\ y.m = NoMessage /\ y.pc # "holds"
  BY <1>3 DEF SenderType
<1>6. /\ mMessages \in Seq(Messages) /\ sender \in [Senders -> SenderType] /\ sPool \in Seq(Messages)
  BY <1>1 DEF MqTypeOK
<1>7. /\ Apart(mMessages, sPool, looper.m, sender)
      /\ \A m \in ToSet(sPool) : msg[m] = Blank
      /\ ByTime(mMessages, msg)
  BY <1>1, AccountedNow
<1>8. /\ x \in Messages /\ x # NoMessage /\ x \notin ToSet(mMessages) /\ x \notin ToSet(sPool)
       /\ x # looper.m /\ \A s \in Senders : s # t => sender[s].m # x
  <2>1. x # NoMessage
    BY <1>1, <1>2 DEF HoldersSound
  <2>2. x \in Messages
    BY <1>2, <1>6, <2>1 DEF SenderType
  <2> QED BY <1>2, <1>7, <2>1, <2>2 DEF Apart
<1>9. /\ p \in Seq(Messages) /\ Len(p) <= MAX_POOL_SIZE /\ IsInjective(p)
      /\ ToSet(p) \subseteq ToSet(sPool) \cup {x}
  BY <1>2, <1>8, RecycleOne
<1>10. sender' \in [Senders -> SenderType]
  BY <1>4, <1>5, <1>6
<1>11. MqTypeOK'
  BY <1>1, <1>4, <1>9, <1>10 DEF MqTypeOK
<1>12. HoldersSound'
  BY <1>1, <1>4, <1>5, <1>6, <1>9 DEF HoldersSound
<1>13. msg[x] = Blank
  BY <1>1, <1>8 DEF HoldersSound
<1>14. Apart(mMessages', sPool', looper'.m, sender')
  <2>1. /\ ToSet(sPool') \subseteq ToSet(sPool) \cup {x} /\ IsInjective(sPool')
        /\ mMessages' = mMessages /\ looper' = looper
    BY <1>4, <1>9
  <2>2. sender'[t].m = NoMessage /\ \A s \in Senders : s # t => sender'[s].m = sender[s].m
    BY <1>4, <1>5, <1>6
  <2> QED BY <1>7, <1>8, <2>1, <2>2 DEF Apart
<1>15. (\A m \in ToSet(sPool') : msg'[m] = Blank) /\ ByTime(mMessages', msg')
  BY <1>4, <1>7, <1>9, <1>13 DEF ByTime
<1> QED BY <1>11, <1>12, <1>14, <1>15, AccountedNext DEF MqLists

\* runWithScissors ends without touching a message.
LEMMA ScissorsLists ==
    ASSUME MqLists, NEW t \in Senders, ScissorsDone(t) \/ ScissorsTimeout(t) PROVE MqLists'
<1>1. MqTypeOK /\ HoldersSound /\ MessagesAccounted
  BY DEF MqLists
<1>2. PICK y : y = [sender[t] EXCEPT !.pc = "idle"]
  OBVIOUS
<1>3. /\ sender' = [sender EXCEPT ![t] = y] /\ sender[t].pc # "holds"
      /\ UNCHANGED <<mMessages, sPool, mBlocked, mQuitting, mIdleHandlers, awake, looper, uptime, sends>>
  BY <1>2 DEF ScissorsDone, ScissorsTimeout
<1>4. sender \in [Senders -> SenderType] /\ msg \in [Messages -> MsgType] /\ mMessages \in Seq(Messages)
      /\ sPool \in Seq(Messages)
  BY <1>1 DEF MqTypeOK
<1>5. y \in SenderType /\ y.pc = "idle" /\ y.m = sender[t].m
  BY <1>2, <1>4 DEF SenderType
<1>6. /\ msg' \in [Messages -> MsgType]
      /\ \A m \in Messages : msg'[m].when = msg[m].when /\ (msg[m] = Blank => msg'[m] = Blank)
  <2>1. CASE ScissorsDone(t)
    BY <1>4, <2>1 DEF ScissorsDone
  <2>2. CASE ScissorsTimeout(t)
    <3>1. msg' = [m \in Messages |-> IF msg[m].task = t THEN [msg[m] EXCEPT !.task = Nobody] ELSE msg[m]]
      BY <2>2 DEF ScissorsTimeout
    <3>2. \A m \in Messages : /\ [msg[m] EXCEPT !.task = Nobody] \in MsgType
                              /\ [msg[m] EXCEPT !.task = Nobody].when = msg[m].when
      BY <1>4 DEF MsgType
    <3>3. Blank.task # t
      BY MqAssumption DEF Blank
    <3> QED BY <1>4, <3>1, <3>2, <3>3
  <2> QED BY <2>1, <2>2
<1>7. MqTypeOK'
  <2>1. sender' \in [Senders -> SenderType]
    BY <1>3, <1>4, <1>5
  <2> QED BY <1>1, <1>3, <1>6, <2>1 DEF MqTypeOK
<1>8. HoldersSound'
  BY <1>1, <1>3, <1>4, <1>5, <1>6 DEF HoldersSound
<1>9. /\ Apart(mMessages, sPool, looper.m, sender)
      /\ \A m \in ToSet(sPool) : msg[m] = Blank
      /\ ByTime(mMessages, msg)
  BY <1>1, AccountedNow
<1>10. Apart(mMessages', sPool', looper'.m, sender')
  <2>1. \A s \in Senders : sender'[s].m = sender[s].m
    BY <1>3, <1>4, <1>5
  <2> QED BY <1>3, <1>9, <2>1 DEF Apart
<1>11. \A m \in ToSet(sPool') : msg'[m] = Blank
  BY <1>3, <1>4, <1>6, <1>9, Elements
<1>12. ByTime(mMessages', msg')
  BY <1>3, <1>4, <1>6, <1>9, LenProperties DEF ByTime
<1> QED BY <1>7, <1>8, <1>10, <1>11, <1>12, AccountedNext DEF MqLists

\* postSyncBarrier keeps messages accounted for.
LEMMA PostBarrierLists ==
    ASSUME MqLists, NEW when \in Nat, postSyncBarrier(when) PROVE MqLists'
<1> USE DEF postSyncBarrier
<1>1. MqTypeOK /\ HoldersSound /\ MessagesAccounted
  BY DEF MqLists
<1>2. PICK x, p : x = obtain /\ p = PoolAfterObtain
  OBVIOUS
<1>3. PICK r : r = [Blank EXCEPT !.when = when, !.barrier = TRUE]
  OBVIOUS
<1>4. /\ msg' = [msg EXCEPT ![x] = r] /\ mMessages' = InsertAt(mMessages, Place(when), x) /\ sPool' = p
      /\ UNCHANGED <<mBlocked, mQuitting, mIdleHandlers, awake, looper, sender, uptime>>
  BY <1>2, <1>3
<1>5. r \in MsgType /\ r.when = when
  BY <1>3 DEF MsgType, Blank
<1>6. /\ x \in Messages /\ x # NoMessage
      /\ x \notin ToSet(mMessages) /\ x # looper.m
      /\ \A s \in Senders : sender[s].m # x
      /\ p \in Seq(Messages) /\ Len(p) <= MAX_POOL_SIZE
      /\ IsInjective(p) /\ x \notin ToSet(p)
      /\ ToSet(p) \subseteq ToSet(sPool)
  BY <1>1, <1>2, ObtainIs
<1>7. /\ mMessages \in Seq(Messages) /\ msg \in [Messages -> MsgType] /\ sender \in [Senders -> SenderType]
      /\ sPool \in Seq(Messages)
  BY <1>1 DEF MqTypeOK
<1>8. /\ Apart(mMessages, sPool, looper.m, sender)
      /\ \A m \in ToSet(sPool) : msg[m] = Blank
      /\ ByTime(mMessages, msg)
  BY <1>1, AccountedNow
<1>9. /\ mMessages' \in Seq(Messages)
      /\ ToSet(mMessages') = ToSet(mMessages) \cup {x}
      /\ IsInjective(mMessages') <=> IsInjective(mMessages) /\ x \notin ToSet(mMessages)
  <2>1. PICK k \in 1 .. Len(mMessages) + 1 : k = Place(when)
    BY <1>1, PlaceIs
  <2>2. mMessages' = InsertAt(mMessages, k, x)
    BY <1>4, <2>1
  <2> QED BY <1>6, <1>7, <2>2, InsertOne
<1>10. msg' \in [Messages -> MsgType] /\ msg'[x].when = when /\ \A m \in Messages : m # x => msg'[m] = msg[m]
  <2>1. msg'[x] = r /\ \A m \in Messages : m # x => msg'[m] = msg[m]
    BY <1>4, <1>6, <1>7
  <2>2. msg' \in [Messages -> MsgType]
    BY <1>4, <1>5, <1>7
  <2> QED BY <1>5, <2>1, <2>2
<1>11. MqTypeOK'
  <2>1. sends' \in Nat
    BY <1>1 DEF MqTypeOK
  <2> QED BY <1>1, <1>4, <1>6, <1>9, <1>10, <2>1 DEF MqTypeOK
<1>12. HoldersSound'
  <2>1. \A m \in Messages : m \in ToSet(mMessages') \/ m = looper'.m \/ msg'[m] = Blank
    BY <1>1, <1>4, <1>9, <1>10 DEF HoldersSound
  <2> QED BY <1>1, <1>4, <1>6, <2>1 DEF HoldersSound
<1>13. Apart(mMessages', sPool', looper'.m, sender')
  BY <1>4, <1>6, <1>8, <1>9 DEF Apart
<1>14. \A m \in ToSet(sPool') : msg'[m] = Blank
  <2>1. ToSet(sPool) \subseteq Messages
    BY <1>7, Elements
  <2> QED BY <1>4, <1>6, <1>8, <1>10, <2>1
<1>15. ByTime(mMessages', msg')
  <2>1. PICK f : f = msg'
    OBVIOUS
  <2>2. /\ f \in [Messages -> MsgType] /\ f[x].when = when
        /\ \A m \in Messages : m # x => f[m] = msg[m]
    BY <1>10, <2>1
  <2>3. x \in Messages /\ x \notin ToSet(mMessages) /\ ByTime(mMessages, msg)
    BY <1>6, <1>8
  <2>4. ByTime(InsertAt(mMessages, Place(when), x), f)
    BY <1>1, <2>2, <2>3, InsertInOrder
  <2> QED BY <1>4, <2>1, <2>4
<1> QED BY <1>11, <1>12, <1>13, <1>14, <1>15, AccountedNext DEF MqLists

\* A message leaves the queue.
LEMMA LeaveOnce ==
    ASSUME MqTypeOK, NEW k \in 1 .. Len(mMessages)
    PROVE  /\ RemoveAt(mMessages, k) \in Seq(Messages)
           /\ Len(RemoveAt(mMessages, k)) = Len(mMessages) - 1
           /\ \A i \in 1 .. k - 1 : RemoveAt(mMessages, k)[i] = mMessages[i]
           /\ \A i \in k .. Len(mMessages) - 1 : RemoveAt(mMessages, k)[i] = mMessages[i + 1]
           /\ ToSet(mMessages) = ToSet(RemoveAt(mMessages, k)) \cup {mMessages[k]}
           /\ IsInjective(mMessages) <=>
                 IsInjective(RemoveAt(mMessages, k)) /\ mMessages[k] \notin ToSet(RemoveAt(mMessages, k))
<1>1. mMessages \in Seq(Messages)
  BY DEF MqTypeOK
<1> QED BY <1>1, RemoveOneAt

\* A message that is taken out of the queue is not in it any more.
LEMMA RemoveOnce ==
    ASSUME MqLists, NEW k \in 1 .. Len(mMessages)
    PROVE  /\ RemoveAt(mMessages, k) \in Seq(Messages)
           /\ Len(RemoveAt(mMessages, k)) = Len(mMessages) - 1
           /\ \A i \in 1 .. k - 1 : RemoveAt(mMessages, k)[i] = mMessages[i]
           /\ \A i \in k .. Len(mMessages) - 1 : RemoveAt(mMessages, k)[i] = mMessages[i + 1]
           /\ ToSet(RemoveAt(mMessages, k)) = ToSet(mMessages) \ {mMessages[k]}
           /\ IsInjective(RemoveAt(mMessages, k))
           /\ mMessages[k] \in Messages /\ mMessages[k] # NoMessage
           /\ mMessages[k] \in ToSet(mMessages) /\ mMessages[k] \notin ToSet(sPool)
           /\ mMessages[k] # looper.m /\ \A t \in Senders : sender[t].m # mMessages[k]
           /\ \A f \in [Messages -> MsgType] :
                 (\A m \in ToSet(mMessages) \ {mMessages[k]} : f[m] = msg[m]) =>
                    ByTime(RemoveAt(mMessages, k), f)
<1>1. MqTypeOK /\ HoldersSound /\ MessagesAccounted
  BY DEF MqLists
<1>2. mMessages \in Seq(Messages) /\ Len(mMessages) \in Nat
  BY <1>1, LenProperties DEF MqTypeOK
<1>3. Apart(mMessages, sPool, looper.m, sender) /\ ByTime(mMessages, msg)
  BY <1>1, AccountedNow
<1>4. PICK r, x : r = RemoveAt(mMessages, k) /\ x = mMessages[k]
  OBVIOUS
<1>5. /\ r \in Seq(Messages) /\ Len(r) = Len(mMessages) - 1
      /\ \A i \in 1 .. k - 1 : r[i] = mMessages[i]
      /\ \A i \in k .. Len(mMessages) - 1 : r[i] = mMessages[i + 1]
      /\ ToSet(mMessages) = ToSet(r) \cup {x}
      /\ IsInjective(mMessages) <=> IsInjective(r) /\ x \notin ToSet(r)
  BY <1>1, <1>4, LeaveOnce
<1>6. x \in Messages /\ x \in ToSet(mMessages) /\ x # NoMessage
  BY <1>1, <1>4, QueueTypes, MqAssumption
<1>7. IsInjective(r) /\ ToSet(r) = ToSet(mMessages) \ {x}
  BY <1>3, <1>5 DEF Apart
<1>8. /\ x \notin ToSet(sPool) /\ x # looper.m /\ \A t \in Senders : sender[t].m # x
  BY <1>3, <1>6 DEF Apart
<1>9. ASSUME NEW f \in [Messages -> MsgType], \A m \in ToSet(mMessages) \ {x} : f[m] = msg[m]
      PROVE  ByTime(r, f)
  <2> SUFFICES ASSUME NEW i \in 1 .. Len(r), NEW j \in 1 .. Len(r), i < j
               PROVE  f[r[i]].when <= f[r[j]].when
    BY DEF ByTime
  <2>1. f[r[i]] = msg[r[i]] /\ f[r[j]] = msg[r[j]]
    BY <1>5, <1>7, <1>9, Elements
  <2>2. PICK a, b \in 1 .. Len(mMessages) : a < b /\ r[i] = mMessages[a] /\ r[j] = mMessages[b]
    <3>1. i \in 1 .. k - 1 \/ i \in k .. Len(mMessages) - 1
      BY <1>2, <1>5
    <3>2. j \in 1 .. k - 1 \/ j \in k .. Len(mMessages) - 1
      BY <1>2, <1>5
    <3>3. PICK a : a = (IF i <= k - 1 THEN i ELSE i + 1)
      OBVIOUS
    <3>4. PICK b : b = (IF j <= k - 1 THEN j ELSE j + 1)
      OBVIOUS
    <3>5. a \in 1 .. Len(mMessages) /\ b \in 1 .. Len(mMessages) /\ a < b
      BY <1>2, <3>1, <3>2, <3>3, <3>4
    <3>6. r[i] = mMessages[a] /\ r[j] = mMessages[b]
      BY <1>5, <3>1, <3>2, <3>3, <3>4
    <3> QED BY <3>5, <3>6
  <2> QED BY <1>3, <2>1, <2>2 DEF ByTime
<1>10. \A i \in k .. Len(mMessages) - 1 : RemoveAt(mMessages, k)[i] = mMessages[i + 1]
  BY <1>4, <1>5
<1> QED BY <1>4, <1>5, <1>6, <1>7, <1>8, <1>9, <1>10

\* removeSyncBarrier keeps messages accounted for.
LEMMA RemoveBarrierLists ==
    ASSUME MqLists, NEW k \in DOMAIN mMessages, removeSyncBarrier(k) PROVE MqLists'
<1> USE DEF removeSyncBarrier
<1>1. MqTypeOK /\ HoldersSound /\ MessagesAccounted
  BY DEF MqLists
<1>2. k \in 1 .. Len(mMessages)
  BY <1>1, QueueTypes
<1>3. PICK x, p, ms : x = mMessages[k] /\ ms = <<x>> /\ p = recycleUnchecked(sPool, ms)
  OBVIOUS
<1>4. /\ mMessages' = RemoveAt(mMessages, k) /\ sPool' = p /\ msg' = Cleared(ms)
      /\ UNCHANGED <<mBlocked, mQuitting, mIdleHandlers, looper, sender, uptime, sends>>
  BY <1>3
<1>5. /\ mMessages' \in Seq(Messages) /\ IsInjective(mMessages')
      /\ ToSet(mMessages') = ToSet(mMessages) \ {x}
      /\ x \in Messages /\ x # NoMessage /\ x \in ToSet(mMessages) /\ x \notin ToSet(sPool)
      /\ x # looper.m /\ \A t \in Senders : sender[t].m # x
  BY <1>2, <1>3, <1>4, RemoveOnce
<1>6. /\ p \in Seq(Messages) /\ Len(p) <= MAX_POOL_SIZE /\ IsInjective(p)
      /\ ToSet(p) \subseteq ToSet(sPool) \cup {x}
  BY <1>3, <1>5, RecycleOne
<1>7. ms \in Seq(Messages) /\ ToSet(ms) = {x}
  BY <1>3, <1>5, OneElement
<1>8. /\ msg' \in [Messages -> MsgType]
      /\ msg'[x] = Blank /\ \A m \in Messages : m # x => msg'[m] = msg[m]
  BY <1>1, <1>4, <1>5, <1>7, ClearedType
<1>9. /\ Apart(mMessages, sPool, looper.m, sender)
      /\ \A m \in ToSet(sPool) : msg[m] = Blank
  BY <1>1, AccountedNow
<1>10. /\ ToSet(mMessages) \subseteq Messages /\ ToSet(sPool) \subseteq Messages
  BY <1>1, QueueTypes
<1>11. MqTypeOK'
  <2>1. awake' \in BOOLEAN
    BY Zenon
  <2> QED BY <1>1, <1>4, <1>5, <1>6, <1>8, <2>1 DEF MqTypeOK
<1>12. HoldersSound'
  <2>1. \A m \in Messages : m \in ToSet(mMessages') \/ m = looper'.m \/ msg'[m] = Blank
    BY <1>1, <1>4, <1>5, <1>8 DEF HoldersSound
  <2> QED BY <1>1, <1>4, <1>6, <2>1 DEF HoldersSound
<1>13. Apart(mMessages', sPool', looper'.m, sender')
  BY <1>4, <1>5, <1>6, <1>9 DEF Apart
<1>14. \A m \in ToSet(sPool') : msg'[m] = Blank
  <2> SUFFICES ASSUME NEW m \in ToSet(sPool') PROVE msg'[m] = Blank
    OBVIOUS
  <2>1. m = x \/ m \in ToSet(sPool)
    BY <1>4, <1>6
  <2>2. CASE m = x
    BY <1>8, <2>2
  <2>3. CASE m # x
    <3>1. m \in ToSet(sPool) /\ m \in Messages
      BY <1>10, <2>1, <2>3
    <3> QED BY <1>8, <1>9, <2>3, <3>1
  <2> QED BY <2>2, <2>3
<1>15. ByTime(mMessages', msg')
  <2>1. \A m \in ToSet(mMessages) \ {mMessages[k]} : msg'[m] = msg[m]
    BY <1>3, <1>8, <1>10
  <2> QED BY <1>2, <1>4, <1>8, <2>1, RemoveOnce
<1> QED BY <1>11, <1>12, <1>13, <1>14, <1>15, AccountedNext DEF MqLists

\* quit keeps messages accounted for, those it removes included.
LEMMA QuitLists ==
    ASSUME MqLists, NEW safe \in BOOLEAN, quit(safe) PROVE MqLists'
<1>1. MqTypeOK /\ HoldersSound /\ MessagesAccounted
  BY DEF MqLists
<1>2. PICK K : K = Kept(safe)
  OBVIOUS
<1>3. PICK D : D = ToSet(mMessages) \ K
  OBVIOUS
<1>4. PICK ms : ms = Filter(mMessages, D)
  OBVIOUS
<1>5. PICK q : q = Filter(mMessages, K)
  OBVIOUS
<1>6. PICK p : p = recycleUnchecked(sPool, ms)
  OBVIOUS
<1>7. /\ mMessages' = q /\ sPool' = p /\ msg' = Cleared(ms) /\ mQuitting' = TRUE /\ awake' = TRUE
      /\ UNCHANGED <<mBlocked, mIdleHandlers, looper, sender, uptime, sends>>
  BY <1>2, <1>3, <1>4, <1>5, <1>6 DEF quit
<1>8. /\ Apart(mMessages, sPool, looper.m, sender)
      /\ \A m \in ToSet(sPool) : msg[m] = Blank
      /\ ByTime(mMessages, msg)
  BY <1>1, AccountedNow
<1>9. /\ mMessages \in Seq(Messages) /\ sPool \in Seq(Messages) /\ msg \in [Messages -> MsgType]
      /\ Len(sPool) <= MAX_POOL_SIZE /\ ToSet(mMessages) \subseteq Messages /\ ToSet(sPool) \subseteq Messages
  BY <1>1, QueueTypes DEF MqTypeOK, HoldersSound
<1>10. IsInjective(mMessages) /\ IsInjective(sPool) /\ ToSet(mMessages) \cap ToSet(sPool) = {}
  BY <1>8 DEF Apart
<1>11. q \in Seq(Messages) /\ ToSet(q) = ToSet(mMessages) \cap K /\ IsInjective(q)
  BY <1>5, <1>9, <1>10, FilterKeeps
<1>12. ms \in Seq(Messages) /\ ToSet(ms) = ToSet(mMessages) \cap D /\ IsInjective(ms)
  BY <1>4, <1>9, <1>10, FilterKeeps
<1>13. ToSet(ms) = D /\ ToSet(mMessages) = ToSet(q) \cup D /\ ToSet(q) \cap D = {}
  BY <1>3, <1>11, <1>12
<1>14. /\ p \in Seq(Messages) /\ Len(p) <= MAX_POOL_SIZE /\ IsInjective(p)
       /\ ToSet(p) \subseteq ToSet(sPool) \cup D
  <2>1. ToSet(sPool) \cap ToSet(ms) = {}
    BY <1>10, <1>13
  <2>2. /\ recycleUnchecked(sPool, ms) \in Seq(Messages)
        /\ Len(recycleUnchecked(sPool, ms)) <= MAX_POOL_SIZE
        /\ ToSet(recycleUnchecked(sPool, ms)) \subseteq ToSet(sPool) \cup ToSet(ms)
        /\ IsInjective(sPool) /\ IsInjective(ms) /\ ToSet(sPool) \cap ToSet(ms) = {} =>
              IsInjective(recycleUnchecked(sPool, ms))
    BY <1>9, <1>12, PoolKeeps
  <2> QED BY <1>6, <1>10, <1>12, <1>13, <2>1, <2>2
<1>15. /\ msg' \in [Messages -> MsgType]
       /\ \A m \in Messages : msg'[m] = IF m \in D THEN Blank ELSE msg[m]
  BY <1>1, <1>7, <1>12, <1>13, ClearedType
<1>16. MqTypeOK'
  BY <1>1, <1>7, <1>11, <1>14, <1>15 DEF MqTypeOK
<1>17. HoldersSound'
  <2>1. \A m \in Messages : m \in ToSet(mMessages') \/ m = looper'.m \/ msg'[m] = Blank
    BY <1>1, <1>7, <1>13, <1>15 DEF HoldersSound
  <2> QED BY <1>1, <1>7, <1>14, <2>1 DEF HoldersSound
<1>18. Apart(mMessages', sPool', looper'.m, sender')
  <2>1. D \subseteq ToSet(mMessages) /\ ToSet(q) \subseteq ToSet(mMessages)
    BY <1>13
  <2>2. ToSet(q) \cap ToSet(p) = {}
    BY <1>10, <1>13, <1>14
  <2>3. \A m : m \in ToSet(p) => m \in ToSet(sPool) \/ m \in ToSet(mMessages)
    BY <1>14, <2>1
  <2> QED BY <1>7, <1>8, <1>11, <1>14, <2>1, <2>2, <2>3 DEF Apart
<1>19. \A m \in ToSet(sPool') : msg'[m] = Blank
  <2> SUFFICES ASSUME NEW m \in ToSet(sPool') PROVE msg'[m] = Blank
    OBVIOUS
  <2>1. m \in ToSet(sPool) \/ m \in D
    BY <1>7, <1>14
  <2>2. m \in Messages
    BY <1>3, <1>9, <2>1
  <2> QED BY <1>8, <1>15, <2>1, <2>2
<1>20. ByTime(mMessages', msg')
  <2>1. PICK key : key = [m \in Messages |-> msg[m].when]
    OBVIOUS
  <2>2. key \in [Messages -> Int]
    BY <1>9, <2>1 DEF MsgType
  <2>3. \A i, j \in 1 .. Len(mMessages) : i < j => key[mMessages[i]] <= key[mMessages[j]]
    <3>1. \A i \in 1 .. Len(mMessages) : mMessages[i] \in Messages
      BY <1>1, QueueTypes
    <3> QED BY <1>8, <2>1, <3>1 DEF ByTime
  <2>4. \A i, j \in 1 .. Len(q) : i < j => key[q[i]] <= key[q[j]]
    BY <1>5, <1>9, <2>2, <2>3, FilterSorted
  <2>5. \A i \in 1 .. Len(q) : key[q[i]] = msg'[q[i]].when
    <3>1. \A i \in 1 .. Len(q) : q[i] \in ToSet(q) /\ q[i] \in Messages
      BY <1>9, <1>11, Elements
    <3> QED BY <1>13, <1>15, <2>1, <3>1
  <2> QED BY <1>7, <2>4, <2>5 DEF ByTime
<1> QED BY <1>16, <1>17, <1>18, <1>19, <1>20, AccountedNext DEF MqLists

\* Steps of the looper that leave the messages alone
LEMMA QuietLists ==
    ASSUME MqLists, UNCHANGED <<mMessages, msg, sPool, sender, mQuitting>>,
           looper' \in LooperType, looper'.m = looper.m, looper.pc # "dispatch", looper'.pc # "dispatch",
           mBlocked' \in BOOLEAN, awake' \in BOOLEAN, mIdleHandlers' \subseteq IdleHandlers,
           uptime' \in Nat \ {0}, sends' = sends
    PROVE  MqLists'
<1>1. MqTypeOK /\ HoldersSound /\ MessagesAccounted
  BY DEF MqLists
<1>2. MqTypeOK'
  BY <1>1 DEF MqTypeOK
<1>3. HoldersSound'
  BY <1>1 DEF HoldersSound
<1>4. /\ Apart(mMessages, sPool, looper.m, sender)
      /\ \A m \in ToSet(sPool) : msg[m] = Blank
      /\ ByTime(mMessages, msg)
  BY <1>1, AccountedNow
<1>5. /\ Apart(mMessages', sPool', looper'.m, sender')
      /\ \A m \in ToSet(sPool') : msg'[m] = Blank
      /\ ByTime(mMessages', msg')
  BY <1>4 DEF Apart, ByTime
<1> QED BY <1>2, <1>3, <1>5, AccountedNext DEF MqLists

\* The poll and the idle handlers keep messages accounted for.
LEMMA LooperLists ==
    ASSUME MqLists,
           \/ nativePollOnce \/ NextDisposes \/ NextBlocks \/ NextIdles \/ IdleDone
           \/ \E keep \in BOOLEAN : queueIdle(keep)
    PROVE  MqLists'
<1>1. MqTypeOK
  BY DEF MqLists
<1>2. /\ looper \in LooperType /\ mBlocked \in BOOLEAN /\ awake \in BOOLEAN
      /\ mIdleHandlers \subseteq IdleHandlers /\ uptime \in Nat \ {0}
  BY <1>1 DEF MqTypeOK
<1>3. Deadline \in Int /\ IdleCount \in Int
  <2>1. Candidate \in 0 .. Len(mMessages) /\ Len(mMessages) \in Nat
    BY <1>1, CandidateIs, QueueTypes
  <2>2. Candidate # 0 => Candidate \in 1 .. Len(mMessages)
    BY <2>1
  <2>3. Deadline \in Int
    BY <1>1, <2>2, QueueTypes DEF Deadline, Forever
  <2>4. looper.idleCount \in Int /\ Cardinality(mIdleHandlers) \in Nat
    BY <1>1, <1>2, IdleList DEF LooperType
  <2> QED BY <2>3, <2>4 DEF IdleCount
<1>4. CASE nativePollOnce
  <2>1. looper' \in LooperType /\ looper'.m = looper.m /\ looper.pc # "dispatch" /\ looper'.pc # "dispatch"
    <3>1. PICK d \in Int : d = 0
      OBVIOUS
    <3>2. looper' = [looper EXCEPT !.pc = "next", !.deadline = d] /\ looper.pc = "poll"
      BY <1>4, <3>1 DEF nativePollOnce
    <3> QED BY <1>2, <3>2 DEF LooperType
  <2>2. awake' \in BOOLEAN
    BY <1>4 DEF nativePollOnce
  <2> QED BY <1>2, <1>4, <2>1, <2>2, QuietLists DEF nativePollOnce
<1>5. CASE NextDisposes
  <2>1. looper' \in LooperType /\ looper'.m = looper.m /\ looper.pc # "dispatch" /\ looper'.pc # "dispatch"
    BY <1>2, <1>5 DEF NextDisposes, LooperType
  <2> QED BY <1>2, <1>5, <2>1, QuietLists DEF NextDisposes
<1>6. CASE NextBlocks
  <2>0. PICK d, c : d = Deadline /\ c = IdleCount
    OBVIOUS
  <2>1. looper' = [looper EXCEPT !.pc = "poll", !.deadline = d, !.idleCount = c] /\ looper.pc = "next"
    BY <1>6, <2>0 DEF NextBlocks
  <2>2. looper' \in LooperType /\ looper'.m = looper.m /\ looper.pc # "dispatch" /\ looper'.pc # "dispatch"
    BY <1>2, <1>3, <2>0, <2>1 DEF LooperType
  <2> QED BY <1>2, <1>6, <2>2, QuietLists DEF NextBlocks
<1>7. CASE NextIdles
  <2>0. PICK d, c : d = Deadline /\ c = IdleCount
    OBVIOUS
  <2>1. PICK l : l = SetToSeq(mIdleHandlers)
    OBVIOUS
  <2>2. l \in Seq(IdleHandlers)
    BY <1>1, <2>1, IdleList
  <2>3. /\ looper' = [looper EXCEPT !.pc = "idle", !.deadline = d, !.idleCount = c, !.pending = l]
        /\ looper.pc = "next"
    BY <1>7, <2>0, <2>1 DEF NextIdles
  <2>4. looper' \in LooperType /\ looper'.m = looper.m /\ looper.pc # "dispatch" /\ looper'.pc # "dispatch"
    BY <1>2, <1>3, <2>0, <2>2, <2>3 DEF LooperType
  <2> QED BY <1>2, <1>7, <2>4, QuietLists DEF NextIdles
<1>8. CASE IdleDone
  <2>1. looper' \in LooperType /\ looper'.m = looper.m /\ looper.pc # "dispatch" /\ looper'.pc # "dispatch"
    <3>1. PICK u \in Int : u = uptime
      BY <1>2
    <3>2. PICK c \in Int : c = 0
      OBVIOUS
    <3>3. looper' = [looper EXCEPT !.pc = "poll", !.deadline = u, !.idleCount = c] /\ looper.pc = "idle"
      BY <1>8, <3>1, <3>2 DEF IdleDone
    <3> QED BY <1>2, <3>3 DEF LooperType
  <2> QED BY <1>2, <1>8, <2>1, QuietLists DEF IdleDone
<1>9. ASSUME NEW keep \in BOOLEAN, queueIdle(keep) PROVE MqLists'
  <2>0. looper.pending \in Seq(IdleHandlers) /\ looper.pending # <<>>
    BY <1>2, <1>9 DEF queueIdle, LooperType
  <2>1. Tail(looper.pending) \in Seq(IdleHandlers)
    BY <2>0, HeadTailProperties
  <2>2. PICK l : l = Tail(looper.pending)
    OBVIOUS
  <2>3. looper' = [looper EXCEPT !.pending = l] /\ looper.pc = "idle"
    BY <1>9, <2>2 DEF queueIdle
  <2>4. looper' \in LooperType /\ looper'.m = looper.m /\ looper.pc # "dispatch" /\ looper'.pc # "dispatch"
    BY <1>2, <2>1, <2>2, <2>3 DEF LooperType
  <2>5. mIdleHandlers' \subseteq IdleHandlers
    BY <1>2, <1>9 DEF queueIdle
  <2> QED BY <1>2, <1>9, <2>4, <2>5, QuietLists DEF queueIdle
<1> QED BY <1>4, <1>5, <1>6, <1>7, <1>8, <1>9

\* next() takes a message out of the queue and the looper has it.
LEMMA ReturnsLists ==
    ASSUME MqLists, NextReturns PROVE MqLists'
<1>1. MqTypeOK /\ HoldersSound /\ MessagesAccounted
  BY DEF MqLists
<1>2. PICK k \in 1 .. Len(mMessages) : k = Candidate
  <2>1. Candidate # 0 /\ Candidate \in 0 .. Len(mMessages) /\ Len(mMessages) \in Nat
    BY <1>1, CandidateIs, QueueTypes DEF NextReturns, DueCandidate
  <2> QED BY <2>1
<1>3. PICK x : x = mMessages[k]
  OBVIOUS
<1>4. /\ mMessages' = RemoveAt(mMessages, k) /\ looper' = [looper EXCEPT !.pc = "dispatch", !.m = x]
      /\ mBlocked' = FALSE /\ looper.pc = "next"
      /\ UNCHANGED <<msg, sPool, mQuitting, mIdleHandlers, awake, sender, uptime, sends>>
  BY <1>2, <1>3 DEF NextReturns
<1>5. /\ mMessages' \in Seq(Messages) /\ IsInjective(mMessages')
      /\ ToSet(mMessages') = ToSet(mMessages) \ {x}
      /\ x \in Messages /\ x # NoMessage /\ x \in ToSet(mMessages) /\ x \notin ToSet(sPool)
      /\ x # looper.m /\ \A t \in Senders : sender[t].m # x
  BY <1>3, <1>4, RemoveOnce
<1>6. looper' \in LooperType /\ looper'.m = x /\ looper'.pc = "dispatch" /\ looper.m = NoMessage
  <2>1. looper \in LooperType
    BY <1>1 DEF MqTypeOK
  <2>2. looper.m = NoMessage
    BY <1>1, <1>4 DEF HoldersSound
  <2> QED BY <1>4, <1>5, <2>1, <2>2 DEF LooperType
<1>7. MqTypeOK'
  BY <1>1, <1>4, <1>5, <1>6 DEF MqTypeOK
<1>8. HoldersSound'
  <2>1. \A m \in Messages : m \in ToSet(mMessages') \/ m = looper'.m \/ msg'[m] = Blank
    BY <1>1, <1>4, <1>5, <1>6, MqAssumption DEF HoldersSound
  <2> QED BY <1>1, <1>4, <1>5, <1>6, <2>1 DEF HoldersSound
<1>9. /\ Apart(mMessages, sPool, looper.m, sender)
      /\ \A m \in ToSet(sPool) : msg[m] = Blank
  BY <1>1, AccountedNow
<1>10. Apart(mMessages', sPool', looper'.m, sender')
  BY <1>4, <1>5, <1>6, <1>9 DEF Apart
<1>11. \A m \in ToSet(sPool') : msg'[m] = Blank
  BY <1>4, <1>9
<1>12. ByTime(mMessages', msg')
  <2>1. msg' \in [Messages -> MsgType]
    BY <1>1, <1>4 DEF MqTypeOK
  <2>2. \A m \in ToSet(mMessages) \ {mMessages[k]} : msg'[m] = msg[m]
    BY <1>4
  <2> QED BY <1>4, <2>1, <2>2, RemoveOnce
<1> QED BY <1>7, <1>8, <1>10, <1>11, <1>12, AccountedNext DEF MqLists

\* Looper.loop recycles the message it has dispatched.
LEMMA DispatchLists ==
    ASSUME MqLists, TasksSound, dispatchMessage PROVE MqLists'
<1>1. MqTypeOK /\ HoldersSound /\ MessagesAccounted
  BY DEF MqLists
<1>2. PICK x, p, ms : x = looper.m /\ ms = <<x>> /\ p = recycleUnchecked(sPool, ms)
  OBVIOUS
<1>3. /\ sPool' = p /\ msg' = Cleared(ms) /\ looper' = EnterNext /\ looper.pc = "dispatch"
      /\ sender' = [t \in Senders |-> IF msg[x].task = t THEN [sender[t] EXCEPT !.pc = "done"] ELSE sender[t]]
      /\ UNCHANGED <<mMessages, mBlocked, mQuitting, mIdleHandlers, awake, uptime, sends>>
  BY <1>2 DEF dispatchMessage
<1>4. /\ Apart(mMessages, sPool, looper.m, sender)
      /\ \A m \in ToSet(sPool) : msg[m] = Blank
      /\ ByTime(mMessages, msg)
  BY <1>1, AccountedNow
<1>5. /\ mMessages \in Seq(Messages) /\ msg \in [Messages -> MsgType] /\ sender \in [Senders -> SenderType]
      /\ looper \in LooperType /\ uptime \in Nat
      /\ ToSet(mMessages) \subseteq Messages /\ ToSet(sPool) \subseteq Messages
  BY <1>1, QueueTypes DEF MqTypeOK
<1>6. x \in Messages /\ x # NoMessage /\ x \notin ToSet(mMessages) /\ x \notin ToSet(sPool)
  <2>1. x # NoMessage
    BY <1>1, <1>2, <1>3 DEF HoldersSound
  <2>2. x \in Messages
    BY <1>2, <1>5, <2>1 DEF LooperType
  <2> QED BY <1>2, <1>4, <2>1, <2>2 DEF Apart
<1>7. /\ p \in Seq(Messages) /\ Len(p) <= MAX_POOL_SIZE /\ IsInjective(p)
      /\ ToSet(p) \subseteq ToSet(sPool) \cup {x}
  BY <1>2, <1>6, RecycleOne
<1>8. ms \in Seq(Messages) /\ ToSet(ms) = {x}
  BY <1>2, <1>6, OneElement
<1>9. /\ msg' \in [Messages -> MsgType]
      /\ msg'[x] = Blank /\ \A m \in Messages : m # x => msg'[m] = msg[m]
  BY <1>1, <1>3, <1>6, <1>8, ClearedType
<1>10. looper' \in LooperType /\ looper'.m = NoMessage /\ looper'.pc = "poll"
  <2>1. <<>> \in Seq(IdleHandlers)
    BY EmptySeq
  <2>2. looper' = [pc |-> "poll", deadline |-> uptime, idleCount |-> -1, pending |-> <<>>, m |-> NoMessage]
    BY <1>3 DEF EnterNext
  <2> QED BY <1>5, <2>1, <2>2 DEF LooperType
<1>11. \A t \in Senders : /\ sender'[t] \in SenderType /\ sender'[t].m = sender[t].m
                          /\ sender'[t].pc = "holds" <=> sender[t].pc = "holds"
  <2> SUFFICES ASSUME NEW t \in Senders
               PROVE  /\ sender'[t] \in SenderType /\ sender'[t].m = sender[t].m
                      /\ sender'[t].pc = "holds" <=> sender[t].pc = "holds"
    OBVIOUS
  <2>1. CASE msg[x].task = t
    <3>1. sender[t].pc = "waits"
      BY <1>6, <2>1 DEF TasksSound
    <3>2. sender'[t] = [sender[t] EXCEPT !.pc = "done"]
      BY <1>3, <2>1
    <3>3. sender[t] \in SenderType
      BY <1>5
    <3> QED BY <3>1, <3>2, <3>3 DEF SenderType
  <2>2. CASE msg[x].task # t
    BY <1>3, <1>5, <2>2
  <2> QED BY <2>1, <2>2
<1>12. sender' \in [Senders -> SenderType]
  <2>1. DOMAIN sender' = Senders /\ sender' = [t \in Senders |-> sender'[t]]
    BY <1>3
  <2> QED BY <1>11, <2>1
<1>13. MqTypeOK'
  BY <1>1, <1>3, <1>7, <1>9, <1>10, <1>12 DEF MqTypeOK
<1>14. HoldersSound'
  <2>1. \A m \in Messages : m \in ToSet(mMessages') \/ m = looper'.m \/ msg'[m] = Blank
    BY <1>1, <1>2, <1>3, <1>9 DEF HoldersSound
  <2>2. \A t \in Senders : sender'[t].m # NoMessage <=> sender'[t].pc = "holds"
    BY <1>1, <1>11 DEF HoldersSound
  <2> QED BY <1>3, <1>7, <1>10, <2>1, <2>2 DEF HoldersSound
<1>15. Apart(mMessages', sPool', looper'.m, sender')
  <2>1. \A t \in Senders : sender[t].m # NoMessage => sender[t].m # x
    BY <1>2, <1>4 DEF Apart
  <2>2. \A t \in Senders : sender'[t].m = sender[t].m
    BY <1>11
  <2>3. NoMessage \notin ToSet(mMessages) /\ NoMessage \notin ToSet(p)
    BY <1>5, <1>6, <1>7, MqAssumption
  <2> QED BY <1>3, <1>4, <1>6, <1>7, <1>10, <2>1, <2>2, <2>3 DEF Apart
<1>16. \A m \in ToSet(sPool') : msg'[m] = Blank
  <2> SUFFICES ASSUME NEW m \in ToSet(sPool') PROVE msg'[m] = Blank
    OBVIOUS
  <2>1. m = x \/ m \in ToSet(sPool)
    BY <1>3, <1>7
  <2>2. m \in Messages
    BY <1>5, <1>6, <2>1
  <2> QED BY <1>4, <1>9, <2>1, <2>2
<1>17. ByTime(mMessages', msg')
  <2>1. \A i \in 1 .. Len(mMessages) : msg'[mMessages[i]] = msg[mMessages[i]]
    BY <1>1, <1>6, <1>9, QueueTypes
  <2> QED BY <1>3, <1>4, <2>1 DEF ByTime
<1> QED BY <1>13, <1>14, <1>15, <1>16, <1>17, AccountedNext DEF MqLists

\* Time changes no message.
LEMMA TickLists ==
    ASSUME MqLists, MqTick \/ UNCHANGED mqVars PROVE MqLists'
<1>1. MqTypeOK /\ HoldersSound /\ MessagesAccounted
  BY DEF MqLists
<1>2. UNCHANGED <<mMessages, msg, sPool, mBlocked, mQuitting, mIdleHandlers, awake, looper, sender, sends>>
  BY DEF MqTick, mqVars
<1>3. uptime' \in Nat \ {0}
  BY <1>1 DEF MqTypeOK, MqTick, mqVars
<1>4. MqTypeOK'
  BY <1>1, <1>2, <1>3 DEF MqTypeOK
<1>5. HoldersSound'
  BY <1>1, <1>2 DEF HoldersSound
<1>6. /\ Apart(mMessages, sPool, looper.m, sender)
      /\ \A m \in ToSet(sPool) : msg[m] = Blank
      /\ ByTime(mMessages, msg)
  BY <1>1, AccountedNow
<1> QED BY <1>2, <1>4, <1>5, <1>6, AccountedNext DEF MqLists, Apart, ByTime

\* Every step of the queue is one of these.
LEMMA MqSteps ==
    ASSUME MqTypeOK, MqNext
    PROVE  \/ nativePollOnce \/ NextDisposes \/ NextBlocks \/ NextIdles \/ IdleDone
           \/ \E keep \in BOOLEAN : queueIdle(keep)
           \/ NextReturns \/ dispatchMessage
           \/ \E t \in Senders : Obtain(t) \/ enqueueOnDeadThread(t) \/ ScissorsDone(t) \/ ScissorsTimeout(t)
           \/ \E t \in Senders, when \in Nat, async \in BOOLEAN, task \in BOOLEAN :
                 enqueueMessage(t, when, async, task)
           \/ \E when \in Nat \ {0} : when <= uptime /\ postSyncBarrier(when)
           \/ \E k \in DOMAIN mMessages : removeSyncBarrier(k)
           \/ \E safe \in BOOLEAN : quit(safe)
           \/ MqTick
<1>1. uptime \in Nat \ {0} /\ MaxDelay \in Nat
  BY MqAssumption DEF MqTypeOK
<1>2. CASE LooperNext
  BY <1>2 DEF LooperNext
<1>3. ASSUME NEW t \in Senders,
             \/ Obtain(t)
             \/ \E when \in 0 .. uptime + MaxDelay, async \in BOOLEAN : enqueueMessage(t, when, async, FALSE)
             \/ enqueueMessage(t, uptime, FALSE, TRUE)
             \/ enqueueOnDeadThread(t)
             \/ ScissorsDone(t) \/ ScissorsTimeout(t)
      PROVE  \/ Obtain(t) \/ enqueueOnDeadThread(t) \/ ScissorsDone(t) \/ ScissorsTimeout(t)
             \/ \E when \in Nat, async \in BOOLEAN, task \in BOOLEAN : enqueueMessage(t, when, async, task)
  <2>1. ASSUME NEW when \in 0 .. uptime + MaxDelay, NEW async \in BOOLEAN, enqueueMessage(t, when, async, FALSE)
        PROVE  \E w \in Nat, a \in BOOLEAN, task \in BOOLEAN : enqueueMessage(t, w, a, task)
    <3>1. when \in Nat
      BY <1>1
    <3>2. PICK no \in BOOLEAN : no = FALSE
      OBVIOUS
    <3>3. enqueueMessage(t, when, async, no)
      BY <2>1, <3>2
    <3> QED BY <3>1, <3>3
  <2>2. ASSUME enqueueMessage(t, uptime, FALSE, TRUE)
        PROVE  \E w \in Nat, a \in BOOLEAN, task \in BOOLEAN : enqueueMessage(t, w, a, task)
    <3>1. PICK w \in Nat : w = uptime
      BY <1>1
    <3>2. PICK no \in BOOLEAN, yes \in BOOLEAN : no = FALSE /\ yes = TRUE
      OBVIOUS
    <3>3. enqueueMessage(t, w, no, yes)
      BY <2>2, <3>1, <3>2
    <3> QED BY <3>3
  <2> QED BY <1>3, <2>1, <2>2
<1>4. CASE \E when \in {uptime - 1, uptime} \ {0} : postSyncBarrier(when)
  <2>1. \A when \in {uptime - 1, uptime} \ {0} : when \in Nat \ {0} /\ when <= uptime
    BY <1>1
  <2> QED BY <1>4, <2>1
<1> QED BY <1>2, <1>3, <1>4 DEF MqNext, BarrierIsRemoved

\* Every step leaves each waiting thread its one task.
LEMMA TasksStep ==
    ASSUME MqLists, TasksSound, MqNext \/ UNCHANGED mqVars PROVE TasksSound'
<1>1. MqTypeOK /\ HoldersSound /\ MessagesAccounted
  BY DEF MqLists
<1>2. /\ msg \in [Messages -> MsgType] /\ sender \in [Senders -> SenderType]
  BY <1>1 DEF MqTypeOK
\* Messages keep their task or lose it, and no thread stops waiting.
<1>3. ASSUME \A m \in Messages : msg'[m].task = msg[m].task \/ msg'[m].task = Nobody,
             \A t \in Senders : sender[t].pc = "waits" => sender'[t].pc = "waits"
      PROVE  TasksSound'
  BY <1>3, MqAssumption DEF TasksSound
<1>4. ASSUME msg' = msg, \A t \in Senders : sender[t].pc = "waits" => sender'[t].pc = "waits"
      PROVE  TasksSound'
  BY <1>3, <1>4
<1>5. ASSUME NEW ms \in Seq(Messages), msg' = Cleared(ms), sender' = sender PROVE TasksSound'
  <2>1. \A m \in Messages : msg'[m].task = msg[m].task \/ msg'[m].task = Nobody
    BY <1>1, <1>5, ClearedType DEF Blank
  <2> QED BY <1>3, <1>5, <2>1
<1>6. CASE \/ nativePollOnce \/ NextDisposes \/ NextBlocks \/ NextIdles \/ IdleDone
           \/ (\E keep \in BOOLEAN : queueIdle(keep)) \/ NextReturns \/ MqTick \/ UNCHANGED mqVars
  <2>1. msg' = msg /\ sender' = sender
    BY <1>6 DEF nativePollOnce, NextDisposes, NextBlocks, NextIdles, IdleDone, queueIdle, NextReturns,
                MqTick, mqVars
  <2> QED BY <1>4, <2>1
<1>7. CASE dispatchMessage
  <2>1. PICK x, ms : x = looper.m /\ ms = <<x>>
    OBVIOUS
  <2>2. x \in Messages
    <3>1. x # NoMessage /\ looper \in LooperType
      BY <1>1, <1>7, <2>1 DEF HoldersSound, dispatchMessage, MqTypeOK
    <3> QED BY <2>1, <3>1 DEF LooperType
  <2>3. ms \in Seq(Messages) /\ ToSet(ms) = {x}
    BY <2>1, <2>2, OneElement
  <2>4. msg'[x] = Blank /\ \A m \in Messages : m # x => msg'[m] = msg[m]
    <3>1. msg' = Cleared(ms)
      BY <1>7, <2>1 DEF dispatchMessage
    <3> QED BY <1>1, <2>2, <2>3, <3>1, ClearedType
  <2>5. \A t \in Senders : msg[x].task # t => sender'[t] = sender[t]
    BY <1>2, <1>7, <2>1 DEF dispatchMessage
  <2>6. Blank.task = Nobody
    BY DEF Blank
  <2>7. ASSUME NEW m \in Messages, NEW t \in Senders, msg'[m].task = t PROVE sender'[t].pc = "waits"
    <3>1. m # x /\ msg[m].task = t /\ t # Nobody
      BY <2>4, <2>6, <2>7, MqAssumption
    <3>2. msg[x].task # t
      BY <2>2, <3>1 DEF TasksSound
    <3> QED BY <2>5, <3>1, <3>2 DEF TasksSound
  <2>8. ASSUME NEW m \in Messages, NEW n \in Messages, msg'[m].task = msg'[n].task, msg'[m].task # Nobody
        PROVE  m = n
    <3>1. m # x /\ n # x
      BY <2>4, <2>6, <2>8
    <3>2. msg'[m] = msg[m] /\ msg'[n] = msg[n]
      BY <2>4, <3>1
    <3> QED BY <2>8, <3>2 DEF TasksSound
  <2> QED BY <2>7, <2>8 DEF TasksSound
<1>8. ASSUME NEW t \in Senders, Obtain(t) \/ enqueueOnDeadThread(t) \/ ScissorsDone(t)
      PROVE  TasksSound'
  <2>1. msg' = msg /\ sender[t].pc # "waits" /\ \A s \in Senders : s # t => sender'[s] = sender[s]
    BY <1>2, <1>8 DEF Obtain, enqueueOnDeadThread, ScissorsDone
  <2> QED BY <1>4, <2>1
<1>9. ASSUME NEW t \in Senders, ScissorsTimeout(t) PROVE TasksSound'
  <2>1. msg' = [m \in Messages |-> IF msg[m].task = t THEN [msg[m] EXCEPT !.task = Nobody] ELSE msg[m]]
    BY <1>9 DEF ScissorsTimeout
  <2>2. \A m \in Messages : [msg[m] EXCEPT !.task = Nobody].task = Nobody
    BY <1>2 DEF MsgType
  <2>3. \A m \in Messages : msg'[m].task = IF msg[m].task = t THEN Nobody ELSE msg[m].task
    BY <2>1, <2>2
  <2>4. \A s \in Senders : s # t => sender'[s] = sender[s]
    BY <1>2, <1>9 DEF ScissorsTimeout
  <2> QED BY <2>3, <2>4, MqAssumption DEF TasksSound
<1>10. ASSUME NEW t \in Senders, NEW when \in Nat, NEW async \in BOOLEAN, NEW task \in BOOLEAN,
              enqueueMessage(t, when, async, task)
       PROVE  TasksSound'
  <2>1. PICK x : x = sender[t].m
    OBVIOUS
  <2>2. PICK r : r = [when |-> when, barrier |-> FALSE, async |-> async, task |-> IF task THEN t ELSE Nobody]
    OBVIOUS
  <2>3. PICK y : y = [pc |-> IF task THEN "waits" ELSE "idle", m |-> NoMessage]
    OBVIOUS
  <2>4. /\ msg' = [msg EXCEPT ![x] = r] /\ sender' = [sender EXCEPT ![t] = y] /\ sender[t].pc = "holds"
    BY <1>10, <2>1, <2>2, <2>3 DEF enqueueMessage
  <2>5. \A m \in Messages : msg'[m].task = IF m = x THEN (IF task THEN t ELSE Nobody) ELSE msg[m].task
    BY <1>2, <2>2, <2>4
  <2>6. /\ sender'[t].pc = (IF task THEN "waits" ELSE "idle")
        /\ \A s \in Senders : s # t => sender'[s] = sender[s]
    BY <1>2, <2>3, <2>4
  <2>7. \A m \in Messages : msg[m].task # t
    BY <2>4 DEF TasksSound
  <2>8. ASSUME NEW m \in Messages, NEW s \in Senders, msg'[m].task = s PROVE sender'[s].pc = "waits"
    BY <2>5, <2>6, <2>7, <2>8, MqAssumption DEF TasksSound
  <2>9. ASSUME NEW m \in Messages, NEW n \in Messages, msg'[m].task = msg'[n].task, msg'[m].task # Nobody
        PROVE  m = n
    BY <2>5, <2>7, <2>9 DEF TasksSound
  <2> QED BY <2>8, <2>9 DEF TasksSound
<1>11. ASSUME NEW when \in Nat \ {0}, postSyncBarrier(when) PROVE TasksSound'
  <2>1. PICK x : x = obtain
    OBVIOUS
  <2>2. PICK r : r = [Blank EXCEPT !.when = when, !.barrier = TRUE]
    OBVIOUS
  <2>3. r.task = Nobody
    BY <2>2 DEF Blank
  <2>4. msg' = [msg EXCEPT ![x] = r] /\ sender' = sender
    BY <1>11, <2>1, <2>2 DEF postSyncBarrier
  <2>5. \A m \in Messages : msg'[m].task = msg[m].task \/ msg'[m].task = Nobody
    BY <1>2, <2>3, <2>4
  <2> QED BY <1>3, <2>4, <2>5
<1>12. ASSUME NEW k \in DOMAIN mMessages, removeSyncBarrier(k) PROVE TasksSound'
  <2>1. PICK ms : ms = <<mMessages[k]>>
    OBVIOUS
  <2>2. mMessages[k] \in Messages
    BY <1>1, QueueTypes
  <2>3. ms \in Seq(Messages)
    BY <2>1, <2>2, OneElement
  <2> QED BY <1>5, <1>12, <2>1, <2>3 DEF removeSyncBarrier
<1>13. ASSUME NEW safe \in BOOLEAN, quit(safe) PROVE TasksSound'
  <2>1. PICK ms : ms = Filter(mMessages, ToSet(mMessages) \ Kept(safe))
    OBVIOUS
  <2>2. ms \in Seq(Messages)
    BY <1>1, <2>1, FilterKeeps DEF MqTypeOK
  <2> QED BY <1>5, <1>13, <2>1, <2>2 DEF quit
<1> QED BY <1>1, <1>6, <1>7, <1>8, <1>9, <1>10, <1>11, <1>12, <1>13, MqSteps

\* The messages remain accounted for.
LEMMA ListsStep ==
    ASSUME MqLists, TasksSound, MqNext \/ UNCHANGED mqVars PROVE MqLists' /\ TasksSound'
<1>1. MqTypeOK
  BY DEF MqLists
<1>2. CASE UNCHANGED mqVars
  BY <1>2, TickLists, TasksStep
<1>3. CASE MqNext
  <2>1. MqLists'
    BY <1>1, <1>3, MqSteps, ObtainLists, EnqueueLists, DeadLists, ScissorsLists, PostBarrierLists,
       RemoveBarrierLists, QuitLists, LooperLists, ReturnsLists, DispatchLists, TickLists
  <2> QED BY <1>3, <2>1, TasksStep
<1> QED BY <1>2, <1>3

-----------------------------------------------------------------------------
(* The looper wakes up *)

\* What next() takes from a queue, as Candidate
FirstOf(q, f) ==
    LET S == IF q = <<>> THEN {}
             ELSE IF f[q[1]].barrier THEN {i \in DOMAIN q : f[q[i]].async} ELSE {1}
    IN  IF S = {} THEN 0 ELSE CHOOSE i \in S : \A j \in S : i <= j

\* What next() would take: the head, or the first asynchronous message behind a barrier
LEMMA FirstIs ==
    ASSUME NEW q \in Seq(Messages), NEW f \in [Messages -> MsgType]
    PROVE  /\ FirstOf(q, f) \in 0 .. Len(q)
           /\ q = <<>> => FirstOf(q, f) = 0
           /\ q # <<>> /\ ~f[q[1]].barrier => FirstOf(q, f) = 1
           /\ q # <<>> /\ f[q[1]].barrier =>
                 /\ FirstOf(q, f) = 0 => \A i \in 1 .. Len(q) : ~f[q[i]].async
                 /\ FirstOf(q, f) # 0 => /\ f[q[FirstOf(q, f)]].async
                                         /\ \A i \in 1 .. Len(q) : f[q[i]].async => FirstOf(q, f) <= i
<1>0. /\ Len(q) \in Nat /\ DOMAIN q = 1 .. Len(q)
      /\ q = <<>> <=> Len(q) = 0
      /\ \A i \in 1 .. Len(q) : f[q[i]].barrier \in BOOLEAN /\ f[q[i]].async \in BOOLEAN
  BY LenProperties, EmptySeq DEF MsgType
<1>1. PICK S : S = IF q = <<>> THEN {}
                   ELSE IF f[q[1]].barrier THEN {i \in 1 .. Len(q) : f[q[i]].async} ELSE {1}
  OBVIOUS
<1>2. PICK c : c = FirstOf(q, f)
  OBVIOUS
<1>3. c = IF S = {} THEN 0 ELSE CHOOSE i \in S : \A j \in S : i <= j
  BY <1>0, <1>1, <1>2 DEF FirstOf
<1>4. S \in SUBSET (1 .. Len(q))
  BY <1>0, <1>1
<1>5. CASE S = {}
  <2>1. c = 0
    BY <1>3, <1>5
  <2>2. q # <<>> => f[q[1]].barrier /\ \A i \in 1 .. Len(q) : ~f[q[i]].async
    BY <1>0, <1>1, <1>5
  <2> QED BY <1>0, <1>2, <2>1, <2>2
<1>6. CASE S # {}
  <2>1. c \in S /\ \A j \in S : c <= j
    <3>1. c = CHOOSE i \in S : \A j \in S : i <= j
      BY <1>3, <1>6
    <3> QED BY <1>0, <1>4, <1>6, <3>1, LeastOf
  <2>2. c \in 1 .. Len(q) /\ c # 0 /\ q # <<>>
    BY <1>0, <1>1, <1>4, <2>1
  <2>3. ~f[q[1]].barrier => c = 1
    BY <1>1, <2>1, <2>2
  <2>4. f[q[1]].barrier => f[q[c]].async /\ \A i \in 1 .. Len(q) : f[q[i]].async => c <= i
    BY <1>1, <2>1, <2>2
  <2>5. c \in 0 .. Len(q)
    BY <2>2
  <2> QED BY <1>2, <2>2, <2>3, <2>4, <2>5
<1> QED BY <1>5, <1>6

\* What next() would take from the second queue is no earlier than from the first.
NotEarlier(q, f, r, g) ==
    FirstOf(r, g) # 0 => FirstOf(q, f) # 0 /\ f[q[FirstOf(q, f)]].when <= g[r[FirstOf(r, g)]].when

\* An asynchronous message is no earlier than the one that is taken, wherever a barrier is.
LEMMA AsyncIsLater ==
    ASSUME NEW q \in Seq(Messages), NEW f \in [Messages -> MsgType], ByTime(q, f),
           NEW i \in 1 .. Len(q), f[q[i]].async \/ ~f[q[1]].barrier
    PROVE  FirstOf(q, f) # 0 /\ f[q[FirstOf(q, f)]].when <= f[q[i]].when
<1>1. Len(q) \in Nat /\ q # <<>> /\ \A j \in 1 .. Len(q) : f[q[j]].when \in Nat
  BY LenProperties DEF MsgType
<1>2. PICK c : c = FirstOf(q, f)
  OBVIOUS
<1>3. c \in 1 .. Len(q) /\ c <= i
  <2>1. c \in 0 .. Len(q)
    BY <1>2, FirstIs
  <2>2. CASE f[q[1]].barrier
    <3>1. c # 0 /\ c <= i
      BY <1>1, <1>2, <2>2, FirstIs
    <3> QED BY <1>1, <2>1, <3>1
  <2>3. CASE ~f[q[1]].barrier
    <3>1. c = 1
      BY <1>1, <1>2, <2>3, FirstIs
    <3> QED BY <1>1, <3>1
  <2> QED BY <2>2, <2>3
<1>4. f[q[c]].when <= f[q[i]].when
  <2>1. CASE c = i
    BY <1>1, <2>1
  <2>2. CASE c # i
    <3>1. c < i
      BY <1>1, <1>3, <2>2
    <3> QED BY <1>3, <3>1 DEF ByTime
  <2> QED BY <2>1, <2>2
<1>5. c # 0
  BY <1>3
<1> QED BY <1>2, <1>4, <1>5

\* A message put behind others makes next() take nothing earlier than before.
LEMMA InsertNotEarlier ==
    ASSUME MqTypeOK, ByTime(mMessages, msg), NEW k \in 1 .. Len(mMessages) + 1, NEW x \in Messages,
           x \notin ToSet(mMessages), NEW f \in [Messages -> MsgType],
           \A m \in Messages : m # x => f[m] = msg[m],
           \A i \in 1 .. k - 1 : When(i) <= f[x].when,
           k = 1 => f[x].barrier /\ ~f[x].async,
           k > 1 /\ IsBarrier(1) /\ f[x].async => \E i \in 2 .. k - 1 : IsAsync(i)
    PROVE  NotEarlier(mMessages, msg, InsertAt(mMessages, k, x), f)
<1>1. PICK q, n : q = mMessages /\ n = Len(mMessages)
  OBVIOUS
<1>2. /\ n \in Nat /\ q \in Seq(Messages) /\ msg \in [Messages -> MsgType] /\ k \in 1 .. n + 1
      /\ \A i \in 1 .. n : q[i] \in Messages /\ q[i] # x /\ When(i) \in Nat
      /\ q # <<>> <=> n # 0
  BY <1>1, QueueTypes DEF MqTypeOK
<1>3. PICK t : t = InsertAt(mMessages, k, x)
  OBVIOUS
<1>4. /\ t \in Seq(Messages) /\ Len(t) = n + 1
      /\ \A i \in 1 .. k - 1 : t[i] = q[i]
      /\ t[k] = x
      /\ \A i \in k + 1 .. n + 1 : t[i] = q[i - 1]
  <2>1. Len(t) = n + 1
    BY <1>1, <1>3, InsertOnce
  <2>2. \A i \in 1 .. k - 1 : t[i] = q[i]
    BY <1>1, <1>3, InsertOnce
  <2>3. t[k] = x
    BY <1>1, <1>3, InsertOnce
  <2>4. \A i \in k + 1 .. n + 1 : t[i] = q[i - 1]
    BY <1>1, <1>3, InsertOnce
  <2>5. t \in Seq(Messages)
    BY <1>1, <1>2, <1>3, InsertOne
  <2> QED BY <2>1, <2>2, <2>3, <2>4, <2>5
<1>5. PICK c : c = FirstOf(t, f)
  OBVIOUS
<1> SUFFICES ASSUME c # 0
             PROVE  FirstOf(q, msg) # 0 /\ msg[q[FirstOf(q, msg)]].when <= f[t[c]].when
  BY <1>1, <1>3, <1>5 DEF NotEarlier
<1>6. c \in 1 .. n + 1 /\ t # <<>> /\ (f[t[1]].barrier => f[t[c]].async) /\ (~f[t[1]].barrier => c = 1)
  <2>1. c \in 0 .. n + 1 /\ t # <<>>
    BY <1>2, <1>4, <1>5, FirstIs, EmptySeq
  <2>2. f[t[1]].barrier => f[t[c]].async
    BY <1>4, <1>5, <2>1, FirstIs
  <2>3. ~f[t[1]].barrier => c = 1
    BY <1>4, <1>5, <2>1, FirstIs
  <2> QED BY <1>2, <2>1, <2>2, <2>3
\* It suffices that an old message that next() may take is no later.
<1>7. ASSUME NEW i \in 1 .. n, msg[q[i]].async \/ ~msg[q[1]].barrier, msg[q[i]].when <= f[t[c]].when
      PROVE  FirstOf(q, msg) # 0 /\ msg[q[FirstOf(q, msg)]].when <= f[t[c]].when
  <2>1. FirstOf(q, msg) # 0 /\ msg[q[FirstOf(q, msg)]].when <= msg[q[i]].when
    BY <1>1, <1>2, <1>7, AsyncIsLater
  <2>2. PICK d : d = FirstOf(q, msg)
    OBVIOUS
  <2>3. d \in 1 .. n
    <3>1. d \in 0 .. Len(q)
      BY <1>2, <2>2, FirstIs
    <3> QED BY <1>1, <1>2, <2>1, <2>2, <3>1
  <2>4. msg[q[d]].when \in Nat /\ msg[q[i]].when \in Nat
    BY <1>1, <1>2, <2>3 DEF When
  <2>5. f[t[c]].when \in Nat
    BY <1>4, <1>6 DEF MsgType
  <2> QED BY <1>7, <2>1, <2>2, <2>4, <2>5
<1>8. CASE k = 1
  <2>1. f[t[1]].barrier /\ ~f[t[1]].async
    BY <1>4, <1>8
  <2>2. c # 1 /\ f[t[c]].async
    BY <1>6, <2>1
  <2>3. c \in k + 1 .. n + 1 /\ c - 1 \in 1 .. n
    BY <1>2, <1>6, <1>8, <2>2
  <2>4. f[t[c]] = msg[q[c - 1]]
    BY <1>2, <1>4, <2>3
  <2>5. msg[q[c - 1]].when \in Nat
    BY <1>1, <1>2, <2>3 DEF When
  <2>6. msg[q[c - 1]].when <= f[t[c]].when
    BY <2>4, <2>5
  <2> QED BY <1>7, <2>2, <2>3, <2>4, <2>6
<1>9. CASE k > 1
  <2>1. 1 \in 1 .. k - 1 /\ 1 \in 1 .. n
    BY <1>2, <1>9
  <2>2. f[t[1]] = msg[q[1]]
    BY <1>2, <1>4, <2>1
  <2>3. CASE ~msg[q[1]].barrier
    <3>1. c = 1 /\ msg[q[1]].when \in Nat
      BY <1>1, <1>2, <1>6, <2>1, <2>2, <2>3 DEF When
    <3> QED BY <1>7, <2>1, <2>2, <2>3, <3>1
  <2>4. CASE msg[q[1]].barrier /\ c # k
    <3>1. PICK o : o = (IF c < k THEN c ELSE c - 1)
      OBVIOUS
    <3>2. o \in 1 .. n
      BY <1>2, <1>6, <2>4, <3>1
    <3>3. t[c] = q[o]
      <4>1. CASE c < k
        <5>1. c \in 1 .. k - 1
          BY <1>2, <1>6, <4>1
        <5> QED BY <1>4, <3>1, <4>1, <5>1
      <4>2. CASE ~(c < k)
        <5>1. c \in k + 1 .. n + 1
          BY <1>2, <1>6, <2>4, <4>2
        <5> QED BY <1>4, <3>1, <4>2, <5>1
      <4> QED BY <4>1, <4>2
    <3>4. f[t[c]] = msg[q[o]] /\ msg[q[o]].when \in Nat /\ f[t[c]].async
      BY <1>1, <1>2, <1>6, <2>2, <2>4, <3>2, <3>3 DEF When
    <3> QED BY <1>7, <3>2, <3>4
  <2>5. CASE msg[q[1]].barrier /\ c = k
    <3>1. f[x].async
      BY <1>4, <1>6, <2>2, <2>5
    <3>2. PICK i \in 2 .. k - 1 : IsAsync(i)
      BY <1>1, <1>9, <2>5, <3>1 DEF IsBarrier
    <3>3. i \in 1 .. k - 1 /\ i \in 1 .. n
      BY <1>2, <3>2
    <3>4. msg[q[i]].async /\ msg[q[i]].when <= f[t[c]].when
      BY <1>1, <1>4, <2>5, <3>2, <3>3 DEF IsAsync, When
    <3> QED BY <1>7, <3>3, <3>4
  <2> QED BY <2>3, <2>4, <2>5
<1>10. k = 1 \/ k > 1
  BY <1>2
<1> QED BY <1>8, <1>9, <1>10

\* Nor does one that is taken out, unless it was a barrier at the head.
LEMMA RemoveNotEarlier ==
    ASSUME MqLists, NEW k \in 1 .. Len(mMessages), NEW f \in [Messages -> MsgType],
           \A m \in ToSet(mMessages) \ {mMessages[k]} : f[m] = msg[m],
           k = 1 => Len(mMessages) > 1 /\ IsBarrier(1) /\ IsBarrier(2)
    PROVE  NotEarlier(mMessages, msg, RemoveAt(mMessages, k), f)
<1>1. MqTypeOK /\ MessagesAccounted
  BY DEF MqLists
<1>2. PICK q, n : q = mMessages /\ n = Len(mMessages)
  OBVIOUS
<1>3. /\ n \in Nat /\ q \in Seq(Messages) /\ Len(q) = n /\ msg \in [Messages -> MsgType] /\ k \in 1 .. n
      /\ \A i \in 1 .. n : q[i] \in Messages /\ When(i) \in Nat
      /\ ByTime(q, msg)
  BY <1>1, <1>2, QueueTypes, AccountedNow DEF MqTypeOK
<1>4. PICK r : r = RemoveAt(mMessages, k)
  OBVIOUS
<1>5. /\ r \in Seq(Messages) /\ Len(r) = n - 1
      /\ \A i \in 1 .. k - 1 : r[i] = q[i]
      /\ ToSet(r) = ToSet(q) \ {q[k]}
  BY <1>2, <1>4, RemoveOnce
<1>6. \A i \in k .. n - 1 : r[i] = q[i + 1]
  BY <1>1, <1>2, <1>4, LeaveOnce
<1>7. \A i \in 1 .. n - 1 : f[r[i]] = msg[r[i]]
  BY <1>2, <1>5, Elements
<1>8. PICK c : c = FirstOf(r, f)
  OBVIOUS
<1> SUFFICES ASSUME c # 0
             PROVE  FirstOf(q, msg) # 0 /\ msg[q[FirstOf(q, msg)]].when <= f[r[c]].when
  BY <1>2, <1>4, <1>8 DEF NotEarlier
<1>9. c \in 1 .. n - 1 /\ r # <<>> /\ (f[r[1]].barrier => f[r[c]].async)
  <2>1. c \in 0 .. n - 1 /\ r # <<>>
    BY <1>3, <1>5, <1>8, FirstIs, EmptySeq
  <2>2. f[r[1]].barrier => f[r[c]].async
    BY <1>5, <1>8, <2>1, FirstIs
  <2> QED BY <1>3, <2>1, <2>2
<1>10. 1 \in 1 .. n - 1
  BY <1>3, <1>9
<1>11. f[r[1]].barrier \/ ~msg[q[1]].barrier
  <2>1. CASE k = 1
    <3>1. 1 \in k .. n - 1
      BY <1>3, <1>10, <2>1
    <3>2. r[1] = q[1 + 1] /\ msg[q[2]].barrier
      BY <1>2, <1>6, <2>1, <3>1 DEF IsBarrier
    <3>3. r[1] = q[2]
      BY <3>2
    <3> QED BY <1>7, <1>10, <3>2, <3>3
  <2>2. CASE k # 1
    <3>1. 1 \in 1 .. k - 1
      BY <1>3, <2>2
    <3>2. f[r[1]] = msg[q[1]]
      BY <1>5, <1>7, <1>10, <3>1
    <3>3. msg[q[1]].barrier \in BOOLEAN
      <4>1. 1 \in 1 .. n
        BY <1>3
      <4> QED BY <1>3, <4>1 DEF MsgType
    <3> QED BY <3>2, <3>3
  <2> QED BY <2>1, <2>2
<1>12. PICK o : o = (IF c < k THEN c ELSE c + 1)
  OBVIOUS
<1>13. o \in 1 .. n /\ r[c] = q[o]
  <2>1. CASE c < k
    <3>1. c \in 1 .. k - 1 /\ c \in 1 .. n
      BY <1>3, <1>9, <2>1
    <3> QED BY <1>5, <1>12, <2>1, <3>1
  <2>2. CASE ~(c < k)
    <3>1. c \in k .. n - 1 /\ c + 1 \in 1 .. n
      BY <1>3, <1>9, <2>2
    <3> QED BY <1>6, <1>12, <2>2, <3>1
  <2> QED BY <2>1, <2>2
<1>14. f[r[c]] = msg[q[o]]
  BY <1>7, <1>9, <1>13
<1>15. msg[q[o]].async \/ ~msg[q[1]].barrier
  BY <1>9, <1>11, <1>14
<1>16. FirstOf(q, msg) # 0 /\ msg[q[FirstOf(q, msg)]].when <= msg[q[o]].when
  BY <1>3, <1>13, <1>15, AsyncIsLater
<1> QED BY <1>14, <1>16

Sleeping == looper.pc = "poll" /\ ~awake

\* Nothing happened that the looper should be woken for.
LEMMA Undisturbed ==
    ASSUME MqLists, MqTypeOK', PollSound, NoMissedWake,
           Sleeping' => Sleeping /\ looper'.deadline = looper.deadline /\ mBlocked' = mBlocked,
           uptime' >= uptime, Sleeping' /\ mQuitting' => mQuitting,
           Sleeping' /\ mBlocked /\ ~mQuitting => NotEarlier(mMessages, msg, mMessages', msg')
    PROVE  NoMissedWake' /\ PollSound'
<1>1. /\ MqTypeOK /\ looper.deadline \in Int /\ uptime \in Nat /\ uptime' \in Nat
      /\ mMessages \in Seq(Messages) /\ mMessages' \in Seq(Messages)
      /\ msg \in [Messages -> MsgType] /\ msg' \in [Messages -> MsgType]
  BY DEF MqLists, MqTypeOK, LooperType
<1>2. PICK c, d : c = FirstOf(mMessages, msg) /\ d = FirstOf(mMessages', msg')
  OBVIOUS
<1>3. /\ Candidate = c /\ Candidate' = d /\ When(Candidate) = msg[mMessages[c]].when
      /\ (When(Candidate))' = msg'[mMessages'[d]].when
  BY <1>2 DEF Candidate, When, IsBarrier, IsAsync, FirstOf
<1>4. /\ c # 0 => msg[mMessages[c]].when \in Nat
      /\ d # 0 => msg'[mMessages'[d]].when \in Nat
  <2>1. c \in 0 .. Len(mMessages) /\ d \in 0 .. Len(mMessages')
    BY <1>1, <1>2, FirstIs
  <2>2. Len(mMessages) \in Nat /\ Len(mMessages') \in Nat
    BY <1>1, LenProperties
  <2>3. c # 0 => c \in 1 .. Len(mMessages)
    BY <2>1, <2>2
  <2>4. d # 0 => d \in 1 .. Len(mMessages')
    BY <2>1, <2>2
  <2>5. c # 0 => mMessages[c] \in Messages
    BY <1>1, <2>3
  <2>6. d # 0 => mMessages'[d] \in Messages
    BY <1>1, <2>4
  <2> QED BY <1>1, <2>5, <2>6 DEF MsgType
<1>5. CASE ~Sleeping'
  BY <1>5 DEF Sleeping, NoMissedWake, PollSound
<1>6. CASE Sleeping'
  <2>0. Sleeping /\ looper'.deadline = looper.deadline /\ mBlocked' = mBlocked
    BY <1>6
  <2>1. PollSound'
    BY <1>1, <1>6, <2>0 DEF PollSound, Sleeping
  <2>2. CASE looper.deadline # Forever /\ looper.deadline <= uptime
    <3>1. looper'.deadline # Forever /\ looper'.deadline <= uptime'
      BY <1>1, <2>0, <2>2
    <3>2. d # 0 => looper'.deadline <= Later(msg'[mMessages'[d]].when, uptime')
      BY <1>1, <1>4, <2>0, <3>1 DEF Later
    <3> QED BY <1>3, <2>1, <3>1, <3>2 DEF NoMissedWake, Later
  <2>3. CASE ~(looper.deadline # Forever /\ looper.deadline <= uptime)
    <3>1. mBlocked /\ ~mQuitting
      <4>1. ~mQuitting
        BY <2>0, <2>3 DEF NoMissedWake, Sleeping
      <4>2. mBlocked
        BY <2>0, <2>3 DEF PollSound, Sleeping
      <4> QED BY <4>1, <4>2
    <3>2. ~mQuitting'
      BY <1>6, <3>1
    <3>3. d # 0 => c # 0 /\ msg[mMessages[c]].when <= msg'[mMessages'[d]].when
      BY <1>2, <1>6, <3>1 DEF NotEarlier
    <3>4. c # 0 => looper.deadline # Forever /\ looper.deadline <= Later(msg[mMessages[c]].when, uptime)
      BY <1>3, <2>0 DEF NoMissedWake, Sleeping
    <3>5. d # 0 => looper'.deadline # Forever /\ looper'.deadline <= Later(msg'[mMessages'[d]].when, uptime')
      BY <1>1, <1>4, <2>0, <3>3, <3>4 DEF Later
    <3> QED BY <1>3, <2>1, <3>2, <3>5 DEF NoMissedWake, Later
  <2> QED BY <2>2, <2>3
<1> QED BY <1>5, <1>6

\* Nor does a change of other fields.
LEMMA SameNotEarlier ==
    ASSUME MqLists, NEW f \in [Messages -> MsgType],
           \A m \in Messages : f[m].when = msg[m].when /\ f[m].barrier = msg[m].barrier /\ f[m].async = msg[m].async
    PROVE  NotEarlier(mMessages, msg, mMessages, f)
<1>1. MqTypeOK /\ MessagesAccounted
  BY DEF MqLists
<1>2. PICK q : q = mMessages
  OBVIOUS
<1>3. /\ q \in Seq(Messages) /\ Len(q) \in Nat /\ msg \in [Messages -> MsgType] /\ ByTime(q, msg)
      /\ \A i \in 1 .. Len(q) : q[i] \in Messages /\ msg[q[i]].barrier \in BOOLEAN
  BY <1>1, <1>2, QueueTypes, AccountedNow DEF MqTypeOK, IsBarrier
<1>4. PICK c : c = FirstOf(q, f)
  OBVIOUS
<1> SUFFICES ASSUME c # 0
             PROVE  FirstOf(q, msg) # 0 /\ msg[q[FirstOf(q, msg)]].when <= f[q[c]].when
  BY <1>2, <1>4 DEF NotEarlier
<1>5. c \in 1 .. Len(q) /\ q # <<>> /\ (f[q[1]].barrier => f[q[c]].async)
  <2>1. c \in 0 .. Len(q) /\ q # <<>>
    BY <1>4, <1>3, FirstIs
  <2>2. f[q[1]].barrier => f[q[c]].async
    BY <1>3, <1>4, <2>1, FirstIs
  <2> QED BY <1>3, <2>1, <2>2
<1>6. 1 \in 1 .. Len(q)
  BY <1>3, <1>5
<1>7. msg[q[c]].async \/ ~msg[q[1]].barrier
  BY <1>3, <1>5, <1>6
<1>8. FirstOf(q, msg) # 0 /\ msg[q[FirstOf(q, msg)]].when <= msg[q[c]].when
  BY <1>3, <1>5, <1>7, AsyncIsLater
<1> QED BY <1>3, <1>5, <1>8

\* A thread that enqueues a message and does not wake the looper
LEMMA EnqueueWake ==
    ASSUME MqInv, MqTypeOK', NEW t \in Senders, NEW when \in Nat, NEW async \in BOOLEAN, NEW task \in BOOLEAN,
           enqueueMessage(t, when, async, task)
    PROVE  NoMissedWake' /\ PollSound'
<1>1. MqLists /\ MqTypeOK /\ HoldersSound /\ MessagesAccounted /\ PollSound /\ NoMissedWake
  BY DEF MqInv, MqLists
<1>2. PICK x, k : x = sender[t].m /\ k = Place(when)
  OBVIOUS
<1>3. PICK r : r = [when |-> when, barrier |-> FALSE, async |-> async, task |-> IF task THEN t ELSE Nobody]
  OBVIOUS
<1>4. PICK need : need = needWake(when, async)
  OBVIOUS
<1>5. /\ msg' = [msg EXCEPT ![x] = r] /\ mMessages' = InsertAt(mMessages, k, x)
      /\ awake' = (awake \/ need) /\ sender[t].pc = "holds"
      /\ UNCHANGED <<mBlocked, mQuitting, looper, uptime>>
  BY <1>2, <1>3, <1>4 DEF enqueueMessage
<1>6. x \in Messages /\ x \notin ToSet(mMessages)
  <2>1. x # NoMessage
    BY <1>1, <1>2, <1>5 DEF HoldersSound
  <2>2. x \in Messages
    BY <1>1, <1>2, <2>1 DEF SenderType, MqTypeOK
  <2> QED BY <1>1, <1>2, <2>1, <2>2, AccountedNow DEF Apart
<1>7. PICK f : f = msg'
  OBVIOUS
<1>8. f \in [Messages -> MsgType] /\ f[x] = r /\ \A m \in Messages : m # x => f[m] = msg[m]
  BY <1>1, <1>5, <1>6, <1>7 DEF MqTypeOK
<1>9. k \in 1 .. Len(mMessages) + 1 /\ \A i \in 1 .. k - 1 : When(i) <= f[x].when
  BY <1>1, <1>2, <1>3, <1>8, PlaceIs
<1>10. ASSUME Sleeping', mBlocked PROVE NotEarlier(mMessages, msg, mMessages', msg')
  <2>1. ~needWake(when, async)
    <3>1. ~need
      BY <1>5, <1>10 DEF Sleeping
    <3> QED BY <1>4, <3>1
  <2>2. ~NewHead(when) /\ ~(IsBarrier(1) /\ async /\ \A i \in 2 .. k - 1 : ~IsAsync(i))
    BY <1>2, <1>10, <2>1 DEF needWake
  <2>3. k # 1
    BY <1>1, <1>2, <2>2, PlaceIs
  <2>4. k > 1 /\ IsBarrier(1) /\ f[x].async => \E i \in 2 .. k - 1 : IsAsync(i)
    BY <1>3, <1>8, <2>2
  <2>5. ByTime(mMessages, msg)
    BY <1>1, AccountedNow
  <2>6. NotEarlier(mMessages, msg, InsertAt(mMessages, k, x), f)
    BY <1>1, <1>6, <1>8, <1>9, <2>3, <2>4, <2>5, InsertNotEarlier
  <2> QED BY <1>5, <1>7, <2>6
<1>11. Sleeping' => Sleeping
  BY <1>5 DEF Sleeping
<1>12. uptime' >= uptime
  BY <1>1, <1>5 DEF MqTypeOK
<1> QED BY <1>1, <1>5, <1>10, <1>11, <1>12, Undisturbed

\* postSyncBarrier needs to wake nobody.
LEMMA PostBarrierWake ==
    ASSUME MqInv, MqTypeOK', NEW when \in Nat \ {0}, postSyncBarrier(when)
    PROVE  NoMissedWake' /\ PollSound'
<1>1. MqLists /\ MqTypeOK /\ HoldersSound /\ MessagesAccounted /\ PollSound /\ NoMissedWake
  BY DEF MqInv, MqLists
<1>2. PICK x, k : x = obtain /\ k = Place(when)
  OBVIOUS
<1>3. PICK r : r = [Blank EXCEPT !.when = when, !.barrier = TRUE]
  OBVIOUS
<1>4. r.when = when /\ r.barrier /\ ~r.async
  BY <1>3 DEF Blank
<1>5. /\ msg' = [msg EXCEPT ![x] = r] /\ mMessages' = InsertAt(mMessages, k, x)
      /\ UNCHANGED <<mBlocked, mQuitting, awake, looper, uptime>>
  BY <1>2, <1>3 DEF postSyncBarrier
<1>6. x \in Messages /\ x \notin ToSet(mMessages)
  BY <1>1, <1>2, ObtainIs DEF postSyncBarrier
<1>7. PICK f : f = msg'
  OBVIOUS
<1>8. f \in [Messages -> MsgType] /\ f[x] = r /\ \A m \in Messages : m # x => f[m] = msg[m]
  BY <1>1, <1>5, <1>6, <1>7 DEF MqTypeOK
<1>9. k \in 1 .. Len(mMessages) + 1 /\ \A i \in 1 .. k - 1 : When(i) <= f[x].when
  BY <1>1, <1>2, <1>4, <1>8, PlaceIs
<1>10. NotEarlier(mMessages, msg, mMessages', msg')
  <2>1. ByTime(mMessages, msg)
    BY <1>1, AccountedNow
  <2>2. f[x].barrier /\ ~f[x].async
    BY <1>4, <1>8
  <2>3. NotEarlier(mMessages, msg, InsertAt(mMessages, k, x), f)
    BY <1>1, <1>6, <1>8, <1>9, <2>1, <2>2, InsertNotEarlier
  <2> QED BY <1>5, <1>7, <2>3
<1>11. Sleeping' => Sleeping
  BY <1>5 DEF Sleeping
<1>12. uptime' >= uptime
  BY <1>1, <1>5 DEF MqTypeOK
<1> QED BY <1>1, <1>5, <1>10, <1>11, <1>12, Undisturbed

\* removeSyncBarrier wakes the looper when it has to.
LEMMA RemoveBarrierWake ==
    ASSUME MqInv, MqTypeOK', NEW k \in DOMAIN mMessages, removeSyncBarrier(k)
    PROVE  NoMissedWake' /\ PollSound'
<1>1. MqLists /\ MqTypeOK /\ HoldersSound /\ MessagesAccounted /\ PollSound /\ NoMissedWake
  BY DEF MqInv, MqLists
<1>2. k \in 1 .. Len(mMessages) /\ Len(mMessages) \in Nat
  BY <1>1, QueueTypes
<1>3. PICK ms : ms = <<mMessages[k]>>
  OBVIOUS
<1>4. PICK need : need = removeNeedsWake(k)
  OBVIOUS
<1>5. /\ mMessages' = RemoveAt(mMessages, k) /\ msg' = Cleared(ms) /\ IsBarrier(k)
      /\ awake' = (awake \/ (need /\ ~mQuitting))
      /\ UNCHANGED <<mBlocked, mQuitting, looper, uptime>>
  BY <1>3, <1>4 DEF removeSyncBarrier
<1>6. ms \in Seq(Messages) /\ ToSet(ms) = {mMessages[k]} /\ ToSet(mMessages) \subseteq Messages
  BY <1>1, <1>2, <1>3, QueueTypes, OneElement
<1>7. PICK f : f = msg'
  OBVIOUS
<1>8. f \in [Messages -> MsgType] /\ \A m \in ToSet(mMessages) \ {mMessages[k]} : f[m] = msg[m]
  BY <1>1, <1>5, <1>6, <1>7, ClearedType
<1>9. ASSUME Sleeping', ~mQuitting PROVE NotEarlier(mMessages, msg, mMessages', msg')
  <2>1. ~removeNeedsWake(k)
    <3>1. ~need
      BY <1>5, <1>9 DEF Sleeping
    <3> QED BY <1>4, <3>1
  <2>2. k = 1 => Len(mMessages) > 1 /\ IsBarrier(1) /\ IsBarrier(2)
    BY <1>2, <1>5, <2>1 DEF removeNeedsWake
  <2>3. NotEarlier(mMessages, msg, RemoveAt(mMessages, k), f)
    BY <1>1, <1>2, <1>8, <2>2, RemoveNotEarlier
  <2> QED BY <1>5, <1>7, <2>3
<1>10. Sleeping' => Sleeping
  BY <1>5 DEF Sleeping
<1>11. uptime' >= uptime
  BY <1>1, <1>5 DEF MqTypeOK
<1> QED BY <1>1, <1>5, <1>9, <1>10, <1>11, Undisturbed

\* Steps that leave the queue as it is
LEMMA QueueStaysWake ==
    ASSUME MqInv, MqTypeOK', UNCHANGED <<mMessages, mBlocked, mQuitting, awake>>,
           \A m \in Messages : /\ msg'[m].when = msg[m].when /\ msg'[m].barrier = msg[m].barrier
                               /\ msg'[m].async = msg[m].async,
           looper'.pc = "poll" => looper' = looper, uptime' >= uptime
    PROVE  NoMissedWake' /\ PollSound'
<1>1. MqLists /\ MqTypeOK /\ HoldersSound /\ MessagesAccounted /\ PollSound /\ NoMissedWake
  BY DEF MqInv, MqLists
<1>2. PICK f \in [Messages -> MsgType] : f = msg'
  BY DEF MqTypeOK
<1>3. NotEarlier(mMessages, msg, mMessages, f)
  BY <1>1, <1>2, SameNotEarlier
<1>4. NotEarlier(mMessages, msg, mMessages', msg')
  BY <1>2, <1>3
<1>5. Sleeping' => Sleeping /\ looper' = looper
  BY DEF Sleeping
<1> QED BY <1>1, <1>4, <1>5, Undisturbed

\* The looper is not about to wait, or looks at the queue right away.
LEMMA AtOnceWake ==
    ASSUME MqInv, MqTypeOK',
           looper'.pc # "poll" \/ awake' \/ (looper'.deadline = uptime' /\ looper'.deadline # Forever)
    PROVE  NoMissedWake' /\ PollSound'
<1>1. uptime' \in Nat /\ mMessages' \in Seq(Messages) /\ msg' \in [Messages -> MsgType]
  BY DEF MqTypeOK
<1>2. PICK d : d = FirstOf(mMessages', msg')
  OBVIOUS
<1>3. Candidate' = d /\ (When(Candidate))' = msg'[mMessages'[d]].when
  BY <1>2 DEF Candidate, When, IsBarrier, IsAsync, FirstOf
<1>4. d # 0 => msg'[mMessages'[d]].when \in Nat
  <2>1. d \in 0 .. Len(mMessages') /\ Len(mMessages') \in Nat
    BY <1>1, <1>2, FirstIs, LenProperties
  <2>2. d # 0 => d \in 1 .. Len(mMessages')
    BY <2>1
  <2>3. d # 0 => mMessages'[d] \in Messages
    BY <1>1, <2>2
  <2> QED BY <1>1, <2>3 DEF MsgType
<1>5. CASE looper'.pc # "poll" \/ awake'
  BY <1>5 DEF NoMissedWake, PollSound
<1>6. CASE looper'.deadline = uptime' /\ looper'.deadline # Forever
  <2>1. d # 0 => looper'.deadline <= Later(msg'[mMessages'[d]].when, uptime')
    BY <1>1, <1>4, <1>6 DEF Later
  <2>2. PollSound'
    BY <1>1, <1>6 DEF PollSound
  <2> QED BY <1>1, <1>3, <1>6, <2>1, <2>2 DEF NoMissedWake
<1> QED BY <1>5, <1>6

\* next() blocks for exactly the message it would take.
LEMMA BlockWake ==
    ASSUME MqInv, MqTypeOK', NextBlocks PROVE NoMissedWake' /\ PollSound'
<1>1. MqLists /\ MqTypeOK
  BY DEF MqInv, MqLists
<1>2. PICK d, e : d = Deadline /\ e = IdleCount
  OBVIOUS
<1>3. /\ looper' = [looper EXCEPT !.pc = "poll", !.deadline = d, !.idleCount = e]
      /\ mBlocked' = TRUE /\ ~mQuitting
      /\ UNCHANGED <<mMessages, msg, mQuitting, uptime>>
  BY <1>2 DEF NextBlocks
<1>4. looper \in LooperType /\ uptime \in Nat
  BY <1>1 DEF MqTypeOK
<1>5. looper'.deadline = d
  BY <1>3, <1>4 DEF LooperType
<1>6. PICK c : c = Candidate
  OBVIOUS
<1>7. Candidate' = c /\ When(Candidate)' = msg[mMessages[c]].when /\ When(Candidate) = msg[mMessages[c]].when
  BY <1>3, <1>6 DEF Candidate, When, IsBarrier, IsAsync
<1>8. c # 0 => d = msg[mMessages[c]].when /\ d \in Nat
  <2>1. c \in 0 .. Len(mMessages) /\ Len(mMessages) \in Nat
    BY <1>1, <1>6, CandidateIs, QueueTypes
  <2>2. c # 0 => c \in 1 .. Len(mMessages)
    BY <2>1
  <2>3. c # 0 => When(c) \in Nat
    BY <1>1, <2>2, QueueTypes
  <2>4. c # 0 => d = When(c)
    BY <1>2, <1>6 DEF Deadline
  <2> QED BY <2>3, <2>4 DEF When
<1>9. c # 0 => d # Forever /\ d <= Later(msg[mMessages[c]].when, uptime)
  BY <1>4, <1>8 DEF Later, Forever
<1>10. NoMissedWake'
  BY <1>3, <1>5, <1>7, <1>9 DEF NoMissedWake
<1>11. PollSound'
  BY <1>3 DEF PollSound
<1> QED BY <1>10, <1>11

\* Every step wakes the looper when it has to.
LEMMA WakeStep ==
    ASSUME MqInv, MqTypeOK', MqNext \/ UNCHANGED mqVars PROVE NoMissedWake' /\ PollSound'
<1>1. /\ MqTypeOK /\ MqLists /\ msg \in [Messages -> MsgType] /\ uptime \in Nat /\ looper \in LooperType
      /\ HoldersSound
  BY DEF MqInv, MqLists, MqTypeOK
<1>2. CASE \/ UNCHANGED mqVars \/ MqTick
           \/ \E t \in Senders : Obtain(t) \/ enqueueOnDeadThread(t) \/ ScissorsDone(t)
  <2>1. /\ UNCHANGED <<mMessages, mBlocked, mQuitting, awake, msg, looper>>
        /\ uptime' = uptime \/ uptime' = uptime + 1
    BY <1>2 DEF mqVars, MqTick, Obtain, enqueueOnDeadThread, ScissorsDone
  <2>2. uptime' >= uptime
    BY <1>1, <2>1
  <2> QED BY <2>1, <2>2, QueueStaysWake
<1>3. ASSUME NEW t \in Senders, ScissorsTimeout(t) PROVE NoMissedWake' /\ PollSound'
  <2>1. /\ UNCHANGED <<mMessages, mBlocked, mQuitting, awake, looper, uptime>>
        /\ msg' = [m \in Messages |-> IF msg[m].task = t THEN [msg[m] EXCEPT !.task = Nobody] ELSE msg[m]]
    BY <1>3 DEF ScissorsTimeout
  <2>2. \A m \in Messages : /\ [msg[m] EXCEPT !.task = Nobody].when = msg[m].when
                            /\ [msg[m] EXCEPT !.task = Nobody].barrier = msg[m].barrier
                            /\ [msg[m] EXCEPT !.task = Nobody].async = msg[m].async
    BY <1>1 DEF MsgType
  <2>3. \A m \in Messages : /\ msg'[m].when = msg[m].when /\ msg'[m].barrier = msg[m].barrier
                            /\ msg'[m].async = msg[m].async
    BY <2>1, <2>2
  <2>4. uptime' >= uptime
    BY <1>1, <2>1
  <2> QED BY <2>1, <2>3, <2>4, QueueStaysWake
<1>4. CASE (\E keep \in BOOLEAN : queueIdle(keep)) \/ NextDisposes \/ NextIdles \/ NextReturns \/ nativePollOnce
  <2>1. looper'.pc # "poll"
    <3>1. ASSUME NEW keep \in BOOLEAN, queueIdle(keep) PROVE looper'.pc # "poll"
      <4>1. PICK l : l = Tail(looper.pending)
        OBVIOUS
      <4>2. looper' = [looper EXCEPT !.pending = l] /\ looper.pc = "idle"
        BY <3>1, <4>1 DEF queueIdle
      <4> QED BY <1>1, <4>2 DEF LooperType
    <3>2. CASE NextDisposes
      BY <1>1, <3>2 DEF NextDisposes, LooperType
    <3>3. CASE NextIdles
      <4>1. PICK d, e, l : d = Deadline /\ e = IdleCount /\ l = SetToSeq(mIdleHandlers)
        OBVIOUS
      <4>2. looper' = [looper EXCEPT !.pc = "idle", !.deadline = d, !.idleCount = e, !.pending = l]
        BY <3>3, <4>1 DEF NextIdles
      <4> QED BY <1>1, <4>2 DEF LooperType
    <3>4. CASE NextReturns
      <4>1. PICK x : x = mMessages[Candidate]
        OBVIOUS
      <4>2. looper' = [looper EXCEPT !.pc = "dispatch", !.m = x]
        BY <3>4, <4>1 DEF NextReturns
      <4> QED BY <1>1, <4>2 DEF LooperType
    <3>5. CASE nativePollOnce
      <4>1. looper' = [looper EXCEPT !.pc = "next", !.deadline = 0]
        BY <3>5 DEF nativePollOnce
      <4> QED BY <1>1, <4>1 DEF LooperType
    <3> QED BY <1>4, <3>1, <3>2, <3>3, <3>4, <3>5
  <2> QED BY <2>1, AtOnceWake
<1>5. CASE IdleDone
  <2>1. PICK u \in Nat : u = uptime
    BY <1>1
  <2>2. looper' = [looper EXCEPT !.pc = "poll", !.deadline = u, !.idleCount = 0] /\ uptime' = u
    BY <1>5, <2>1 DEF IdleDone
  <2>3. looper'.deadline = u
    BY <1>1, <2>2 DEF LooperType
  <2> QED BY <2>2, <2>3, AtOnceWake DEF Forever
<1>6. CASE dispatchMessage
  <2>1. looper' = [pc |-> "poll", deadline |-> uptime, idleCount |-> -1, pending |-> <<>>, m |-> NoMessage]
        /\ uptime' = uptime
    BY <1>6 DEF dispatchMessage, EnterNext
  <2>2. looper'.deadline = uptime' /\ looper'.deadline # Forever
    BY <1>1, <2>1 DEF Forever
  <2> QED BY <2>2, AtOnceWake
<1>7. ASSUME NEW safe \in BOOLEAN, quit(safe) PROVE NoMissedWake' /\ PollSound'
  <2>1. awake'
    BY <1>7 DEF quit
  <2> QED BY <2>1, AtOnceWake
<1> QED BY <1>1, <1>2, <1>3, <1>4, <1>5, <1>6, <1>7, MqSteps, EnqueueWake, PostBarrierWake,
           RemoveBarrierWake, BlockWake

\* Every step keeps the invariant.
LEMMA MqInvStep == MqInv /\ [MqNext]_mqVars => MqInv'
<1> SUFFICES ASSUME MqInv, MqNext \/ UNCHANGED mqVars PROVE MqInv'
  OBVIOUS
<1>1. MqLists /\ TasksSound
  BY DEF MqInv, MqLists
<1>2. MqLists' /\ TasksSound'
  BY <1>1, ListsStep
<1>3. NoMissedWake' /\ PollSound'
  BY <1>2, WakeStep DEF MqLists
<1> QED BY <1>2, <1>3 DEF MqInv, MqLists

\* The inductive invariant of the message queue
THEOREM MqInvariance == MqSpec => []MqInv
<1> QED BY MqInitInv, MqInvStep, PTL DEF MqSpec

\* The variables have their types.
THEOREM MqTypeCorrect == MqSpec => []MqTypeOK
<1>1. MqInv => MqTypeOK
  BY DEF MqInv
<1> QED BY <1>1, MqInvariance, PTL

\* A looper that nobody woke wakes up by itself in time for the message next() would take,
\* and for a quit: no wake-up is missing, for any number of threads and messages
\* (enqueueMessage, removeSyncBarrier, quit, next).
THEOREM NoMissedWakeAlways == MqSpec => []NoMissedWake
<1>1. MqInv => NoMissedWake
  BY DEF MqInv
<1> QED BY <1>1, MqInvariance, PTL

\* A message object is in one place, a pooled one carries nothing, and the queue is in the
\* order of time (Message.obtain and recycle, enqueueMessage, quit).
THEOREM MessagesAccountedAlways == MqSpec => []MessagesAccounted
<1>1. MqInv => MessagesAccounted
  BY DEF MqInv
<1> QED BY <1>1, MqInvariance, PTL

-----------------------------------------------------------------------------
(* The broadcast queue *)

RecType == [receivers : Seq(Receivers), next : Nat \ {0},
            state : {"NONE", "IDLE", "CALL_DONE_RECEIVE", "APP_RECEIVE"},
            ordered : BOOLEAN, resultTo : BOOLEAN, token : 0 .. MaxRecords, dispatched : BOOLEAN,
            over : BOOLEAN, deferred : BOOLEAN, origin : 0 .. MaxBroadcasts]

PastType == [ordered : BOOLEAN, resultTo : BOOLEAN, served : Seq(Receivers), results : Nat,
             deferred : BOOLEAN, cut : BOOLEAN]

BcTypeOK ==
    /\ bcRec \in [BcIds -> RecType]
    /\ bcParallel \in Seq(BcIds) /\ bcOrdered \in Seq(BcIds) /\ bcDeferred \in Seq(BcIds)
    /\ bcCurrent \in BcIds \cup {NoRecord}
    /\ bcDue \in BOOLEAN /\ bcScheduled \in BOOLEAN /\ bcTimeout \in BOOLEAN
    /\ bcDeferring \subseteq BcApps
    /\ bcPending \in [id : BcIds \cup {NoRecord}, index : Nat]
    /\ bcSplits \in [BcIds -> Int]
    /\ bcProc \in [BcApps -> {"dead", "starting", "running"}]
    /\ bcPc \in {"out", "begin", "loop"}
    /\ bcPast \in [1 .. MaxBroadcasts -> PastType]
    /\ bcUsed \in [sent : 0 .. MaxBroadcasts, records : 0 .. MaxRecords, troubles : Int]

\* The records that are on a list or current
InUse == ToSet(bcParallel) \cup ToSet(bcOrdered) \cup ToSet(bcDeferred) \cup ({bcCurrent} \ {NoRecord})

\* A record is in one place once, and numbers are not used again.
RecordsPlaced ==
    /\ IsInjective(bcParallel) /\ IsInjective(bcOrdered) /\ IsInjective(bcDeferred)
    /\ ToSet(bcParallel) \cap ToSet(bcOrdered) = {}
    /\ ToSet(bcParallel) \cap ToSet(bcDeferred) = {}
    /\ ToSet(bcOrdered) \cap ToSet(bcDeferred) = {}
    /\ bcCurrent \notin ToSet(bcParallel) \cup ToSet(bcOrdered) \cup ToSet(bcDeferred)
    /\ InUse \subseteq 1 .. bcUsed.records
    /\ bcPc = "loop" => bcParallel = <<>>

\* Records wait untouched; only the current one is being delivered.
RecordsSound ==
    /\ \A i \in InUse : bcRec[i].origin \in 1 .. bcUsed.sent /\ IsInjective(bcRec[i].receivers)
    /\ \A i \in ToSet(bcParallel) :
          /\ bcRec[i].receivers = Registered /\ Registered # <<>>
          /\ bcRec[i].next = 1 /\ ~bcRec[i].resultTo /\ bcRec[i].token = 0 /\ ~bcRec[i].over
          /\ ~bcPast[bcRec[i].origin].ordered
    /\ \A i \in InUse \ ToSet(bcParallel) :
          /\ bcRec[i].resultTo = bcPast[bcRec[i].origin].resultTo
          /\ bcRec[i].ordered = bcPast[bcRec[i].origin].ordered
    /\ \A i \in ToSet(bcOrdered) : bcRec[i].next = 1 /\ bcRec[i].token = 0
    /\ \A i \in ToSet(bcOrdered) \cup ToSet(bcDeferred) : bcRec[i].state = "IDLE" /\ ~bcRec[i].over
    /\ \A i \in InUse : bcRec[i].over => bcRec[i].state = "IDLE" /\ bcPast[bcRec[i].origin].cut
    /\ \A b \in 1 .. MaxBroadcasts : b > bcUsed.sent =>
          bcPast[b].results = 0 /\ bcPast[b].served = <<>> /\ ~bcPast[b].cut
    /\ \A b \in 1 .. MaxBroadcasts : bcPast[b].resultTo => bcPast[b].ordered

\* Whoever waits for a receiver has armed the time-out, and a process is started for the
\* receiver the current record has just moved past.
WaitsArmed ==
    /\ bcCurrent # NoRecord => /\ Cur.state # "NONE"
                               /\ Cur.state # "IDLE" => bcTimeout /\ Cur.next > 1 /\ Cur.next <= Len(Cur.receivers) + 1
    /\ bcPending.id # NoRecord =>
          /\ bcPending.id = bcCurrent /\ Cur.state = "APP_RECEIVE"
          /\ bcPending.index \in 1 .. Len(Cur.receivers) /\ Cur.next = bcPending.index + 1

\* A broadcast that was not split is one record; the parts of one that was have its token, which
\* counts them.
SplitsCounted ==
    /\ \A b \in 1 .. bcUsed.sent : bcPast[b].resultTo => \A i \in Live(b) :
          IF bcRec[i].token = 0 THEN Live(b) = {i}
          ELSE /\ \A j \in Live(b) : bcRec[j].token = bcRec[i].token
               /\ bcSplits[bcRec[i].token] = Cardinality(Live(b))
    /\ \A i \in InUse :
          /\ bcRec[i].token <= bcUsed.records
          /\ bcRec[i].token # 0 => bcRec[i].resultTo
          /\ \A j \in InUse : /\ bcRec[j].token = i => bcRec[i].token = i
                              /\ bcRec[i].token # 0 /\ bcRec[i].token = bcRec[j].token =>
                                    bcRec[i].origin = bcRec[j].origin

\* The receivers a record still has to deliver to, the one a process is started for included
Due(i) == IF bcPending.id = i THEN bcPending.index ELSE bcRec[i].next
Rest(i) == {bcRec[i].receivers[k] : k \in Due(i) .. Len(bcRec[i].receivers)}

InOrder(s) == \A i, j \in 1 .. Len(s) : i < j => ~Before(s[j], s[i])

\* Served or still due: each receiver is one or the other, once, unless the broadcast was cut
\* short; and an ordered one that was not deferred is served along its list.
ServiceFor(b) ==
    LET past == bcPast[b] IN
    /\ IsInjective(past.served)
    /\ \A i \in Live(b) : \A x \in Rest(i) : x \notin ToSet(past.served)
    /\ \A i, j \in Live(b) : i # j => Rest(i) \cap Rest(j) = {}
    /\ ~past.cut => \A x \in Receivers : x \in ToSet(past.served) \/ \E i \in Live(b) : x \in Rest(i)
    /\ past.ordered /\ ~past.deferred =>
          /\ InOrder(past.served)
          /\ \A i, j \in Live(b) : i = j
          /\ \A i \in Live(b) :
                /\ InOrder(bcRec[i].receivers)
                /\ \A x \in ToSet(past.served), y \in Rest(i) : ~Before(y, x)

ServiceSound == \A b \in 1 .. bcUsed.sent : ServiceFor(b)

BcInv == /\ BcTypeOK /\ RecordsPlaced /\ RecordsSound /\ WaitsArmed /\ SplitsCounted /\ ServiceSound
         /\ QueueMoves /\ ResultOnce

-----------------------------------------------------------------------------
(* The merged list of receivers *)

\* The two lists of receivers have nothing in common.
LEMMA ReceiverLists ==
    /\ Registered \in Seq(Receivers) /\ Components \in Seq(Receivers)
    /\ IsInjective(Registered) /\ IsInjective(Components)
    /\ ToSet(Registered) \cap ToSet(Components) = {}
    /\ Receivers \subseteq DOMAIN AppOf
<1>1. Registered \in Seq(DOMAIN AppOf) /\ Components \in Seq(DOMAIN AppOf)
  BY BcAssumption
<1>2. /\ ToSet(Registered) \subseteq DOMAIN AppOf /\ ToSet(Components) \subseteq DOMAIN AppOf
      /\ \A i \in 1 .. Len(Registered) : Registered[i] \in ToSet(Registered)
      /\ \A i \in 1 .. Len(Components) : Components[i] \in ToSet(Components)
  BY <1>1, Elements
<1>3. /\ \A i \in 1 .. Len(Registered) : Registered[i] \in Receivers
      /\ \A i \in 1 .. Len(Components) : Components[i] \in Receivers
  BY <1>2 DEF Receivers
<1>4. Registered \in Seq(Receivers) /\ Components \in Seq(Receivers)
  <2>1. /\ Len(Registered) \in Nat /\ Registered = [i \in 1 .. Len(Registered) |-> Registered[i]]
        /\ Len(Components) \in Nat /\ Components = [i \in 1 .. Len(Components) |-> Components[i]]
    BY <1>1, LenProperties
  <2> QED BY <1>3, <2>1, IsASeq
<1>5. /\ IsInjective(Registered) /\ IsInjective(Components)
      /\ ToSet(Registered) \cap ToSet(Components) = {}
  BY <1>4, BcAssumption, TwoLists
<1> QED BY <1>2, <1>4, <1>5 DEF Receivers

\* One round of the loop that merges
MergeStep(g, n) ==
    IF n = 0 THEN [list |-> <<>>, ir |-> 0]
    ELSE LET ir == g[n - 1].ir
             it == n - 1 - ir
         IN  IF /\ ir < Len(Registered)
                /\ it < Len(Components) => Takes(Registered[ir + 1], Components[it + 1])
               THEN [list |-> Append(g[n - 1].list, Registered[ir + 1]), ir |-> ir + 1]
               ELSE [list |-> Append(g[n - 1].list, Components[it + 1]), ir |-> ir]

\* The merge of broadcastIntentLocked, one step after the other
LEMMA MergeFunction ==
    \E merge : /\ \A n \in 0 .. Len(Components) + Len(Registered) : merge[n] = MergeStep(merge, n)
               /\ Merged(Components, Registered) = merge[Len(Components) + Len(Registered)].list
<1> DEFINE total == Len(Components) + Len(Registered)
           Is(g, m) == g = [n \in 0 .. m |-> MergeStep(g, n)]
           P == {m \in Nat : \E g : Is(g, m)}
<1>0. total \in Nat
  BY ReceiverLists, LenProperties
<1>1. 0 \in P
  <2>1. Is([n \in 0 .. 0 |-> [list |-> <<>>, ir |-> 0]], 0)
    BY DEF MergeStep
  <2> QED BY <2>1
<1>2. ASSUME NEW m \in Nat, m \in P PROVE m + 1 \in P
  <2>1. PICK g : Is(g, m)
    BY <1>2
  <2> DEFINE h == [n \in 0 .. m + 1 |-> IF n = m + 1 THEN MergeStep(g, m + 1) ELSE g[n]]
  <2>2. ASSUME NEW n \in 0 .. m + 1 PROVE h[n] = MergeStep(h, n)
    <3>1. CASE n = m + 1
      <4>1. h[n] = MergeStep(g, m + 1) /\ h[m] = g[m] /\ n - 1 = m /\ n # 0
        BY <3>1
      <4> HIDE DEF h
      <4>2. MergeStep(h, n) = MergeStep(g, n)
        BY <4>1 DEF MergeStep
      <4> QED BY <3>1, <4>1, <4>2
    <3>2. CASE n \in 0 .. m
      <4>1. h[n] = g[n] /\ g[n] = MergeStep(g, n)
        BY <2>1, <3>2
      <4>2. n # 0 => h[n - 1] = g[n - 1]
        BY <3>2
      <4> HIDE DEF h
      <4>3. MergeStep(h, n) = MergeStep(g, n)
        BY <4>2 DEF MergeStep
      <4> QED BY <4>1, <4>3
    <3> QED BY <3>1, <3>2
  <2>3. Is(h, m + 1)
    BY <2>2
  <2> HIDE DEF h
  <2>4. \E k : Is(k, m + 1)
    BY <2>3
  <2> QED BY <2>4
<1>3. P = Nat
  <2> HIDE DEF P
  <2> QED BY <1>1, <1>2, AllNumbers DEF P
<1>4. total \in P
  BY <1>0, <1>3
<1>5. \E g : Is(g, total)
  BY <1>4
<1> DEFINE merge == CHOOSE g : Is(g, total)
<1>6. Is(merge, total)
  BY <1>5
<1>7. Merged(Components, Registered) = merge[total].list
  BY DEF Merged, MergeStep
<1> HIDE DEF merge
<1>8. \A n \in 0 .. total : merge[n] = MergeStep(merge, n)
  BY <1>6
<1> QED BY <1>7, <1>8

\* An element that is not due before those of a list in order can be put behind it.
LEMMA AppendInOrder ==
    ASSUME NEW s \in Seq(Receivers), NEW x \in Receivers, InOrder(s),
           \A y \in ToSet(s) : ~Before(x, y)
    PROVE  InOrder(Append(s, x))
<1>1. PICK t : t = Append(s, x)
  OBVIOUS
<1>2. /\ Len(s) \in Nat /\ Len(t) = Len(s) + 1
      /\ \A i \in 1 .. Len(s) : t[i] = s[i] /\ s[i] \in ToSet(s)
      /\ t[Len(s) + 1] = x
  BY <1>1, AppendProperties, LenProperties, Elements
<1> SUFFICES ASSUME NEW i \in 1 .. Len(t), NEW j \in 1 .. Len(t), i < j
             PROVE  ~Before(t[j], t[i])
  BY <1>1 DEF InOrder
<1>3. i \in 1 .. Len(s)
  BY <1>2
<1>4. CASE j = Len(s) + 1
  BY <1>2, <1>3, <1>4
<1>5. CASE j \in 1 .. Len(s)
  BY <1>2, <1>3, <1>5 DEF InOrder
<1>6. j = Len(s) + 1 \/ j \in 1 .. Len(s)
  BY <1>2
<1> QED BY <1>4, <1>5, <1>6

\* What the rounds so far have put on the list, and what comes later
MergeSound(list, ir, it) ==
    /\ ir \in 0 .. Len(Registered) /\ it \in 0 .. Len(Components)
    /\ list \in Seq(Receivers) /\ IsInjective(list) /\ InOrder(list)
    /\ ToSet(list) = {Components[k] : k \in 1 .. it} \cup {Registered[k] : k \in 1 .. ir}
    /\ \A x \in ToSet(list) :
          /\ \A k \in it + 1 .. Len(Components) : ~Before(Components[k], x)
          /\ \A k \in ir + 1 .. Len(Registered) : ~Before(Registered[k], x)

MergedSound(m, n) == MergeSound(m.list, m.ir, n - m.ir)

\* A step of the merge takes one receiver and keeps the order.
LEMMA MergeGoesOn ==
    ASSUME NEW n \in Nat, NEW g, n + 1 <= Len(Components) + Len(Registered),
           MergedSound(g[n], n)
    PROVE  MergedSound(MergeStep(g, n + 1), n + 1)
<1> USE DEF MergedSound
<1>0. /\ Len(Registered) \in Nat /\ Len(Components) \in Nat
      /\ \A k \in 1 .. Len(Registered) : Registered[k] \in ToSet(Registered) /\ Registered[k] \in Receivers
      /\ \A k \in 1 .. Len(Components) :
            /\ Components[k] \in ToSet(Components) /\ Components[k] \in Receivers
            /\ Components[k] \notin ToSet(Registered)
      /\ \A i, j \in 1 .. Len(Registered) : Registered[i] = Registered[j] => i = j
      /\ \A i, j \in 1 .. Len(Components) : Components[i] = Components[j] => i = j
  <2>1. Registered \in Seq(Receivers) /\ Components \in Seq(Receivers)
    BY ReceiverLists
  <2>2. /\ Len(Registered) \in Nat /\ \A k \in 1 .. Len(Registered) : Registered[k] \in Receivers
        /\ Len(Components) \in Nat /\ \A k \in 1 .. Len(Components) : Components[k] \in Receivers
    BY <2>1, LenProperties
  <2>3. /\ \A k \in 1 .. Len(Registered) : Registered[k] \in ToSet(Registered)
        /\ \A i, j \in 1 .. Len(Registered) : Registered[i] = Registered[j] => i = j
    BY <2>1, ReceiverLists, Elements
  <2>4. /\ \A k \in 1 .. Len(Components) : Components[k] \in ToSet(Components)
        /\ \A i, j \in 1 .. Len(Components) : Components[i] = Components[j] => i = j
    BY <2>1, ReceiverLists, Elements
  <2> QED BY <2>2, <2>3, <2>4, ReceiverLists
<1>1. /\ \A i, j \in 1 .. Len(Registered) : i < j => Priority[Registered[i]] >= Priority[Registered[j]]
      /\ \A i, j \in 1 .. Len(Components) : i < j => Priority[Components[i]] >= Priority[Components[j]]
      /\ \A x \in Receivers : Priority[x] \in Int
  BY BcAssumption, ReceiverLists
<1>2. PICK list, ir : list = g[n].list /\ ir = g[n].ir
  OBVIOUS
<1>3. PICK it : it = n - ir
  OBVIOUS
<1>4. /\ ir \in 0 .. Len(Registered) /\ it \in 0 .. Len(Components) /\ n = it + ir
      /\ list \in Seq(Receivers) /\ IsInjective(list) /\ InOrder(list)
      /\ ToSet(list) = {Components[k] : k \in 1 .. it} \cup {Registered[k] : k \in 1 .. ir}
      /\ \A x \in ToSet(list) :
            /\ \A k \in it + 1 .. Len(Components) : ~Before(Components[k], x)
            /\ \A k \in ir + 1 .. Len(Registered) : ~Before(Registered[k], x)
  <2>1. MergeSound(list, ir, it)
    BY <1>2, <1>3
  <2>2. ir \in 0 .. Len(Registered) /\ it \in 0 .. Len(Components)
    BY <2>1 DEF MergeSound
  <2>3. n = it + ir
    BY <1>3, <2>2
  <2> QED BY <2>1, <2>2, <2>3 DEF MergeSound
<1>5. MergeStep(g, n + 1) = IF /\ ir < Len(Registered)
                               /\ it < Len(Components) => Takes(Registered[ir + 1], Components[it + 1])
                              THEN [list |-> Append(list, Registered[ir + 1]), ir |-> ir + 1]
                              ELSE [list |-> Append(list, Components[it + 1]), ir |-> ir]
  <2>1. n + 1 # 0 /\ (n + 1) - 1 = n
    OBVIOUS
  <2> QED BY <1>2, <1>3, <2>1 DEF MergeStep
<1>6. CASE ir < Len(Registered) /\ (it < Len(Components) => Takes(Registered[ir + 1], Components[it + 1]))
  <2> DEFINE x == Registered[ir + 1]
  <2>1. /\ ir + 1 \in 1 .. Len(Registered) /\ x \in Receivers /\ x \in ToSet(Registered)
        /\ ir + 1 \in 0 .. Len(Registered) /\ n + 1 - (ir + 1) = it
        /\ ir + 1 \in ir + 1 .. Len(Registered)
    BY <1>0, <1>4, <1>6
  <2>2. x \notin ToSet(list)
    <3>1. \A k \in 1 .. it : k \in 1 .. Len(Components)
      BY <1>0, <1>4
    <3>2. \A k \in 1 .. ir : k \in 1 .. Len(Registered) /\ k # ir + 1
      BY <1>0, <1>4
    <3> QED BY <1>0, <1>4, <2>1, <3>1, <3>2
  <2>3. \A k \in ir + 2 .. Len(Registered) : ~Before(Registered[k], x)
    <3> TAKE k \in ir + 2 .. Len(Registered)
    <3>1. k \in 1 .. Len(Registered) /\ ir + 1 < k
      BY <1>0, <1>4
    <3>2. Priority[x] >= Priority[Registered[k]]
      BY <1>1, <2>1, <3>1
    <3>3. Priority[x] \in Int /\ Priority[Registered[k]] \in Int
      BY <1>0, <1>1, <2>1, <3>1
    <3> QED BY <2>1, <3>2, <3>3 DEF Before, IsRegistered
  <2>4. \A k \in it + 1 .. Len(Components) : ~Before(Components[k], x)
    <3> TAKE k \in it + 1 .. Len(Components)
    <3>1. k \in 1 .. Len(Components) /\ it + 1 \in 1 .. Len(Components) /\ it < Len(Components)
      BY <1>0, <1>4
    <3>2. Priority[x] >= Priority[Components[it + 1]]
      BY <1>6, <3>1 DEF Takes
    <3>3. Priority[Components[it + 1]] >= Priority[Components[k]]
      BY <1>0, <1>1, <1>4, <3>1
    <3>4. /\ Priority[x] \in Int /\ Priority[Components[k]] \in Int
          /\ Priority[Components[it + 1]] \in Int
      BY <1>0, <1>1, <2>1, <3>1
    <3> QED BY <1>0, <3>1, <3>2, <3>3, <3>4 DEF Before, IsRegistered
  <2>5. \A y \in ToSet(list) : ~Before(x, y)
    BY <1>0, <1>4, <2>1
  <2>6. PICK longer : longer = Append(list, x)
    OBVIOUS
  <2>7. /\ longer \in Seq(Receivers) /\ IsInjective(longer) /\ ToSet(longer) = ToSet(list) \cup {x}
        /\ InOrder(longer)
    BY <1>4, <2>1, <2>2, <2>5, <2>6, AppendOne, AppendInOrder
  <2>8. ToSet(longer) = {Components[k] : k \in 1 .. it} \cup {Registered[k] : k \in 1 .. ir + 1}
    <3>1. \A k \in 1 .. ir + 1 : k = ir + 1 \/ k \in 1 .. ir
      BY <1>4
    <3>2. \A k \in 1 .. ir : k \in 1 .. ir + 1
      BY <1>4
    <3>3. ir + 1 \in 1 .. ir + 1
      BY <1>4
    <3> QED BY <1>4, <2>7, <3>1, <3>2, <3>3
  <2>9. \A y \in ToSet(longer) : /\ \A k \in it + 1 .. Len(Components) : ~Before(Components[k], y)
                                 /\ \A k \in (ir + 1) + 1 .. Len(Registered) : ~Before(Registered[k], y)
    <3>1. \A k \in (ir + 1) + 1 .. Len(Registered) : k \in ir + 1 .. Len(Registered) /\ k \in ir + 2 .. Len(Registered)
      BY <1>0, <1>4
    <3> QED BY <1>4, <2>3, <2>4, <2>7, <3>1
  <2>10. MergeStep(g, n + 1) = [list |-> longer, ir |-> ir + 1]
    BY <1>5, <1>6, <2>6
  <2>11. MergeSound(longer, ir + 1, it)
    BY <1>4, <2>1, <2>7, <2>8, <2>9 DEF MergeSound
  <2> QED BY <2>1, <2>10, <2>11
<1>7. CASE ~(ir < Len(Registered) /\ (it < Len(Components) => Takes(Registered[ir + 1], Components[it + 1])))
  <2> DEFINE x == Components[it + 1]
  <2>1. /\ it + 1 \in 1 .. Len(Components) /\ x \in Receivers /\ x \notin ToSet(Registered)
        /\ it + 1 \in 0 .. Len(Components) /\ n + 1 - ir = it + 1
        /\ it + 1 \in it + 1 .. Len(Components)
    BY <1>0, <1>4, <1>7
  <2>2. x \notin ToSet(list)
    <3>1. \A k \in 1 .. it : k \in 1 .. Len(Components) /\ k # it + 1
      BY <1>0, <1>4
    <3>2. \A k \in 1 .. ir : k \in 1 .. Len(Registered)
      BY <1>0, <1>4
    <3> QED BY <1>0, <1>4, <2>1, <3>1, <3>2
  <2>3. \A k \in it + 2 .. Len(Components) : ~Before(Components[k], x)
    <3> TAKE k \in it + 2 .. Len(Components)
    <3>1. k \in 1 .. Len(Components) /\ it + 1 < k
      BY <1>0, <1>4
    <3>2. Priority[x] >= Priority[Components[k]]
      BY <1>1, <2>1, <3>1
    <3>3. Priority[x] \in Int /\ Priority[Components[k]] \in Int
      BY <1>0, <1>1, <2>1, <3>1
    <3> QED BY <1>0, <3>1, <3>2, <3>3 DEF Before, IsRegistered
  <2>4. \A k \in ir + 1 .. Len(Registered) : ~Before(Registered[k], x)
    <3> TAKE k \in ir + 1 .. Len(Registered)
    <3>1. k \in 1 .. Len(Registered) /\ ir + 1 \in 1 .. Len(Registered) /\ ir < Len(Registered)
      BY <1>0, <1>4
    <3>2. ~(Priority[Registered[ir + 1]] >= Priority[x])
      BY <1>7, <3>1 DEF Takes
    <3>3. Priority[Registered[ir + 1]] >= Priority[Registered[k]]
      BY <1>0, <1>1, <1>4, <3>1
    <3>4. /\ Priority[x] \in Int /\ Priority[Registered[k]] \in Int
          /\ Priority[Registered[ir + 1]] \in Int
      BY <1>0, <1>1, <2>1, <3>1
    <3> QED BY <3>2, <3>3, <3>4 DEF Before, IsRegistered
  <2>5. \A y \in ToSet(list) : ~Before(x, y)
    BY <1>0, <1>4, <2>1
  <2>6. PICK longer : longer = Append(list, x)
    OBVIOUS
  <2>7. /\ longer \in Seq(Receivers) /\ IsInjective(longer) /\ ToSet(longer) = ToSet(list) \cup {x}
        /\ InOrder(longer)
    BY <1>4, <2>1, <2>2, <2>5, <2>6, AppendOne, AppendInOrder
  <2>8. ToSet(longer) = {Components[k] : k \in 1 .. it + 1} \cup {Registered[k] : k \in 1 .. ir}
    <3>1. \A k \in 1 .. it + 1 : k = it + 1 \/ k \in 1 .. it
      BY <1>4
    <3>2. \A k \in 1 .. it : k \in 1 .. it + 1
      BY <1>4
    <3>3. it + 1 \in 1 .. it + 1
      BY <1>4
    <3> QED BY <1>4, <2>7, <3>1, <3>2, <3>3
  <2>9. \A y \in ToSet(longer) : /\ \A k \in (it + 1) + 1 .. Len(Components) : ~Before(Components[k], y)
                                 /\ \A k \in ir + 1 .. Len(Registered) : ~Before(Registered[k], y)
    <3>1. \A k \in (it + 1) + 1 .. Len(Components) : k \in it + 1 .. Len(Components) /\ k \in it + 2 .. Len(Components)
      BY <1>0, <1>4
    <3> QED BY <1>4, <2>3, <2>4, <2>7, <3>1
  <2>10. MergeStep(g, n + 1) = [list |-> longer, ir |-> ir]
    BY <1>5, <1>7, <2>6
  <2>11. MergeSound(longer, ir, it + 1)
    BY <1>4, <2>1, <2>7, <2>8, <2>9 DEF MergeSound
  <2>12. PICK m : m = MergeStep(g, n + 1)
    OBVIOUS
  <2>13. m.list = longer /\ m.ir = ir /\ (n + 1) - m.ir = it + 1
    <3>1. m.list = longer /\ m.ir = ir
      BY <2>10, <2>12
    <3> HIDE DEF x
    <3>2. (n + 1) - ir = it + 1
      BY <1>4
    <3> QED BY <3>1, <3>2
  <2>14. MergedSound(m, n + 1)
    BY <2>11, <2>13
  <2> QED BY <2>12, <2>14
<1> QED BY <1>6, <1>7

\* The list of an ordered broadcast has every receiver once, in the order they are due.
LEMMA MergedInOrder ==
    /\ Merged(Components, Registered) \in Seq(Receivers)
    /\ IsInjective(Merged(Components, Registered))
    /\ InOrder(Merged(Components, Registered))
    /\ ToSet(Merged(Components, Registered)) = Receivers
<1>1. PICK merge : /\ \A n \in 0 .. Len(Components) + Len(Registered) : merge[n] = MergeStep(merge, n)
                   /\ Merged(Components, Registered) = merge[Len(Components) + Len(Registered)].list
  BY MergeFunction
<1>2. Len(Components) \in Nat /\ Len(Registered) \in Nat
  BY ReceiverLists, LenProperties
<1> DEFINE total == Len(Components) + Len(Registered)
           Sound(n) == MergedSound(merge[n], n)
           P == {n \in Nat : n <= total => Sound(n)}
<1>3. 0 \in P
  <2>1. merge[0] = [list |-> <<>>, ir |-> 0]
    <3>1. 0 \in 0 .. total
      BY <1>2
    <3>2. merge[0] = MergeStep(merge, 0)
      BY <1>1, <3>1
    <3> QED BY <3>2 DEF MergeStep
  <2>2. MergeSound(<<>>, 0, 0)
    <3>1. <<>> \in Seq(Receivers) /\ ToSet(<<>>) = {} /\ IsInjective(<<>>) /\ Len(<<>>) = 0
      BY EmptyList
    <3>2. InOrder(<<>>)
      BY <3>1 DEF InOrder
    <3> QED BY <1>2, <3>1, <3>2 DEF MergeSound
  <2>3. merge[0].list = <<>> /\ merge[0].ir = 0 /\ 0 - 0 = 0
    BY <2>1
  <2>4. Sound(0)
    BY <2>2, <2>3 DEF MergedSound
  <2> HIDE DEF Sound
  <2> QED BY <2>4
<1>4. ASSUME NEW n \in Nat, n \in P PROVE n + 1 \in P
  <2> SUFFICES ASSUME n + 1 <= total PROVE Sound(n + 1)
    OBVIOUS
  <2>1. n <= total /\ n + 1 \in 0 .. total
    BY <1>2
  <2>2. MergedSound(MergeStep(merge, n + 1), n + 1)
    BY <1>4, <2>1, MergeGoesOn
  <2>3. merge[n + 1] = MergeStep(merge, n + 1)
    BY <1>1, <2>1
  <2> QED BY <2>2, <2>3
<1>5. P = Nat
  <2> HIDE DEF P
  <2> QED BY <1>3, <1>4, AllNumbers DEF P
<1>6. Sound(total)
  <2>1. total \in P /\ total \in Nat
    BY <1>2, <1>5
  <2> QED BY <2>1
<1>7. PICK m : m = merge[total]
  OBVIOUS
<1>8. m.ir = Len(Registered) /\ total - m.ir = Len(Components)
  BY <1>2, <1>6, <1>7 DEF MergedSound, MergeSound
<1>9. /\ m.list \in Seq(Receivers) /\ IsInjective(m.list) /\ InOrder(m.list)
      /\ ToSet(m.list) = {Components[k] : k \in 1 .. Len(Components)}
                         \cup {Registered[k] : k \in 1 .. Len(Registered)}
  BY <1>6, <1>7, <1>8 DEF MergedSound, MergeSound
<1>10. /\ ToSet(Components) = {Components[k] : k \in 1 .. Len(Components)}
       /\ ToSet(Registered) = {Registered[k] : k \in 1 .. Len(Registered)}
  BY ReceiverLists, LenProperties DEF ToSet
<1> QED BY <1>1, <1>7, <1>9, <1>10 DEF Receivers

-----------------------------------------------------------------------------
(* Types *)

\* The fields of a record have their types.
LEMMA RecordTypes ==
    ASSUME BcTypeOK, NEW i \in BcIds
    PROVE  /\ bcRec[i] \in RecType
           /\ bcRec[i].receivers \in Seq(Receivers) /\ bcRec[i].next \in Nat \ {0}
           /\ bcRec[i].state \in {"NONE", "IDLE", "CALL_DONE_RECEIVE", "APP_RECEIVE"}
           /\ bcRec[i].ordered \in BOOLEAN /\ bcRec[i].resultTo \in BOOLEAN
           /\ bcRec[i].token \in 0 .. MaxRecords /\ bcRec[i].over \in BOOLEAN
           /\ bcRec[i].deferred \in BOOLEAN /\ bcRec[i].origin \in 0 .. MaxBroadcasts
           /\ Len(bcRec[i].receivers) \in Nat
           /\ \A k \in 1 .. Len(bcRec[i].receivers) : bcRec[i].receivers[k] \in Receivers
<1>1. bcRec[i] \in RecType
  BY DEF BcTypeOK
<1>2. bcRec[i].receivers \in Seq(Receivers)
  BY <1>1 DEF RecType
<1>3. /\ Len(bcRec[i].receivers) \in Nat
      /\ \A k \in 1 .. Len(bcRec[i].receivers) : bcRec[i].receivers[k] \in Receivers
  BY <1>2, LenProperties
<1> QED BY <1>1, <1>2, <1>3 DEF RecType

\* The fields of a broadcast's history have their types.
LEMMA PastTypes ==
    ASSUME BcTypeOK, NEW b \in 1 .. MaxBroadcasts
    PROVE  /\ bcPast[b] \in PastType
           /\ bcPast[b].ordered \in BOOLEAN /\ bcPast[b].resultTo \in BOOLEAN
           /\ bcPast[b].served \in Seq(Receivers) /\ bcPast[b].results \in Nat
           /\ bcPast[b].deferred \in BOOLEAN /\ bcPast[b].cut \in BOOLEAN
BY DEF BcTypeOK, PastType

\* Which record, and which receiver, the actions are about
LEMMA AtLoopTypes ==
    ASSUME BcTypeOK, AtLoop
    PROVE  /\ bcCurrent \in BcIds /\ Cur = bcRec[bcCurrent]
           /\ ~Finished => /\ Cur.next \in 1 .. Len(Cur.receivers)
                           /\ NextReceiver = Cur.receivers[Cur.next] /\ NextReceiver \in Receivers
<1>1. bcCurrent \in BcIds /\ Cur = bcRec[bcCurrent]
  BY DEF AtLoop, BcTypeOK, Cur
<1>2. ASSUME ~Finished
      PROVE  /\ Cur.next \in 1 .. Len(Cur.receivers)
             /\ NextReceiver = Cur.receivers[Cur.next] /\ NextReceiver \in Receivers
  BY <1>1, <1>2, RecordTypes DEF Finished, NextReceiver
<1> QED BY <1>1, <1>2

\* While a receiver is waited for there is a current record, and the time-out is armed.
LEMMA WaitingTypes ==
    ASSUME BcTypeOK, WaitsArmed, Waiting
    PROVE  /\ bcCurrent \in BcIds /\ Cur = bcRec[bcCurrent]
           /\ Cur.next - 1 \in 1 .. Len(Cur.receivers) /\ CurReceiver = Cur.receivers[Cur.next - 1]
           /\ CurReceiver \in Receivers /\ CurApp \in BcApps
           /\ bcTimeout
<1>1. bcCurrent \in BcIds /\ Cur = bcRec[bcCurrent] /\ bcCurrent # NoRecord /\ Cur.state # "IDLE"
  BY DEF Waiting, BcTypeOK, Cur
<1>2. bcTimeout /\ Cur.next > 1 /\ Cur.next <= Len(Cur.receivers) + 1
  BY <1>1 DEF WaitsArmed
<1>3. Cur.next - 1 \in 1 .. Len(Cur.receivers) /\ CurReceiver \in Receivers
  BY <1>1, <1>2, RecordTypes DEF CurReceiver
<1>4. CurApp \in BcApps
  BY <1>3, ReceiverLists DEF CurApp, BcApps
<1> QED BY <1>1, <1>2, <1>3, <1>4 DEF CurReceiver

\* What a step does to one record, and what Append does to the receivers served
LEMMA RecordStep ==
    ASSUME NEW r \in RecType, NEW n \in Nat \ {0},
           NEW state \in {"NONE", "IDLE", "CALL_DONE_RECEIVE", "APP_RECEIVE"}, NEW over \in BOOLEAN
    PROVE  /\ [r EXCEPT !.next = n, !.dispatched = TRUE, !.state = state] \in RecType
           /\ [r EXCEPT !.state = state, !.next = n] \in RecType
           /\ [r EXCEPT !.state = state, !.over = over] \in RecType
           /\ [r EXCEPT !.deferred = TRUE] \in RecType
BY DEF RecType

\* The record of none has its type.
LEMMA BlankedType == Blanked \in RecType
<1>1. <<>> \in Seq(Receivers)
  BY EmptyList
<1> QED BY <1>1, BcAssumption DEF Blanked, RecType

\* The types hold before the first broadcast.
LEMMA BcTypeInit == BcInit => BcTypeOK
<1> SUFFICES ASSUME BcInit PROVE BcTypeOK
  OBVIOUS
<1>1. bcRec \in [BcIds -> RecType]
  BY BlankedType DEF BcInit
<1>2. bcParallel \in Seq(BcIds) /\ bcOrdered \in Seq(BcIds) /\ bcDeferred \in Seq(BcIds)
  BY EmptyList DEF BcInit
<1>3. bcPast \in [1 .. MaxBroadcasts -> PastType]
  <2>1. <<>> \in Seq(Receivers)
    BY EmptyList
  <2> QED BY <2>1 DEF BcInit, PastType
<1>4. bcUsed \in [sent : 0 .. MaxBroadcasts, records : 0 .. MaxRecords, troubles : Int]
  BY BcAssumption DEF BcInit
<1>5. /\ bcPending \in [id : BcIds \cup {NoRecord}, index : Nat]
      /\ bcSplits \in [BcIds -> Int]
  BY DEF BcInit
<1>6. bcProc \in [BcApps -> {"dead", "starting", "running"}]
  BY DEF BcInit
<1> QED BY <1>1, <1>2, <1>3, <1>4, <1>5, <1>6 DEF BcInit, BcTypeOK

\* A delivery keeps the types.
LEMMA DeliverType ==
    ASSUME BcTypeOK, NEW state \in {"IDLE", "CALL_DONE_RECEIVE", "APP_RECEIVE"}, Deliver(state)
    PROVE  /\ bcRec' \in [BcIds -> RecType]
           /\ AtLoop /\ ~Finished /\ bcCurrent \in BcIds /\ NextReceiver \in Receivers
           /\ bcTimeout' \in BOOLEAN /\ bcPc' \in {"out", "begin", "loop"}
           /\ UNCHANGED <<bcParallel, bcOrdered, bcDeferred, bcDue, bcCurrent, bcDeferring, bcSplits>>
<1>1. AtLoop /\ ~Finished /\ bcCurrent \in BcIds /\ NextReceiver \in Receivers
  BY AtLoopTypes DEF Deliver
<1>2. bcRec' = [bcRec EXCEPT ![bcCurrent] = [bcRec[bcCurrent] EXCEPT !.next = bcRec[bcCurrent].next + 1, !.dispatched = TRUE, !.state = state]]
  BY DEF Deliver, Cur
<1>3. [bcRec[bcCurrent] EXCEPT !.next = bcRec[bcCurrent].next + 1, !.dispatched = TRUE, !.state = state] \in RecType
  <2>1. bcRec[bcCurrent].next + 1 \in Nat \ {0} /\ bcRec[bcCurrent] \in RecType
    BY <1>1, RecordTypes
  <2>2. PICK n : n = bcRec[bcCurrent].next + 1
    OBVIOUS
  <2> QED BY <2>1, <2>2, RecordStep
<1>4. bcRec' \in [BcIds -> RecType]
  BY <1>2, <1>3 DEF BcTypeOK
<1> QED BY <1>1, <1>4 DEF Deliver, ArmTimeout

\* What a receiver handled is noted.
LEMMA HandleType ==
    ASSUME BcTypeOK, NEW b, NEW x \in Receivers, Handle(b, x)
    PROVE  bcPast' \in [1 .. MaxBroadcasts -> PastType]
<1>1. CASE b \in 1 .. MaxBroadcasts
  <2>1. Append(bcPast[b].served, x) \in Seq(Receivers)
    BY <1>1, PastTypes, AppendOne
  <2>2. [bcPast[b] EXCEPT !.served = Append(bcPast[b].served, x)] \in PastType
    BY <1>1, <2>1, PastTypes DEF PastType
  <2>3. bcPast' = [bcPast EXCEPT ![b] = [bcPast[b] EXCEPT !.served = Append(bcPast[b].served, x)]]
    BY DEF Handle
  <2> QED BY <2>2, <2>3 DEF BcTypeOK
<1>2. CASE b \notin 1 .. MaxBroadcasts
  BY <1>2 DEF Handle, BcTypeOK
<1> QED BY <1>1, <1>2

\* A broadcast is cut short, or is deferred
LEMMA CutType ==
    ASSUME BcTypeOK, NEW b,
           \/ bcPast' = [bcPast EXCEPT ![b].cut = TRUE]
           \/ bcPast' = [bcPast EXCEPT ![b].deferred = TRUE]
           \/ bcPast' = [bcPast EXCEPT ![b].results = @ + 1]
           \/ UNCHANGED bcPast
    PROVE  bcPast' \in [1 .. MaxBroadcasts -> PastType]
<1>1. CASE bcPast' = [bcPast EXCEPT ![b].cut = TRUE]
  <2>1. CASE b \in 1 .. MaxBroadcasts
    <3>1. [bcPast[b] EXCEPT !.cut = TRUE] \in PastType
      BY <2>1, PastTypes DEF PastType
    <3>2. bcPast' = [bcPast EXCEPT ![b] = [bcPast[b] EXCEPT !.cut = TRUE]]
      BY <1>1
    <3> QED BY <3>1, <3>2 DEF BcTypeOK
  <2>2. CASE b \notin 1 .. MaxBroadcasts
    BY <1>1, <2>2 DEF BcTypeOK
  <2> QED BY <2>1, <2>2
<1>2. CASE bcPast' = [bcPast EXCEPT ![b].deferred = TRUE]
  <2>1. CASE b \in 1 .. MaxBroadcasts
    <3>1. [bcPast[b] EXCEPT !.deferred = TRUE] \in PastType
      BY <2>1, PastTypes DEF PastType
    <3>2. bcPast' = [bcPast EXCEPT ![b] = [bcPast[b] EXCEPT !.deferred = TRUE]]
      BY <1>2
    <3> QED BY <3>1, <3>2 DEF BcTypeOK
  <2>2. CASE b \notin 1 .. MaxBroadcasts
    BY <1>2, <2>2 DEF BcTypeOK
  <2> QED BY <2>1, <2>2
<1>3. CASE bcPast' = [bcPast EXCEPT ![b].results = @ + 1]
  <2>1. CASE b \in 1 .. MaxBroadcasts
    <3>1. bcPast[b].results + 1 \in Nat
      BY <2>1, PastTypes
    <3>2. [bcPast[b] EXCEPT !.results = bcPast[b].results + 1] \in PastType
      BY <2>1, <3>1, PastTypes DEF PastType
    <3>3. bcPast' = [bcPast EXCEPT ![b] = [bcPast[b] EXCEPT !.results = bcPast[b].results + 1]]
      BY <1>3
    <3> QED BY <3>2, <3>3 DEF BcTypeOK
  <2>2. CASE b \notin 1 .. MaxBroadcasts
    BY <1>3, <2>2 DEF BcTypeOK
  <2> QED BY <2>1, <2>2
<1> QED BY <1>1, <1>2, <1>3 DEF BcTypeOK

\* finishReceiverLocked keeps the types.
LEMMA FinishType ==
    ASSUME BcTypeOK, NEW over \in BOOLEAN, finishReceiverLocked(over)
    PROVE  /\ bcRec' \in [BcIds -> RecType]
           /\ bcPending' = [id |-> NoRecord, index |-> 0]
           /\ bcPending' \in [id : BcIds \cup {NoRecord}, index : Nat]
<1>1. CASE bcCurrent \in BcIds
  <2>1. [bcRec[bcCurrent] EXCEPT !.state = "IDLE", !.over = over] \in RecType
    BY <1>1, RecordTypes, RecordStep
  <2>2. bcRec' = [bcRec EXCEPT ![bcCurrent] = [bcRec[bcCurrent] EXCEPT !.state = "IDLE", !.over = over]]
    BY DEF finishReceiverLocked, Cur
  <2>3. bcRec' \in [BcIds -> RecType]
    BY <2>1, <2>2 DEF BcTypeOK
  <2> QED BY <2>3 DEF finishReceiverLocked
<1>2. CASE bcCurrent \notin BcIds
  <2>1. bcRec' = bcRec
    BY <1>2 DEF finishReceiverLocked, BcTypeOK
  <2> QED BY <2>1 DEF finishReceiverLocked, BcTypeOK
<1> QED BY <1>1, <1>2

\* A list is split in two.
LEMMA MineType ==
    ASSUME NEW s \in Seq(Receivers), NEW n \in 1 .. Len(s), NEW T
    PROVE  /\ SubSeq(s, 1, n - 1) \o Filter(SubSeq(s, n, Len(s)), Receivers \ T) \in Seq(Receivers)
           /\ Filter(SubSeq(s, n, Len(s)), T) \in Seq(Receivers)
<1>0. Len(s) \in Nat
  BY LenProperties
<1>1. SubSeq(s, 1, n - 1) \in Seq(Receivers) /\ SubSeq(s, n, Len(s)) \in Seq(Receivers)
  BY <1>0, Slice
<1>2. PICK rest : rest = SubSeq(s, n, Len(s))
  OBVIOUS
<1>3. Filter(rest, Receivers \ T) \in Seq(Receivers) /\ Filter(rest, T) \in Seq(Receivers)
  BY <1>1, <1>2, FilterKeeps
<1> QED BY <1>1, <1>2, <1>3, TwoLists

\* The bound on troubles keeps its type.
LEMMA TroublesType ==
    ASSUME BcTypeOK, NEW n \in Int, Troubles(n)
    PROVE  /\ bcUsed' \in [sent : 0 .. MaxBroadcasts, records : 0 .. MaxRecords, troubles : Int]
           /\ bcUsed'.sent = bcUsed.sent /\ bcUsed'.records = bcUsed.records
<1>1. bcUsed' = [bcUsed EXCEPT !.troubles = bcUsed.troubles + n]
  BY DEF Troubles
<1>2. bcUsed \in [sent : 0 .. MaxBroadcasts, records : 0 .. MaxRecords, troubles : Int]
  BY DEF BcTypeOK
<1>3. PICK m \in Int : m = bcUsed.troubles + n
  BY <1>2
<1>4. bcUsed' = [bcUsed EXCEPT !.troubles = m]
  BY <1>1, <1>3
<1> QED BY <1>2, <1>4

\* The record that is split off has its type.
LEMMA SplitOffType ==
    ASSUME NEW r \in RecType, NEW s \in Seq(Receivers)
    PROVE  [r EXCEPT !.receivers = s, !.next = 1, !.dispatched = FALSE, !.deferred = TRUE] \in RecType
<1>1. [r EXCEPT !.receivers = s] \in RecType
  BY DEF RecType
<1>2. PICK q \in RecType : q = [r EXCEPT !.receivers = s]
  BY <1>1
<1>3. 1 \in Nat \ {0}
  OBVIOUS
<1>4. [q EXCEPT !.next = 1, !.dispatched = FALSE, !.deferred = TRUE] \in RecType
  BY <1>3 DEF RecType
<1>5. [r EXCEPT !.receivers = s, !.next = 1, !.dispatched = FALSE, !.deferred = TRUE] = [q EXCEPT !.next = 1, !.dispatched = FALSE, !.deferred = TRUE]
  BY <1>2
<1> QED BY <1>4, <1>5

\* A list without its last element
LEMMA FrontType ==
    ASSUME NEW S, NEW s \in Seq(S), s # <<>>
    PROVE  Front(s) \in Seq(S)
<1>1. Len(s) \in Nat /\ Len(s) # 0
  BY LenProperties, EmptySeq
<1> QED BY <1>1, Slice DEF Front

\* A new record is what broadcastIntentLocked made it.
LEMMA NewRecordType ==
    ASSUME NEW b \in 0 .. MaxBroadcasts, NEW s \in Seq(Receivers), NEW ordered \in BOOLEAN,
           NEW resultTo \in BOOLEAN
    PROVE  /\ NewRecord(b, s, ordered, resultTo) \in RecType
           /\ NewRecord(b, s, ordered, resultTo).receivers = s
           /\ NewRecord(b, s, ordered, resultTo).next = 1
           /\ NewRecord(b, s, ordered, resultTo).state = "IDLE"
           /\ NewRecord(b, s, ordered, resultTo).ordered = ordered
           /\ NewRecord(b, s, ordered, resultTo).resultTo = resultTo
           /\ NewRecord(b, s, ordered, resultTo).token = 0
           /\ ~NewRecord(b, s, ordered, resultTo).over
           /\ NewRecord(b, s, ordered, resultTo).origin = b
<1>1. PICK q \in RecType : q = [Blanked EXCEPT !.receivers = s]
  <2>1. [Blanked EXCEPT !.receivers = s] \in RecType
    BY BlankedType DEF RecType
  <2> QED BY <2>1
<1>2. PICK r \in RecType : r = [q EXCEPT !.state = "IDLE", !.ordered = ordered]
  <2>1. [q EXCEPT !.state = "IDLE", !.ordered = ordered] \in RecType
    BY DEF RecType
  <2> QED BY <2>1
<1>3. [r EXCEPT !.resultTo = resultTo, !.origin = b] \in RecType
  BY DEF RecType
<1>4. NewRecord(b, s, ordered, resultTo) = [r EXCEPT !.resultTo = resultTo, !.origin = b]
  BY <1>1, <1>2 DEF NewRecord, Blanked
<1> QED BY <1>3, <1>4 DEF NewRecord, Blanked

\* broadcastIntentLocked keeps the types.
LEMMA SendType ==
    ASSUME BcTypeOK, NEW ordered \in BOOLEAN, NEW resultTo \in BOOLEAN, NEW replace \in BOOLEAN,
           broadcastIntentLocked(ordered, resultTo, replace)
    PROVE  BcTypeOK'
<1> DEFINE b == bcUsed.sent + 1
           id == bcUsed.records + 1
           receivers == IF ordered THEN Merged(Components, Registered) ELSE Components
           parallel == ~ordered /\ Registered # <<>>
           pid == id + 1
           replaced == replace /\ bcOrdered # <<>>
           replacedParallel == parallel /\ replace /\ bcParallel # <<>>
           dropped == {bcRec[Last(q)] : q \in (IF replaced THEN {bcOrdered} ELSE {})
                                              \cup (IF replacedParallel THEN {bcParallel} ELSE {})}
<1>1. /\ b \in 1 .. MaxBroadcasts /\ pid \in BcIds /\ id \in BcIds /\ id # pid
  <2>1. b <= MaxBroadcasts /\ pid <= MaxRecords
    BY DEF broadcastIntentLocked
  <2>2. bcUsed.sent \in Nat /\ bcUsed.records \in Nat
    BY DEF BcTypeOK
  <2>3. MaxRecords \in Nat /\ MaxBroadcasts \in Nat
    BY BcAssumption
  <2> QED BY <2>1, <2>2, <2>3 DEF BcIds
<1>2. receivers \in Seq(Receivers)
  BY MergedInOrder, ReceiverLists
<1>3. /\ bcRec' = [bcRec EXCEPT ![id] = NewRecord(b, receivers, ordered, resultTo),
                                ![pid] = IF parallel THEN NewRecord(b, Registered, FALSE, FALSE) ELSE bcRec[pid]]
  BY DEF broadcastIntentLocked
<1>4. /\ NewRecord(b, receivers, ordered, resultTo) \in RecType
      /\ NewRecord(b, Registered, FALSE, FALSE) \in RecType
  <2> HIDE DEF receivers, b
  <2>1. b \in 0 .. MaxBroadcasts
    BY <1>1, BcAssumption
  <2> QED BY <2>1, <1>2, NewRecordType, ReceiverLists
<1>5. bcRec' \in [BcIds -> RecType]
  <2> HIDE DEF id, pid, parallel
  <2> QED BY <1>1, <1>3, <1>4, RecordTypes DEF BcTypeOK
<1>6. \/ bcParallel' = Append(Front(bcParallel), pid) /\ bcParallel # <<>>
      \/ bcParallel' = Append(bcParallel, pid)
      \/ bcParallel' = bcParallel
  BY DEF broadcastIntentLocked
<1>7. bcParallel' \in Seq(BcIds)
  <2>1. bcParallel # <<>> => Front(bcParallel) \in Seq(BcIds)
    BY FrontType DEF BcTypeOK
  <2>2. PICK p \in BcIds : p = pid
    BY <1>1
  <2>3. bcParallel \in Seq(BcIds)
    BY DEF BcTypeOK
  <2>4. PICK q : q = Front(bcParallel)
    OBVIOUS
  <2>5. Append(bcParallel, p) \in Seq(BcIds) /\ (bcParallel # <<>> => Append(q, p) \in Seq(BcIds))
    BY <2>1, <2>3, <2>4, AppendOne
  <2> QED BY <1>6, <2>2, <2>3, <2>4, <2>5
<1>8. bcOrdered' \in Seq(BcIds)
  <2>1. bcOrdered # <<>> => Front(bcOrdered) \in Seq(BcIds)
    BY FrontType DEF BcTypeOK
  <2>2. \/ bcOrdered' = Append(Front(bcOrdered), id) /\ bcOrdered # <<>>
        \/ bcOrdered' = Append(bcOrdered, id)
    BY DEF broadcastIntentLocked
  <2>3. PICK p \in BcIds : p = id
    BY <1>1
  <2>4. bcOrdered \in Seq(BcIds)
    BY DEF BcTypeOK
  <2>5. PICK q : q = Front(bcOrdered)
    OBVIOUS
  <2>6. Append(bcOrdered, p) \in Seq(BcIds) /\ (bcOrdered # <<>> => Append(q, p) \in Seq(BcIds))
    BY <2>1, <2>4, <2>5, AppendOne
  <2> QED BY <2>2, <2>3, <2>5, <2>6
<1>9. bcPast' \in [1 .. MaxBroadcasts -> PastType]
  <2>1. IsFiniteSet(dropped)
    <3>1. PICK x, y : x = bcRec[Last(bcOrdered)] /\ y = bcRec[Last(bcParallel)]
      OBVIOUS
    <3>2. IsFiniteSet({x})
      BY FS_Singleton
    <3>3. IsFiniteSet({x} \cup {y})
      BY <3>2, FS_AddElement
    <3>4. dropped \subseteq {x} \cup {y}
      BY <3>1
    <3> HIDE DEF dropped
    <3> QED BY <3>3, <3>4, FS_Subset
  <2>2. \A c \in 1 .. MaxBroadcasts : Cardinality({d \in dropped : d.origin = c /\ d.resultTo}) \in Nat
    <3> HIDE DEF dropped
    <3> QED BY <2>1, FS_Subset, FS_CardinalityType
  <2>3. bcPast' = [c \in 1 .. MaxBroadcasts |->
             IF c = b THEN [bcPast[b] EXCEPT !.ordered = ordered, !.resultTo = resultTo]
             ELSE [bcPast[c] EXCEPT
                    !.results = bcPast[c].results + Cardinality({d \in dropped : d.origin = c /\ d.resultTo}),
                    !.cut = bcPast[c].cut \/ \E d \in dropped : d.origin = c]]
    <3>1. DOMAIN bcPast = 1 .. MaxBroadcasts
      BY DEF BcTypeOK
    <3> QED BY <3>1 DEF broadcastIntentLocked
  <2>4. [bcPast[b] EXCEPT !.ordered = ordered, !.resultTo = resultTo] \in PastType
    <3> HIDE DEF b
    <3> QED BY <1>1, PastTypes DEF PastType
  <2>5. ASSUME NEW c \in 1 .. MaxBroadcasts, NEW n \in Nat, NEW cut \in BOOLEAN
        PROVE  [bcPast[c] EXCEPT !.results = n, !.cut = cut] \in PastType
    BY PastTypes DEF PastType
  <2>6. ASSUME NEW c \in 1 .. MaxBroadcasts, c # b PROVE bcPast'[c] \in PastType
    <3>1. PICK n \in Nat : n = bcPast[c].results + Cardinality({d \in dropped : d.origin = c /\ d.resultTo})
      <4>1. PICK m \in Nat : m = Cardinality({d \in dropped : d.origin = c /\ d.resultTo})
        BY <2>2
      <4>2. bcPast[c].results + m \in Nat
        BY PastTypes
      <4> QED BY <4>1, <4>2
    <3>2. PICK cut \in BOOLEAN : cut = (bcPast[c].cut \/ \E d \in dropped : d.origin = c)
      OBVIOUS
    <3>3. bcPast'[c] = [bcPast[c] EXCEPT !.results = n, !.cut = cut]
      <4> HIDE DEF dropped, b
      <4> QED BY <2>3, <2>6, <3>1, <3>2
    <3>4. [bcPast[c] EXCEPT !.results = n, !.cut = cut] \in PastType
      BY <2>5
    <3> QED BY <3>3, <3>4
  <2>7. bcPast'[b] \in PastType
    <3> HIDE DEF dropped, b
    <3> QED BY <1>1, <2>3, <2>4
  <2> HIDE DEF dropped, b
  <2> QED BY <2>3, <2>6, <2>7
<1>10. bcUsed' \in [sent : 0 .. MaxBroadcasts, records : 0 .. MaxRecords, troubles : Int]
  <2>1. b \in 0 .. MaxBroadcasts /\ pid \in 0 .. MaxRecords /\ id \in 0 .. MaxRecords
    BY <1>1 DEF BcIds
  <2>2. bcUsed' = [bcUsed EXCEPT !.sent = b, !.records = IF parallel THEN pid ELSE id]
    BY DEF broadcastIntentLocked
  <2> HIDE DEF b, id, pid, parallel
  <2> QED BY <2>1, <2>2 DEF BcTypeOK
<1>11. bcScheduled' \in BOOLEAN
  BY DEF broadcastIntentLocked
<1> QED BY <1>5, <1>7, <1>8, <1>9, <1>10, <1>11 DEF broadcastIntentLocked, BcTypeOK

BcTypes == BcTypeOK /\ RecordsPlaced /\ RecordsSound /\ WaitsArmed

\* Every step keeps the types.
LEMMA BcTypeStep == BcTypes /\ BcNext => BcTypeOK'
<1> SUFFICES ASSUME BcTypes, BcNext PROVE BcTypeOK'
  OBVIOUS
<1>0. BcTypeOK /\ RecordsPlaced /\ RecordsSound /\ WaitsArmed
  BY DEF BcTypes
<1>2. CASE BroadcastMessage
  BY <1>0, <1>2 DEF BroadcastMessage, BcTypeOK
<1>3. CASE ProcessBegin
  <2> DEFINE parallel(b) == {i \in ToSet(bcParallel) : bcRec[i].origin = b}
             p == bcPending
  <2>1. bcPast' \in [1 .. MaxBroadcasts -> PastType]
    <3>1. bcPast' = [b \in DOMAIN bcPast |->
             IF parallel(b) = {} THEN bcPast[b]
             ELSE [bcPast[b] EXCEPT !.served = bcPast[b].served \o bcRec[CHOOSE i \in parallel(b) : TRUE].receivers]]
      BY <1>3 DEF ProcessBegin
    <3>2. ASSUME NEW b \in 1 .. MaxBroadcasts, parallel(b) # {}
          PROVE  [bcPast[b] EXCEPT !.served = bcPast[b].served \o bcRec[CHOOSE i \in parallel(b) : TRUE].receivers] \in PastType
      <4>1. PICK j : j = CHOOSE i \in parallel(b) : TRUE
        OBVIOUS
      <4>2. j \in BcIds
        <5>1. j \in ToSet(bcParallel)
          BY <3>2, <4>1
        <5> QED BY <1>0, <5>1, Elements DEF BcTypeOK
      <4>3. bcPast[b].served \o bcRec[j].receivers \in Seq(Receivers)
        BY <1>0, <4>2, PastTypes, RecordTypes, TwoLists
      <4> QED BY <1>0, <4>1, <4>3, PastTypes DEF PastType
    <3>3. DOMAIN bcPast = 1 .. MaxBroadcasts /\ \A b \in 1 .. MaxBroadcasts : bcPast[b] \in PastType
      BY <1>0, PastTypes DEF BcTypeOK
    <3> QED BY <3>1, <3>2, <3>3
  <2>2. bcRec' \in [BcIds -> RecType] /\ bcPending' \in [id : BcIds \cup {NoRecord}, index : Nat]
    <3>1. CASE UNCHANGED <<bcRec, bcPending>>
      BY <1>0, <3>1 DEF BcTypeOK
    <3>2. CASE /\ p.id # NoRecord
               /\ bcRec' = [bcRec EXCEPT ![p.id] = [bcRec[p.id] EXCEPT !.state = "IDLE", !.next = p.index]]
               /\ bcPending' = [id |-> NoRecord, index |-> 0]
      <4>1. p.id \in BcIds /\ p.index \in Nat \ {0}
        BY <1>0, <3>2, RecordTypes DEF WaitsArmed, BcTypeOK, Cur
      <4>2. [bcRec[p.id] EXCEPT !.state = "IDLE", !.next = p.index] \in RecType
        <5>1. PICK n : n = p.index
          OBVIOUS
        <5> QED BY <1>0, <4>1, <5>1, RecordTypes, RecordStep
      <4> QED BY <1>0, <3>2, <4>1, <4>2 DEF BcTypeOK
    <3> QED BY <1>3, <3>1, <3>2 DEF ProcessBegin
  <2>3. bcParallel' \in Seq(BcIds)
    BY <1>3, EmptyList DEF ProcessBegin
  <2>4. bcPc' \in {"out", "begin", "loop"}
    BY <1>3 DEF ProcessBegin
  <2> QED BY <1>0, <1>3, <2>1, <2>2, <2>3, <2>4 DEF ProcessBegin, BcTypeOK
<1>4. CASE getNextBroadcastLocked
  <2>1. CASE bcDue /\ bcDeferred # <<>>
    <3>1. Head(bcDeferred) \in BcIds /\ Tail(bcDeferred) \in Seq(BcIds)
      BY <1>0, <2>1, PopOne DEF BcTypeOK
    <3> QED BY <1>0, <1>4, <2>1, <3>1 DEF getNextBroadcastLocked, BcTypeOK
  <2>2. CASE ~(bcDue /\ bcDeferred # <<>>) /\ bcOrdered # <<>>
    <3>1. Head(bcOrdered) \in BcIds /\ Tail(bcOrdered) \in Seq(BcIds)
      BY <1>0, <2>2, PopOne DEF BcTypeOK
    <3> QED BY <1>0, <1>4, <2>2, <3>1 DEF getNextBroadcastLocked, BcTypeOK
  <2>3. CASE ~(bcDue /\ bcDeferred # <<>>) /\ bcOrdered = <<>>
    BY <1>0, <1>4, <2>3 DEF getNextBroadcastLocked, BcTypeOK
  <2> QED BY <2>1, <2>2, <2>3
<1>5. CASE LoopBusy
  BY <1>0, <1>5 DEF LoopBusy, BcTypeOK
<1>6. CASE LoopHung
  <2>1. bcRec' = [bcRec EXCEPT ![bcCurrent] = [bcRec[bcCurrent] EXCEPT !.state = "IDLE", !.over = TRUE]]
    BY <1>6 DEF LoopHung, Cur
  <2>2. bcRec' \in [BcIds -> RecType]
    <3>1. bcCurrent \in BcIds
      BY <1>0, <1>6, AtLoopTypes DEF LoopHung
    <3> QED BY <1>0, <2>1, <3>1, RecordTypes, RecordStep DEF BcTypeOK
  <2>3. bcPast' \in [1 .. MaxBroadcasts -> PastType]
    BY <1>0, <1>6, CutType DEF LoopHung
  <2>4. bcUsed' \in [sent : 0 .. MaxBroadcasts, records : 0 .. MaxRecords, troubles : Int]
    BY <1>0, <1>6, TroublesType DEF LoopHung
  <2> QED BY <1>0, <1>6, <2>2, <2>3, <2>4 DEF LoopHung, BcTypeOK, NoRecord
<1>7. CASE LoopRetire
  <2>1. bcRec' \in [BcIds -> RecType]
    BY <1>0, <1>7, BlankedType DEF LoopRetire, BcTypeOK
  <2>2. bcPast' \in [1 .. MaxBroadcasts -> PastType]
    BY <1>0, <1>7, CutType DEF LoopRetire
  <2>3. bcSplits' \in [BcIds -> Int]
    <3>1. bcSplits' = bcSplits \/ bcSplits' = [bcSplits EXCEPT ![Cur.token] = bcSplits[Cur.token] - 1]
      BY <1>7 DEF LoopRetire
    <3>2. Cur.token \in BcIds => bcSplits[Cur.token] - 1 \in Int
      BY <1>0 DEF BcTypeOK
    <3> QED BY <1>0, <3>1, <3>2 DEF BcTypeOK
  <2> QED BY <1>0, <1>7, <2>1, <2>2, <2>3 DEF LoopRetire, BcTypeOK
<1>8. CASE LoopDefer
  <2>1. AtLoop /\ ~Finished /\ bcCurrent \in BcIds /\ Cur = bcRec[bcCurrent]
        /\ Cur.next \in 1 .. Len(Cur.receivers)
    BY <1>0, <1>8, AtLoopTypes DEF LoopDefer, Split
  <2>2. bcPast' \in [1 .. MaxBroadcasts -> PastType]
    BY <1>0, <1>8, CutType DEF LoopDefer, Split
  <2>3. CASE Cur.next = Len(Cur.receivers)
    <3>1. bcRec' \in [BcIds -> RecType]
      <4>1. bcRec' = [bcRec EXCEPT ![bcCurrent] = [bcRec[bcCurrent] EXCEPT !.deferred = TRUE]]
        BY <1>8, <2>3 DEF LoopDefer, Split
      <4> QED BY <1>0, <2>1, <4>1, RecordTypes, RecordStep DEF BcTypeOK
    <3>2. bcDeferred' \in Seq(BcIds)
      <4>1. bcDeferred' = Append(bcDeferred, bcCurrent)
        BY <1>8, <2>3 DEF LoopDefer, Split
      <4> QED BY <1>0, <2>1, <4>1, AppendOne DEF BcTypeOK
    <3> QED BY <1>0, <1>8, <2>2, <2>3, <3>1, <3>2 DEF LoopDefer, Split, BcTypeOK
  <2>4. CASE Cur.next # Len(Cur.receivers)
    <3> DEFINE part == bcUsed.records + 1
               rest == SubSeq(Cur.receivers, Cur.next, Len(Cur.receivers))
               mine == {x \in Receivers : AppOf[x] = AppOf[NextReceiver]}
               token == IF Cur.token = 0 THEN bcCurrent ELSE Cur.token
               kept == [Cur EXCEPT !.receivers = SubSeq(Cur.receivers, 1, Cur.next - 1) \o Filter(rest, Receivers \ mine),
                                   !.token = IF Cur.resultTo THEN token ELSE 0]
               off == [kept EXCEPT !.receivers = Filter(rest, mine), !.next = 1, !.dispatched = FALSE, !.deferred = TRUE]
    <3>1. /\ part \in BcIds /\ part <= MaxRecords
          /\ bcRec' = [bcRec EXCEPT ![bcCurrent] = kept, ![part] = off]
          /\ bcSplits' = IF Cur.resultTo
                           THEN [bcSplits EXCEPT ![token] = IF Cur.token = 0 THEN 2 ELSE bcSplits[token] + 1]
                           ELSE bcSplits
          /\ bcUsed' = [bcUsed EXCEPT !.records = part]
          /\ bcDeferred' = Append(bcDeferred, part)
          /\ UNCHANGED bcCurrent
      <4>1. part <= MaxRecords /\ part \in BcIds
        BY <1>0, <1>8, <2>4 DEF LoopDefer, Split, BcTypeOK, BcIds
      <4> QED BY <1>8, <2>4, <4>1 DEF LoopDefer, Split
    <3>2. kept \in RecType /\ off \in RecType
      <4>1. Cur \in RecType /\ Cur.receivers \in Seq(Receivers) /\ Cur.token \in 0 .. MaxRecords
        BY <1>0, <2>1, RecordTypes
      <4>2. PICK first : first = SubSeq(Cur.receivers, 1, Cur.next - 1) \o Filter(rest, Receivers \ mine)
        OBVIOUS
      <4>3. PICK second : second = Filter(rest, mine)
        OBVIOUS
      <4>4. first \in Seq(Receivers) /\ second \in Seq(Receivers)
        BY <2>1, <4>1, <4>2, <4>3, MineType
      <4>5. PICK tok : tok = IF Cur.resultTo THEN token ELSE 0
        OBVIOUS
      <4>6. tok \in 0 .. MaxRecords
        <5>1. bcCurrent \in 0 .. MaxRecords /\ 0 \in 0 .. MaxRecords
          BY <2>1, BcAssumption DEF BcIds
        <5>2. Cur.token \in 0 .. MaxRecords
          BY <4>1
        <5> QED BY <4>5, <5>1, <5>2
      <4>7. kept = [Cur EXCEPT !.receivers = first, !.token = tok]
        BY <4>2, <4>5
      <4>8. kept \in RecType
        BY <4>1, <4>4, <4>6, <4>7 DEF RecType
      <4>9. PICK k : k = kept
        OBVIOUS
      <4>10. off = [k EXCEPT !.receivers = second, !.next = 1, !.dispatched = FALSE, !.deferred = TRUE]
        BY <4>3, <4>9
      <4>11. [k EXCEPT !.receivers = second, !.next = 1, !.dispatched = FALSE, !.deferred = TRUE] \in RecType
        <5>1. k \in RecType
          BY <4>8, <4>9
        <5> QED BY <4>4, <5>1, SplitOffType
      <4> QED BY <4>8, <4>10, <4>11
    <3>3. bcRec' \in [BcIds -> RecType]
      <4> HIDE DEF kept, off, part
      <4> QED BY <1>0, <3>1, <3>2 DEF BcTypeOK
    <3>4. bcSplits' \in [BcIds -> Int]
      <4>1. token \in BcIds => (IF Cur.token = 0 THEN 2 ELSE bcSplits[token] + 1) \in Int
        BY <1>0 DEF BcTypeOK
      <4>2. PICK tok : tok = token
        OBVIOUS
      <4>3. PICK n : n = IF Cur.token = 0 THEN 2 ELSE bcSplits[token] + 1
        OBVIOUS
      <4>4. bcSplits' \in {bcSplits, [bcSplits EXCEPT ![tok] = n]}
        BY <3>1, <4>2, <4>3
      <4> QED BY <1>0, <4>1, <4>2, <4>3, <4>4 DEF BcTypeOK
    <3>5. bcUsed' \in [sent : 0 .. MaxBroadcasts, records : 0 .. MaxRecords, troubles : Int]
      <4>1. part \in 0 .. MaxRecords
        BY <3>1 DEF BcIds
      <4> HIDE DEF part
      <4> QED BY <1>0, <3>1, <4>1 DEF BcTypeOK
    <3>6. bcDeferred' \in Seq(BcIds)
      BY <1>0, <3>1, AppendOne DEF BcTypeOK
    <3> QED BY <1>0, <1>8, <2>2, <3>1, <3>3, <3>4, <3>5, <3>6 DEF LoopDefer, Split, BcTypeOK
  <2> QED BY <2>3, <2>4
<1>9. ASSUME NEW state \in {"IDLE", "CALL_DONE_RECEIVE", "APP_RECEIVE"}, Deliver(state),
             Handle(Cur.origin, NextReceiver), bcScheduled' \in BOOLEAN, UNCHANGED <<bcPending, bcProc>>,
             bcUsed' \in [sent : 0 .. MaxBroadcasts, records : 0 .. MaxRecords, troubles : Int]
      PROVE  BcTypeOK'
  <2>1. /\ bcRec' \in [BcIds -> RecType] /\ NextReceiver \in Receivers
        /\ bcTimeout' \in BOOLEAN /\ bcPc' \in {"out", "begin", "loop"}
        /\ UNCHANGED <<bcParallel, bcOrdered, bcDeferred, bcDue, bcCurrent, bcDeferring, bcSplits>>
    BY <1>0, <1>9, DeliverType
  <2>2. bcPast' \in [1 .. MaxBroadcasts -> PastType]
    BY <1>0, <1>9, <2>1, HandleType
  <2> QED BY <1>0, <1>9, <2>1, <2>2 DEF BcTypeOK
<1>10. CASE DeliverToRunning
  <2>1. PICK state : state = IF IsRegistered(NextReceiver) THEN "CALL_DONE_RECEIVE" ELSE "APP_RECEIVE"
    OBVIOUS
  <2>2. state \in {"IDLE", "CALL_DONE_RECEIVE", "APP_RECEIVE"} /\ Deliver(state)
    BY <1>10, <2>1 DEF DeliverToRunning
  <2> QED BY <1>0, <1>9, <1>10, <2>2 DEF DeliverToRunning, BcTypeOK
<1>11. CASE DeliverToDead
  BY <1>0, <1>9, <1>11 DEF DeliverToDead, Schedule, BcTypeOK
<1>12. CASE DeliverSkips
  <2>1. bcUsed' \in [sent : 0 .. MaxBroadcasts, records : 0 .. MaxRecords, troubles : Int]
    BY <1>0, <1>12, TroublesType DEF DeliverSkips
  <2> QED BY <1>0, <1>9, <1>12, <2>1 DEF DeliverSkips, Schedule, BcTypeOK
<1>13. CASE DeliverStarts
  <2>1. Deliver("APP_RECEIVE")
    BY <1>13 DEF DeliverStarts
  <2>2. /\ bcRec' \in [BcIds -> RecType] /\ AtLoop /\ bcCurrent \in BcIds
        /\ ~Finished /\ NextReceiver \in Receivers
        /\ bcTimeout' \in BOOLEAN /\ bcPc' \in {"out", "begin", "loop"}
        /\ UNCHANGED <<bcParallel, bcOrdered, bcDeferred, bcDue, bcCurrent, bcDeferring, bcSplits>>
    BY <1>0, <2>1, DeliverType
  <2>3. bcUsed' \in [sent : 0 .. MaxBroadcasts, records : 0 .. MaxRecords, troubles : Int]
    BY <1>0, <1>13, TroublesType DEF DeliverStarts, BcTypeOK
  <2>4. bcPending' \in [id : BcIds \cup {NoRecord}, index : Nat]
    <3>1. Cur.next \in Nat
      BY <1>0, <2>2, RecordTypes DEF Cur
    <3> QED BY <1>13, <2>2, <3>1 DEF DeliverStarts
  <2>5. bcProc' \in [BcApps -> {"dead", "starting", "running"}]
    BY <1>0, <1>13 DEF DeliverStarts, BcTypeOK
  <2> QED BY <1>0, <1>13, <2>2, <2>3, <2>4, <2>5 DEF DeliverStarts, BcTypeOK
<1>14. ASSUME Waiting, Handle(Cur.origin, CurReceiver) \/ UNCHANGED bcPast
       PROVE  bcPast' \in [1 .. MaxBroadcasts -> PastType]
  BY <1>0, <1>14, WaitingTypes, HandleType DEF BcTypeOK
<1>15. CASE AttachApplication
  <2>1. Waiting
    BY <1>0, <1>15 DEF AttachApplication, WaitsArmed, Waiting
  <2>2. bcPast' \in [1 .. MaxBroadcasts -> PastType]
    BY <1>14, <1>15, <2>1 DEF AttachApplication
  <2> QED BY <1>0, <1>15, <2>2 DEF AttachApplication, BcTypeOK, NoRecord
<1>16. CASE BroadcastTimeout
  <2>1. bcPast' \in [1 .. MaxBroadcasts -> PastType]
    BY <1>14, <1>16 DEF BroadcastTimeout
  <2>2. /\ bcRec' \in [BcIds -> RecType]
        /\ bcPending' \in [id : BcIds \cup {NoRecord}, index : Nat]
    BY <1>0, <1>16, FinishType DEF BroadcastTimeout
  <2> QED BY <1>0, <1>16, <2>1, <2>2 DEF BroadcastTimeout, BcTypeOK
<1>17. ASSUME NEW abort \in BOOLEAN, NEW slow \in BOOLEAN, FinishReceiver(abort, slow) PROVE BcTypeOK'
  <2>1. bcPast' \in [1 .. MaxBroadcasts -> PastType]
    BY <1>0, <1>17, CutType DEF FinishReceiver
  <2>2. /\ bcRec' \in [BcIds -> RecType]
        /\ bcPending' \in [id : BcIds \cup {NoRecord}, index : Nat]
    BY <1>0, <1>17, FinishType DEF FinishReceiver
  <2>3. bcUsed' \in [sent : 0 .. MaxBroadcasts, records : 0 .. MaxRecords, troubles : Int]
    <3>1. PICK n \in Int : n = (IF abort THEN 1 ELSE 0) + (IF slow THEN 1 ELSE 0)
      OBVIOUS
    <3>2. Troubles(n)
      BY <1>17, <3>1 DEF FinishReceiver
    <3> QED BY <1>0, <3>2, TroublesType
  <2>4. bcDeferring' \subseteq BcApps
    BY <1>0, <1>17, WaitingTypes DEF FinishReceiver, BcTypeOK
  <2> QED BY <1>0, <1>17, <2>1, <2>2, <2>3, <2>4 DEF FinishReceiver, BcTypeOK
<1>18. ASSUME NEW app \in BcApps, ProcessDies(app) PROVE BcTypeOK'
  <2>1. /\ bcRec' \in [BcIds -> RecType]
        /\ bcPending' \in [id : BcIds \cup {NoRecord}, index : Nat]
        /\ bcScheduled' \in BOOLEAN
    BY <1>0, <1>18, FinishType DEF ProcessDies, BcTypeOK
  <2>2. bcUsed' \in [sent : 0 .. MaxBroadcasts, records : 0 .. MaxRecords, troubles : Int]
    BY <1>0, <1>18, TroublesType DEF ProcessDies
  <2> QED BY <1>0, <1>18, <2>1, <2>2 DEF ProcessDies, BcTypeOK
<1>19. ASSUME NEW ends \in BOOLEAN, DeferralCheck(ends) PROVE BcTypeOK'
  BY <1>0, <1>19 DEF DeferralCheck, BcTypeOK
<1>20. ASSUME NEW ordered \in BOOLEAN, NEW resultTo \in BOOLEAN, NEW replace \in BOOLEAN,
              broadcastIntentLocked(ordered, resultTo, replace)
       PROVE  BcTypeOK'
  BY <1>0, <1>20, SendType
<1> QED BY <1>2, <1>3, <1>4, <1>5, <1>6, <1>7, <1>8, <1>10, <1>11, <1>12, <1>13, <1>15, <1>16, <1>17,
           <1>18, <1>19, <1>20 DEF BcNext, processNextBroadcastLocked

-----------------------------------------------------------------------------
(* Where the records are *)

\* The live records of a broadcast are those in use that stem from it.
LEMMA LiveIs ==
    ASSUME BcTypeOK
    PROVE  /\ \A b : Live(b) = {i \in InUse : bcRec[i].origin = b}
           /\ InUse \subseteq BcIds
<1>1. /\ bcParallel \o bcOrdered \in Seq(BcIds)
      /\ ToSet((bcParallel \o bcOrdered) \o bcDeferred)
            = ToSet(bcParallel) \cup ToSet(bcOrdered) \cup ToSet(bcDeferred)
  <2>1. /\ bcParallel \o bcOrdered \in Seq(BcIds)
        /\ ToSet(bcParallel \o bcOrdered) = ToSet(bcParallel) \cup ToSet(bcOrdered)
    BY TwoLists DEF BcTypeOK
  <2>2. PICK q \in Seq(BcIds) : q = bcParallel \o bcOrdered
    BY <2>1
  <2>3. ToSet(q \o bcDeferred) = ToSet(q) \cup ToSet(bcDeferred)
    BY TwoLists DEF BcTypeOK
  <2> QED BY <2>1, <2>2, <2>3
<1>2. /\ ToSet(bcParallel) \subseteq BcIds /\ ToSet(bcOrdered) \subseteq BcIds
      /\ ToSet(bcDeferred) \subseteq BcIds
  BY Elements DEF BcTypeOK
<1>3. bcCurrent \in BcIds \cup {NoRecord} /\ NoRecord \notin BcIds
  BY DEF BcTypeOK, NoRecord, BcIds
<1>4. InUse \subseteq BcIds
  BY <1>2, <1>3 DEF InUse
<1>5. \A b : Live(b) = {i \in InUse : bcRec[i].origin = b}
  BY <1>1, <1>2, <1>3 DEF Live, InUse
<1> QED BY <1>4, <1>5

\* The same after a step
LEMMA LiveIsNext ==
    ASSUME BcTypeOK'
    PROVE  /\ \A b : Live(b)' = {i \in InUse' : bcRec'[i].origin = b}
           /\ InUse' \subseteq BcIds
<1>1. /\ bcParallel' \o bcOrdered' \in Seq(BcIds)
      /\ ToSet((bcParallel' \o bcOrdered') \o bcDeferred')
            = ToSet(bcParallel') \cup ToSet(bcOrdered') \cup ToSet(bcDeferred')
  <2>1. /\ bcParallel' \o bcOrdered' \in Seq(BcIds)
        /\ ToSet(bcParallel' \o bcOrdered') = ToSet(bcParallel') \cup ToSet(bcOrdered')
    BY TwoLists DEF BcTypeOK
  <2>2. PICK q \in Seq(BcIds) : q = bcParallel' \o bcOrdered'
    BY <2>1
  <2>3. ToSet(q \o bcDeferred') = ToSet(q) \cup ToSet(bcDeferred')
    BY TwoLists DEF BcTypeOK
  <2> QED BY <2>1, <2>2, <2>3
<1>2. /\ ToSet(bcParallel') \subseteq BcIds /\ ToSet(bcOrdered') \subseteq BcIds
      /\ ToSet(bcDeferred') \subseteq BcIds
  BY Elements DEF BcTypeOK
<1>3. bcCurrent' \in BcIds \cup {NoRecord} /\ NoRecord \notin BcIds
  BY DEF BcTypeOK, NoRecord, BcIds
<1>4. InUse' \subseteq BcIds
  BY <1>2, <1>3 DEF InUse
<1>5. \A b : Live(b)' = {i \in InUse' : bcRec'[i].origin = b}
  BY <1>1, <1>2, <1>3 DEF Live, InUse
<1> QED BY <1>4, <1>5

\* What processNextBroadcastLocked does to the lists
LEMMA BeginPlaced ==
    ASSUME BcTypeOK, RecordsPlaced, ProcessBegin
    PROVE  /\ RecordsPlaced' /\ InUse' = InUse \ ToSet(bcParallel) /\ ToSet(bcParallel') = {}
           /\ UNCHANGED <<bcOrdered, bcDeferred, bcCurrent>>
<1>1. ToSet(bcParallel') = {} /\ IsInjective(bcParallel') /\ bcParallel' = <<>>
  BY EmptyList DEF ProcessBegin
<1>2. UNCHANGED <<bcOrdered, bcDeferred, bcCurrent, bcUsed>>
  BY DEF ProcessBegin
<1>3. InUse' = InUse \ ToSet(bcParallel)
  BY <1>1, <1>2 DEF InUse, RecordsPlaced
<1> QED BY <1>1, <1>2, <1>3 DEF RecordsPlaced

\* The dispatcher's choice of the next broadcast moves one record from a list to the
\* current place.
LEMMA NextPlaced ==
    ASSUME BcTypeOK, RecordsPlaced, getNextBroadcastLocked
    PROVE  /\ RecordsPlaced' /\ InUse' = InUse /\ bcParallel' = bcParallel
           /\ ToSet(bcOrdered') \subseteq ToSet(bcOrdered) /\ ToSet(bcDeferred') \subseteq ToSet(bcDeferred)
           /\ \/ bcCurrent' \in ToSet(bcOrdered) \cup ToSet(bcDeferred)
              \/ bcCurrent' = NoRecord /\ bcPc' = "out" /\ bcOrdered' = <<>>
<1>0. /\ bcCurrent = NoRecord /\ UNCHANGED <<bcParallel, bcUsed>> /\ bcPc = "loop"
      /\ NoRecord \notin BcIds
  BY DEF NoRecord, BcIds, getNextBroadcastLocked
<1>1. CASE bcDue /\ bcDeferred # <<>>
  <2>1. /\ ToSet(bcDeferred) = ToSet(Tail(bcDeferred)) \cup {Head(bcDeferred)}
        /\ IsInjective(Tail(bcDeferred)) /\ Head(bcDeferred) \notin ToSet(Tail(bcDeferred))
        /\ Head(bcDeferred) \in BcIds
    BY <1>1, PopOne DEF BcTypeOK, RecordsPlaced
  <2>2. /\ bcCurrent' = Head(bcDeferred) /\ bcDeferred' = Tail(bcDeferred)
        /\ UNCHANGED <<bcOrdered, bcPc>>
    BY <1>1 DEF getNextBroadcastLocked
  <2>3. InUse' = InUse
    BY <1>0, <2>1, <2>2 DEF InUse
  <2> QED BY <1>0, <2>1, <2>2, <2>3 DEF RecordsPlaced
<1>2. CASE ~(bcDue /\ bcDeferred # <<>>) /\ bcOrdered # <<>>
  <2>1. /\ ToSet(bcOrdered) = ToSet(Tail(bcOrdered)) \cup {Head(bcOrdered)}
        /\ IsInjective(Tail(bcOrdered)) /\ Head(bcOrdered) \notin ToSet(Tail(bcOrdered))
        /\ Head(bcOrdered) \in BcIds
    BY <1>2, PopOne DEF BcTypeOK, RecordsPlaced
  <2>2. /\ bcCurrent' = Head(bcOrdered) /\ bcOrdered' = Tail(bcOrdered)
        /\ UNCHANGED <<bcDeferred, bcPc>>
    BY <1>2 DEF getNextBroadcastLocked
  <2>3. InUse' = InUse
    BY <1>0, <2>1, <2>2 DEF InUse
  <2> QED BY <1>0, <2>1, <2>2, <2>3 DEF RecordsPlaced
<1>3. CASE ~(bcDue /\ bcDeferred # <<>>) /\ bcOrdered = <<>>
  <2>1. bcPc' = "out" /\ UNCHANGED <<bcCurrent, bcDeferred, bcOrdered>>
    BY <1>3 DEF getNextBroadcastLocked
  <2>2. InUse' = InUse
    BY <1>0, <2>1 DEF InUse
  <2> QED BY <1>0, <1>3, <2>1, <2>2 DEF RecordsPlaced
<1> QED BY <1>1, <1>2, <1>3

\* A record that is finished leaves its place, and no other does.
LEMMA RetirePlaced ==
    ASSUME BcTypeOK, RecordsPlaced, LoopRetire
    PROVE  /\ RecordsPlaced' /\ bcCurrent \in InUse /\ InUse' = InUse \ {bcCurrent} /\ bcCurrent' = NoRecord
           /\ UNCHANGED <<bcParallel, bcOrdered, bcDeferred>>
<1>1. bcCurrent # NoRecord /\ bcCurrent' = NoRecord /\ UNCHANGED <<bcParallel, bcOrdered, bcDeferred, bcPc, bcUsed>>
  BY DEF LoopRetire, AtLoop
<1>2. bcCurrent \in InUse /\ InUse' = InUse \ {bcCurrent}
  BY <1>1 DEF InUse, RecordsPlaced
<1>3. NoRecord \notin ToSet(bcParallel) \cup ToSet(bcOrdered) \cup ToSet(bcDeferred)
  BY DEF RecordsPlaced, InUse, NoRecord
<1> QED BY <1>1, <1>2, <1>3 DEF RecordsPlaced

\* A deferred record goes to the deferred list, whole or its part.
LEMMA SplitPlaced ==
    ASSUME BcTypeOK, RecordsPlaced, LoopDefer
    PROVE  /\ RecordsPlaced' /\ bcCurrent \in InUse /\ bcCurrent \in BcIds /\ bcCurrent # NoRecord
           /\ UNCHANGED <<bcParallel, bcOrdered>>
           /\ \/ /\ Cur.next = Len(Cur.receivers) /\ InUse' = InUse /\ bcCurrent' = NoRecord
                 /\ ToSet(bcDeferred') = ToSet(bcDeferred) \cup {bcCurrent}
              \/ /\ Cur.next # Len(Cur.receivers) /\ bcCurrent' = bcCurrent
                 /\ bcUsed.records + 1 \in BcIds \ InUse
                 /\ InUse' = InUse \cup {bcUsed.records + 1}
                 /\ ToSet(bcDeferred') = ToSet(bcDeferred) \cup {bcUsed.records + 1}
<1>1. /\ bcCurrent # NoRecord /\ bcCurrent \in BcIds /\ UNCHANGED <<bcParallel, bcOrdered, bcPc>>
      /\ bcPc = "loop"
  BY DEF LoopDefer, Split, AtLoop, BcTypeOK
<1>2. bcCurrent \in InUse
  BY <1>1 DEF InUse
<1>3. CASE Cur.next = Len(Cur.receivers)
  <2>1. bcDeferred' = Append(bcDeferred, bcCurrent) /\ bcCurrent' = NoRecord /\ UNCHANGED bcUsed
    BY <1>3 DEF LoopDefer, Split
  <2>2. /\ ToSet(bcDeferred') = ToSet(bcDeferred) \cup {bcCurrent}
        /\ IsInjective(bcDeferred')
    BY <1>1, <2>1, AppendOne DEF BcTypeOK, RecordsPlaced
  <2>3. InUse' = InUse
    BY <1>1, <2>1, <2>2 DEF InUse
  <2>4. NoRecord \notin InUse
    BY DEF RecordsPlaced, NoRecord
  <2>5. NoRecord \notin ToSet(bcParallel) \cup ToSet(bcOrdered) \cup ToSet(bcDeferred')
    BY <1>1, <2>2, <2>4 DEF InUse
  <2> QED BY <1>1, <1>2, <1>3, <2>1, <2>2, <2>3, <2>5 DEF RecordsPlaced
<1>4. CASE Cur.next # Len(Cur.receivers)
  <2>1. PICK part : part = bcUsed.records + 1
    OBVIOUS
  <2>2. part \in BcIds /\ part \notin InUse /\ part \in 1 .. part /\ \A i \in 1 .. bcUsed.records : i \in 1 .. part
    <3>1. part <= MaxRecords
      BY <1>4, <2>1 DEF LoopDefer, Split
    <3>2. bcUsed.records \in Nat
      BY DEF BcTypeOK
    <3>3. part \notin 1 .. bcUsed.records /\ part \in 1 .. MaxRecords /\ \A i \in 1 .. bcUsed.records : i \in 1 .. part
      BY <2>1, <3>1, <3>2, BcAssumption
    <3> QED BY <2>1, <3>2, <3>3 DEF RecordsPlaced, BcIds
  <2>3. bcDeferred' = Append(bcDeferred, part) /\ bcCurrent' = bcCurrent /\ bcUsed'.records = part
    BY <1>4, <2>1 DEF LoopDefer, Split, BcTypeOK
  <2>4. /\ ToSet(bcDeferred') = ToSet(bcDeferred) \cup {part}
        /\ IsInjective(bcDeferred')
    <3>1. part \notin ToSet(bcDeferred)
      BY <2>2 DEF InUse
    <3> QED BY <2>2, <2>3, <3>1, AppendOne DEF BcTypeOK, RecordsPlaced
  <2>5. InUse' = InUse \cup {part}
    BY <1>1, <2>3, <2>4 DEF InUse
  <2>6. /\ part \notin ToSet(bcParallel) /\ part \notin ToSet(bcOrdered) /\ part # bcCurrent
    BY <1>2, <2>2 DEF InUse
  <2>7. InUse' \subseteq 1 .. bcUsed'.records
    BY <2>2, <2>3, <2>5 DEF RecordsPlaced
  <2> QED BY <1>1, <1>2, <1>4, <2>1, <2>2, <2>3, <2>4, <2>5, <2>6, <2>7 DEF RecordsPlaced
<1> QED BY <1>3, <1>4

\* The records that a new broadcast takes the place of, and those it brings
DropsOrdered(replace) == IF replace /\ bcOrdered # <<>> THEN {Last(bcOrdered)} ELSE {}
DropsParallel(ordered, replace) ==
    IF ~ordered /\ Registered # <<>> /\ replace /\ bcParallel # <<>> THEN {Last(bcParallel)} ELSE {}
NewOrdered == bcUsed.records + 1
NewParallel(ordered) == IF ~ordered /\ Registered # <<>> THEN {bcUsed.records + 2} ELSE {}

\* The last element of a list is replaced
LEMMA ReplaceLast ==
    ASSUME NEW S, NEW s \in Seq(S), s # <<>>, IsInjective(s), NEW x \in S, x \notin ToSet(s)
    PROVE  /\ Append(Front(s), x) \in Seq(S) /\ IsInjective(Append(Front(s), x))
           /\ Last(s) \in ToSet(s)
           /\ ToSet(Append(Front(s), x)) = (ToSet(s) \ {Last(s)}) \cup {x}
<1>1. PICK q \in Seq(S) : q = Front(s)
  BY DropLast
<1>2. /\ Last(s) \in ToSet(s) /\ IsInjective(q) /\ ToSet(q) = ToSet(s) \ {Last(s)}
  BY <1>1, DropLast
<1>3. /\ Append(q, x) \in Seq(S) /\ ToSet(Append(q, x)) = ToSet(q) \cup {x}
      /\ IsInjective(Append(q, x))
  BY <1>2, AppendOne
<1> QED BY <1>1, <1>2, <1>3

\* A new broadcast's records are placed; a replaced one leaves.
LEMMA SendPlaced ==
    ASSUME BcTypeOK, RecordsPlaced, NEW ordered \in BOOLEAN, NEW resultTo \in BOOLEAN, NEW replace \in BOOLEAN,
           broadcastIntentLocked(ordered, resultTo, replace)
    PROVE  /\ RecordsPlaced'
           /\ NewOrdered \in BcIds /\ NewOrdered \notin InUse
           /\ NewParallel(ordered) \subseteq BcIds /\ NewParallel(ordered) \cap InUse = {}
           /\ NewOrdered \notin NewParallel(ordered)
           /\ DropsOrdered(replace) \subseteq ToSet(bcOrdered)
           /\ DropsParallel(ordered, replace) \subseteq ToSet(bcParallel)
           /\ ToSet(bcOrdered') = (ToSet(bcOrdered) \ DropsOrdered(replace)) \cup {NewOrdered}
           /\ ToSet(bcParallel') = (ToSet(bcParallel) \ DropsParallel(ordered, replace)) \cup NewParallel(ordered)
           /\ UNCHANGED <<bcDeferred, bcCurrent>>
           /\ InUse' = (InUse \ (DropsOrdered(replace) \cup DropsParallel(ordered, replace)))
                          \cup ({NewOrdered} \cup NewParallel(ordered))
<1>1. PICK id, pid : id = bcUsed.records + 1 /\ pid = id + 1
  OBVIOUS
<1>2. /\ id \in BcIds /\ pid \in BcIds /\ id # pid /\ pid = bcUsed.records + 2
      /\ id \notin InUse /\ pid \notin InUse
      /\ \A i \in 1 .. bcUsed.records : i \in 1 .. id /\ i \in 1 .. pid
      /\ id \in 1 .. id /\ id \in 1 .. pid /\ pid \in 1 .. pid
  <2>1. pid <= MaxRecords
    BY <1>1 DEF broadcastIntentLocked
  <2>2. bcUsed.records \in Nat /\ InUse \subseteq 1 .. bcUsed.records /\ MaxRecords \in Nat
    BY BcAssumption DEF BcTypeOK, RecordsPlaced
  <2>3. id \notin 1 .. bcUsed.records /\ pid \notin 1 .. bcUsed.records
    BY <1>1, <2>2
  <2> QED BY <1>1, <2>1, <2>2, <2>3 DEF BcIds
<1>3. NewOrdered = id /\ NewParallel(ordered) = IF ~ordered /\ Registered # <<>> THEN {pid} ELSE {}
  BY <1>1, <1>2 DEF NewOrdered, NewParallel
<1>4. UNCHANGED <<bcDeferred, bcCurrent, bcPc>> /\ bcPc = "out"
  BY DEF broadcastIntentLocked
<1>5. /\ id \notin ToSet(bcOrdered) \cup ToSet(bcParallel) \cup ToSet(bcDeferred) /\ id # bcCurrent
      /\ pid \notin ToSet(bcOrdered) \cup ToSet(bcParallel) \cup ToSet(bcDeferred) /\ pid # bcCurrent
  BY <1>2 DEF InUse, NoRecord, BcIds
<1>6. /\ DropsOrdered(replace) \subseteq ToSet(bcOrdered) /\ IsInjective(bcOrdered')
      /\ ToSet(bcOrdered') = (ToSet(bcOrdered) \ DropsOrdered(replace)) \cup {id}
  <2>1. bcOrdered \in Seq(BcIds) /\ IsInjective(bcOrdered)
    BY DEF BcTypeOK, RecordsPlaced
  <2>2. CASE replace /\ bcOrdered # <<>>
    <3>1. bcOrdered' = Append(Front(bcOrdered), id)
      BY <1>1, <2>2 DEF broadcastIntentLocked
    <3>0. /\ Last(bcOrdered) \in ToSet(bcOrdered) /\ IsInjective(Append(Front(bcOrdered), id))
          /\ ToSet(Append(Front(bcOrdered), id)) = (ToSet(bcOrdered) \ {Last(bcOrdered)}) \cup {id}
      <4>1. id \notin ToSet(bcOrdered)
        BY <1>5
      <4> QED BY <1>2, <2>1, <2>2, <4>1, ReplaceLast
    <3>2. DropsOrdered(replace) = {Last(bcOrdered)}
      BY <2>2 DEF DropsOrdered
    <3> QED BY <3>0, <3>1, <3>2
  <2>3. CASE ~(replace /\ bcOrdered # <<>>)
    <3>1. bcOrdered' = Append(bcOrdered, id)
      BY <1>1, <2>3 DEF broadcastIntentLocked
    <3>2. DropsOrdered(replace) = {}
      BY <2>3 DEF DropsOrdered
    <3> QED BY <1>2, <1>5, <2>1, <2>3, <3>1, <3>2, AppendOne
  <2> QED BY <2>2, <2>3
<1>7. /\ DropsParallel(ordered, replace) \subseteq ToSet(bcParallel) /\ IsInjective(bcParallel')
      /\ ToSet(bcParallel') = (ToSet(bcParallel) \ DropsParallel(ordered, replace)) \cup NewParallel(ordered)
  <2>1. bcParallel \in Seq(BcIds) /\ IsInjective(bcParallel)
    BY DEF BcTypeOK, RecordsPlaced
  <2>2. CASE ~ordered /\ Registered # <<>> /\ replace /\ bcParallel # <<>>
    <3>1. bcParallel' = Append(Front(bcParallel), pid)
      BY <1>1, <2>2 DEF broadcastIntentLocked
    <3>0. /\ Last(bcParallel) \in ToSet(bcParallel) /\ IsInjective(Append(Front(bcParallel), pid))
          /\ ToSet(Append(Front(bcParallel), pid)) = (ToSet(bcParallel) \ {Last(bcParallel)}) \cup {pid}
      <4>1. pid \notin ToSet(bcParallel)
        BY <1>5
      <4> QED BY <1>2, <2>1, <2>2, <4>1, ReplaceLast
    <3>2. DropsParallel(ordered, replace) = {Last(bcParallel)} /\ NewParallel(ordered) = {pid}
      BY <1>3, <2>2 DEF DropsParallel
    <3> QED BY <3>0, <3>1, <3>2
  <2>3. CASE ~ordered /\ Registered # <<>> /\ ~(replace /\ bcParallel # <<>>)
    <3>1. bcParallel' = Append(bcParallel, pid)
      BY <1>1, <2>3 DEF broadcastIntentLocked
    <3>2. DropsParallel(ordered, replace) = {} /\ NewParallel(ordered) = {pid}
      BY <1>3, <2>3 DEF DropsParallel
    <3> QED BY <1>2, <1>5, <2>1, <2>3, <3>1, <3>2, AppendOne
  <2>4. CASE ~(~ordered /\ Registered # <<>>)
    <3>1. bcParallel' = bcParallel
      BY <2>4 DEF broadcastIntentLocked
    <3>2. DropsParallel(ordered, replace) = {} /\ NewParallel(ordered) = {}
      BY <1>3, <2>4 DEF DropsParallel
    <3> QED BY <2>1, <3>1, <3>2
  <2> QED BY <2>2, <2>3, <2>4
<1>8. InUse' = (InUse \ (DropsOrdered(replace) \cup DropsParallel(ordered, replace)))
                          \cup ({id} \cup NewParallel(ordered))
  BY <1>4, <1>6, <1>7 DEF InUse, RecordsPlaced
<1>9. InUse' \subseteq 1 .. bcUsed'.records
  <2>1. bcUsed'.records = IF ~ordered /\ Registered # <<>> THEN pid ELSE id
    BY <1>1 DEF broadcastIntentLocked, BcTypeOK
  <2>2. InUse \subseteq 1 .. bcUsed.records
    BY DEF RecordsPlaced
  <2> QED BY <1>2, <1>3, <1>8, <2>1, <2>2
<1>10. /\ ToSet(bcParallel') \cap ToSet(bcOrdered') = {}
       /\ ToSet(bcParallel') \cap ToSet(bcDeferred') = {}
       /\ ToSet(bcOrdered') \cap ToSet(bcDeferred') = {}
       /\ bcCurrent' \notin ToSet(bcParallel') \cup ToSet(bcOrdered') \cup ToSet(bcDeferred')
  BY <1>2, <1>3, <1>4, <1>5, <1>6, <1>7 DEF RecordsPlaced
<1>11. RecordsPlaced'
  BY <1>4, <1>6, <1>7, <1>9, <1>10 DEF RecordsPlaced
<1> QED BY <1>2, <1>3, <1>4, <1>6, <1>7, <1>8, <1>11

-----------------------------------------------------------------------------
(* The steps that only move the current record on *)

SameRecord(i) ==
    /\ bcRec'[i].receivers = bcRec[i].receivers /\ bcRec'[i].origin = bcRec[i].origin
    /\ bcRec'[i].ordered = bcRec[i].ordered /\ bcRec'[i].resultTo = bcRec[i].resultTo
    /\ bcRec'[i].token = bcRec[i].token

PastGrows(b) ==
    /\ bcPast'[b].ordered = bcPast[b].ordered /\ bcPast'[b].resultTo = bcPast[b].resultTo
    /\ bcPast'[b].results = bcPast[b].results
    /\ bcPast[b].cut => bcPast'[b].cut
    /\ bcPast[b].deferred => bcPast'[b].deferred
    /\ b > bcUsed.sent => bcPast'[b] = bcPast[b]

\* The records keep their places, but for one that is set aside or becomes the current one; only
\* the current one changes, and not what it is about.
SamePlaces ==
    /\ InUse' = InUse /\ ToSet(bcParallel') = ToSet(bcParallel)
    /\ ToSet(bcOrdered') \subseteq ToSet(bcOrdered)
    /\ \A i \in ToSet(bcDeferred') :
          i \notin ToSet(bcDeferred) => bcRec'[i].state = "IDLE" /\ ~bcRec'[i].over
    /\ bcUsed'.sent = bcUsed.sent /\ bcUsed'.records = bcUsed.records

OnlyCurrent ==
    /\ \A i \in BcIds : i # bcCurrent => bcRec'[i] = bcRec[i]
    /\ bcCurrent # NoRecord =>
          /\ SameRecord(bcCurrent)
          /\ bcRec'[bcCurrent].over => /\ bcRec'[bcCurrent].state = "IDLE"
                                       /\ bcPast'[bcRec[bcCurrent].origin].cut

Quiet == SamePlaces /\ OnlyCurrent /\ bcSplits' = bcSplits /\ \A b \in 1 .. MaxBroadcasts : PastGrows(b)

\* The numbers of broadcasts and records in use are numbers.
LEMMA UsedTypes ==
    ASSUME BcTypeOK
    PROVE  /\ bcUsed.sent \in Nat /\ bcUsed.records \in Nat
           /\ \A b \in 1 .. bcUsed.sent : b \in 1 .. MaxBroadcasts
           /\ bcUsed.sent <= MaxBroadcasts
           /\ MaxBroadcasts \in Nat /\ MaxRecords \in Nat
<1>1. bcUsed.sent \in 0 .. MaxBroadcasts /\ bcUsed.records \in 0 .. MaxRecords
  BY DEF BcTypeOK
<1> QED BY <1>1, BcAssumption

\* A record not on its turn is the same after a quiet step.
LEMMA QuietSame ==
    ASSUME Quiet, NEW i \in BcIds
    PROVE  SameRecord(i)
BY DEF Quiet, OnlyCurrent, SameRecord, NoRecord, BcIds

\* The same when records leave
FewerPlaces ==
    /\ InUse' \subseteq InUse /\ ToSet(bcParallel') = ToSet(bcParallel) \cap InUse'
    /\ ToSet(bcOrdered') \subseteq ToSet(bcOrdered)
    /\ \A i \in ToSet(bcDeferred') :
          i \notin ToSet(bcDeferred) => bcRec'[i].state = "IDLE" /\ ~bcRec'[i].over
    /\ ToSet(bcDeferred') \subseteq InUse' /\ ToSet(bcOrdered') \subseteq InUse'
    /\ bcUsed'.sent = bcUsed.sent

FewerChange ==
    /\ \A i \in InUse' : i # bcCurrent => bcRec'[i] = bcRec[i]
    /\ bcCurrent \in InUse' =>
          /\ SameRecord(bcCurrent)
          /\ bcRec'[bcCurrent].over => /\ bcRec'[bcCurrent].state = "IDLE"
                                       /\ bcPast'[bcRec[bcCurrent].origin].cut

PastKept(b) ==
    /\ bcPast'[b].ordered = bcPast[b].ordered /\ bcPast'[b].resultTo = bcPast[b].resultTo
    /\ bcPast[b].cut => bcPast'[b].cut
    /\ b > bcUsed.sent => /\ bcPast'[b].results = bcPast[b].results /\ bcPast'[b].served = bcPast[b].served
                          /\ bcPast'[b].cut = bcPast[b].cut

\* Records stay sound when some leave and the others stay.
LEMMA FewerSound ==
    ASSUME BcTypes, FewerPlaces, FewerChange, \A b \in 1 .. MaxBroadcasts : PastKept(b)
    PROVE  RecordsSound'
<1>1. BcTypeOK /\ RecordsPlaced /\ RecordsSound /\ WaitsArmed /\ FewerPlaces /\ FewerChange
  BY DEF BcTypes
<1>2. /\ ToSet(bcParallel) \subseteq InUse /\ ToSet(bcOrdered) \subseteq InUse
      /\ ToSet(bcDeferred) \subseteq InUse /\ InUse \subseteq BcIds
  BY <1>1, LiveIs DEF InUse
<1>3. \A i \in InUse' : SameRecord(i)
  BY <1>1, <1>2 DEF FewerChange, SameRecord
<1>4. \A i \in InUse : /\ bcRec[i].origin \in 1 .. bcUsed.sent /\ IsInjective(bcRec[i].receivers)
                       /\ bcRec[i].origin \in 1 .. MaxBroadcasts
  <2>1. bcUsed.sent \in 0 .. MaxBroadcasts
    BY <1>1 DEF BcTypeOK
  <2>2. \A i \in 1 .. bcUsed.sent : i \in 1 .. MaxBroadcasts
    BY <2>1, BcAssumption
  <2> QED BY <1>1, <2>2 DEF RecordsSound
<1>5. bcUsed'.sent = bcUsed.sent /\ InUse' \subseteq InUse /\ ToSet(bcParallel') = ToSet(bcParallel) \cap InUse'
  BY <1>1 DEF FewerPlaces
<1>6. \A b \in 1 .. MaxBroadcasts : PastKept(b)
  OBVIOUS
<1>7. \A i \in InUse' : bcRec'[i].origin \in 1 .. bcUsed'.sent /\ IsInjective(bcRec'[i].receivers)
  BY <1>3, <1>4, <1>5 DEF SameRecord
<1>8. ASSUME NEW i \in ToSet(bcParallel')
      PROVE  /\ bcRec'[i].receivers = Registered /\ Registered # <<>>
             /\ bcRec'[i].next = 1 /\ ~bcRec'[i].resultTo /\ bcRec'[i].token = 0 /\ ~bcRec'[i].over
             /\ ~bcPast'[bcRec'[i].origin].ordered
  <2>1. i \in ToSet(bcParallel) /\ i # bcCurrent /\ i \in BcIds /\ i \in InUse /\ i \in InUse'
    BY <1>1, <1>2, <1>5 DEF RecordsPlaced
  <2>2. bcRec'[i] = bcRec[i]
    BY <1>1, <2>1 DEF FewerChange
  <2>3. bcPast'[bcRec[i].origin].ordered = bcPast[bcRec[i].origin].ordered
    BY <1>4, <1>6, <2>1 DEF PastKept
  <2> QED BY <1>1, <2>1, <2>2, <2>3 DEF RecordsSound
<1>9. ASSUME NEW i \in InUse' \ ToSet(bcParallel')
      PROVE  /\ bcRec'[i].resultTo = bcPast'[bcRec'[i].origin].resultTo
             /\ bcRec'[i].ordered = bcPast'[bcRec'[i].origin].ordered
  BY <1>1, <1>3, <1>4, <1>5, <1>6 DEF SameRecord, PastKept, RecordsSound
<1>10. ASSUME NEW i \in ToSet(bcOrdered') PROVE bcRec'[i].next = 1 /\ bcRec'[i].token = 0
  <2>1. i \in ToSet(bcOrdered) /\ i # bcCurrent /\ i \in BcIds /\ i \in InUse'
    BY <1>1, <1>2 DEF FewerPlaces, RecordsPlaced
  <2> QED BY <1>1, <2>1 DEF FewerChange, RecordsSound
<1>11. ASSUME NEW i \in ToSet(bcOrdered') \cup ToSet(bcDeferred')
       PROVE  bcRec'[i].state = "IDLE" /\ ~bcRec'[i].over
  <2>1. CASE i \in ToSet(bcOrdered) \cup ToSet(bcDeferred)
    <3>1. i # bcCurrent /\ i \in BcIds /\ i \in InUse'
      BY <1>1, <1>2, <1>11, <2>1 DEF RecordsPlaced, FewerPlaces
    <3> QED BY <1>1, <2>1, <3>1 DEF FewerChange, RecordsSound
  <2>2. CASE i \notin ToSet(bcOrdered) \cup ToSet(bcDeferred)
    BY <1>1, <1>11, <2>2 DEF FewerPlaces
  <2> QED BY <2>1, <2>2
<1>12. ASSUME NEW i \in InUse', bcRec'[i].over
       PROVE  bcRec'[i].state = "IDLE" /\ bcPast'[bcRec'[i].origin].cut
  <2>1. i \in InUse /\ i \in BcIds /\ i # NoRecord
    BY <1>2, <1>5 DEF NoRecord, BcIds
  <2>2. CASE i = bcCurrent
    BY <1>1, <1>12, <2>1, <2>2 DEF FewerChange, SameRecord
  <2>3. CASE i # bcCurrent
    <3>1. bcRec'[i] = bcRec[i]
      BY <1>1, <2>1, <2>3 DEF FewerChange
    <3>2. bcRec[i].state = "IDLE" /\ bcPast[bcRec[i].origin].cut
      BY <1>1, <1>12, <2>1, <3>1 DEF RecordsSound
    <3>3. bcPast'[bcRec[i].origin].cut
      BY <1>4, <1>6, <2>1, <3>2 DEF PastKept
    <3> QED BY <3>1, <3>2, <3>3
  <2> QED BY <2>2, <2>3
<1>13. ASSUME NEW b \in 1 .. MaxBroadcasts
       PROVE  /\ b > bcUsed'.sent => bcPast'[b].results = 0 /\ bcPast'[b].served = <<>> /\ ~bcPast'[b].cut
              /\ bcPast'[b].resultTo => bcPast'[b].ordered
  BY <1>1, <1>5, <1>6 DEF PastKept, RecordsSound
<1> QED BY <1>7, <1>8, <1>9, <1>10, <1>11, <1>12, <1>13 DEF RecordsSound

\* Records stay sound in a quiet step.
LEMMA QuietSound ==
    ASSUME BcTypes, Quiet
    PROVE  RecordsSound'
<1>1. BcTypeOK /\ SamePlaces /\ OnlyCurrent
  BY DEF BcTypes, Quiet
<1>2. InUse \subseteq BcIds /\ InUse' = InUse
  BY <1>1, LiveIs DEF SamePlaces
<1>3. FewerPlaces
  BY <1>1, <1>2 DEF SamePlaces, FewerPlaces, InUse
<1>4. FewerChange
  <2>1. bcCurrent \in InUse' => bcCurrent # NoRecord
    BY <1>2 DEF BcIds, NoRecord
  <2> QED BY <1>1, <1>2, <2>1 DEF OnlyCurrent, FewerChange
<1>5. \A b \in 1 .. MaxBroadcasts : PastKept(b)
  BY DEF Quiet, PastGrows, PastKept
<1> QED BY <1>3, <1>4, <1>5, FewerSound

\* The parts of split broadcasts stay counted in a quiet step.
LEMMA QuietCounted ==
    ASSUME BcTypeOK, BcTypeOK', Quiet, SplitsCounted, ResultOnce
    PROVE  SplitsCounted' /\ ResultOnce' /\ \A b : Live(b)' = Live(b)
<1>1. \A i \in BcIds : SameRecord(i)
  BY QuietSame
<1>2. InUse' = InUse /\ bcUsed'.sent = bcUsed.sent /\ bcUsed'.records = bcUsed.records /\ bcSplits' = bcSplits
  BY DEF Quiet, SamePlaces
<1>3. InUse \subseteq BcIds
  BY LiveIs
<1>4. \A b : Live(b)' = Live(b) /\ Live(b) \subseteq InUse
  BY <1>1, <1>2, <1>3, LiveIs, LiveIsNext DEF SameRecord
<1>5. \A b \in 1 .. bcUsed.sent : bcPast'[b].resultTo = bcPast[b].resultTo /\ bcPast'[b].results = bcPast[b].results
  <2>1. \A b \in 1 .. bcUsed.sent : b \in 1 .. MaxBroadcasts
    BY UsedTypes
  <2> QED BY <2>1 DEF Quiet, PastGrows
<1>6. ResultOnce'
  BY <1>2, <1>4, <1>5 DEF ResultOnce
<1>7. \A i \in InUse : bcRec'[i].token = bcRec[i].token /\ bcRec'[i].resultTo = bcRec[i].resultTo
                       /\ bcRec'[i].origin = bcRec[i].origin
  BY <1>1, <1>3 DEF SameRecord
<1>8. ASSUME NEW b \in 1 .. bcUsed'.sent, bcPast'[b].resultTo, NEW i \in Live(b)'
      PROVE  IF bcRec'[i].token = 0 THEN Live(b)' = {i}
             ELSE /\ \A j \in Live(b)' : bcRec'[j].token = bcRec'[i].token
                  /\ bcSplits'[bcRec'[i].token] = Cardinality(Live(b)')
  <2>1. i \in Live(b) /\ bcPast[b].resultTo /\ b \in 1 .. bcUsed.sent /\ Live(b)' = Live(b)
        /\ \A j \in Live(b) : bcRec'[j].token = bcRec[j].token
    BY <1>2, <1>4, <1>5, <1>7, <1>8
  <2>2. IF bcRec[i].token = 0 THEN Live(b) = {i}
        ELSE /\ \A j \in Live(b) : bcRec[j].token = bcRec[i].token
             /\ bcSplits[bcRec[i].token] = Cardinality(Live(b))
    BY <2>1 DEF SplitsCounted
  <2> QED BY <1>2, <2>1, <2>2
<1>9. SplitsCounted'
  BY <1>2, <1>7, <1>8 DEF SplitsCounted
<1> QED BY <1>4, <1>6, <1>9

\* A step that changes the current record's progress changes nothing else.
LEMMA CurrentOnly ==
    ASSUME BcTypeOK, bcCurrent \in BcIds, NEW r, bcRec' = [bcRec EXCEPT ![bcCurrent] = r],
           r.receivers = bcRec[bcCurrent].receivers, r.origin = bcRec[bcCurrent].origin,
           r.ordered = bcRec[bcCurrent].ordered, r.resultTo = bcRec[bcCurrent].resultTo,
           r.token = bcRec[bcCurrent].token,
           r.over => r.state = "IDLE" /\ bcPast'[bcRec[bcCurrent].origin].cut
    PROVE  OnlyCurrent /\ bcRec'[bcCurrent] = r
<1>1. bcRec'[bcCurrent] = r /\ \A i \in BcIds : i # bcCurrent => bcRec'[i] = bcRec[i]
  BY DEF BcTypeOK
<1> QED BY <1>1 DEF OnlyCurrent, SameRecord

\* A step that changes no record changes at most the current one.
LEMMA NoneChanges ==
    ASSUME BcTypes, UNCHANGED bcRec, \A b \in 1 .. MaxBroadcasts : PastGrows(b)
    PROVE  OnlyCurrent
<1>1. ASSUME bcCurrent # NoRecord, bcRec[bcCurrent].over
      PROVE  bcRec[bcCurrent].state = "IDLE" /\ bcPast'[bcRec[bcCurrent].origin].cut
  <2>1. bcCurrent \in InUse
    BY <1>1 DEF InUse
  <2>2. bcRec[bcCurrent].origin \in 1 .. bcUsed.sent
    BY <2>1 DEF BcTypes, RecordsSound
  <2>3. bcRec[bcCurrent].origin \in 1 .. MaxBroadcasts
    BY <2>2, UsedTypes DEF BcTypes
  <2> QED BY <1>1, <2>1, <2>3 DEF BcTypes, RecordsSound, PastGrows
<1> QED BY <1>1 DEF OnlyCurrent, SameRecord

\* What is recorded of the current record's broadcast
LEMMA CurrentPast ==
    ASSUME BcTypes, bcCurrent # NoRecord,
           \/ bcPast' = [bcPast EXCEPT ![bcRec[bcCurrent].origin].cut = TRUE]
           \/ bcPast' = [bcPast EXCEPT ![bcRec[bcCurrent].origin].deferred = TRUE]
           \/ \E x : bcPast' = [bcPast EXCEPT ![bcRec[bcCurrent].origin].served = Append(@, x)]
           \/ UNCHANGED bcPast
    PROVE  /\ bcCurrent \in BcIds /\ bcCurrent \in InUse
           /\ bcRec[bcCurrent].origin \in 1 .. bcUsed.sent
           /\ bcRec[bcCurrent].origin \in 1 .. MaxBroadcasts
           /\ \A b \in 1 .. MaxBroadcasts : PastGrows(b)
<1>1. bcCurrent \in BcIds /\ bcCurrent \in InUse
  BY DEF InUse, BcTypes, BcTypeOK
<1>2. PICK o : o = bcRec[bcCurrent].origin
  OBVIOUS
<1>3. o \in 1 .. bcUsed.sent
  BY <1>1, <1>2 DEF BcTypes, RecordsSound
<1>4. o \in 1 .. MaxBroadcasts /\ bcUsed.sent \in Nat
  BY <1>3, UsedTypes DEF BcTypes
<1>5. DOMAIN bcPast = 1 .. MaxBroadcasts
  BY DEF BcTypes, BcTypeOK
<1>6. ASSUME NEW b \in 1 .. MaxBroadcasts PROVE PastGrows(b)
  <2>1. bcPast[b] \in PastType
    BY PastTypes DEF BcTypes
  <2>2. CASE b # o
    <3>1. bcPast'[b] = bcPast[b]
      BY <1>2, <1>5, <2>2
    <3> QED BY <3>1 DEF PastGrows
  <2>3. CASE b = o
    <3>0. ~(b > bcUsed.sent)
      BY <1>3, <1>4, <2>3
    <3>1. \/ bcPast'[b] = [bcPast[b] EXCEPT !.cut = TRUE]
          \/ bcPast'[b] = [bcPast[b] EXCEPT !.deferred = TRUE]
          \/ \E x : bcPast'[b] = [bcPast[b] EXCEPT !.served = Append(bcPast[b].served, x)]
          \/ bcPast'[b] = bcPast[b]
      BY <1>2, <1>5, <2>3
    <3> QED BY <2>1, <3>0, <3>1 DEF PastGrows, PastType
  <2> QED BY <2>2, <2>3
<1> QED BY <1>1, <1>2, <1>3, <1>4, <1>6

\* Histories that stay grow by nothing.
LEMMA PastSame ==
    ASSUME UNCHANGED bcPast
    PROVE  \A b \in 1 .. MaxBroadcasts : PastGrows(b)
BY DEF PastGrows

\* Records stay in their places when the lists stay.
LEMMA PlacesSame ==
    ASSUME RecordsPlaced, UNCHANGED <<bcParallel, bcOrdered, bcDeferred, bcCurrent>>,
           bcUsed'.sent = bcUsed.sent, bcUsed'.records = bcUsed.records,
           bcPc' = "loop" => bcPc = "loop"
    PROVE  SamePlaces /\ RecordsPlaced'
<1>1. InUse' = InUse
  BY DEF InUse
<1>2. SamePlaces
  BY <1>1 DEF SamePlaces
<1>3. RecordsPlaced'
  BY <1>1 DEF RecordsPlaced
<1> QED BY <1>2, <1>3

\* A delivery is a quiet step that moves the current record on by one receiver.
LEMMA DeliverQuiet ==
    ASSUME BcTypes, NEW state \in {"IDLE", "CALL_DONE_RECEIVE", "APP_RECEIVE"}, Deliver(state),
           Handle(Cur.origin, NextReceiver) \/ UNCHANGED bcPast,
           bcUsed'.sent = bcUsed.sent, bcUsed'.records = bcUsed.records
    PROVE  /\ Quiet /\ RecordsPlaced' /\ bcCurrent \in BcIds /\ bcCurrent # NoRecord
           /\ bcRec'[bcCurrent].next = bcRec[bcCurrent].next + 1 /\ bcRec'[bcCurrent].state = state
<1>1. /\ BcTypeOK /\ AtLoop /\ ~Finished /\ bcCurrent \in BcIds /\ bcCurrent # NoRecord
      /\ Cur = bcRec[bcCurrent] /\ ~Cur.over
  BY AtLoopTypes DEF BcTypes, Deliver, AtLoop, Finished
<1>2. PICK r : r = [bcRec[bcCurrent] EXCEPT !.next = bcRec[bcCurrent].next + 1, !.dispatched = TRUE, !.state = state]
  OBVIOUS
<1>3. /\ bcRec' = [bcRec EXCEPT ![bcCurrent] = r]
      /\ UNCHANGED <<bcParallel, bcOrdered, bcDeferred, bcCurrent, bcSplits>> /\ bcPc' = "out"
  BY <1>1, <1>2 DEF Deliver
<1>4. \A b \in 1 .. MaxBroadcasts : PastGrows(b)
  BY <1>1, CurrentPast DEF Handle
<1>5. /\ r.receivers = bcRec[bcCurrent].receivers /\ r.origin = bcRec[bcCurrent].origin
      /\ r.ordered = bcRec[bcCurrent].ordered /\ r.resultTo = bcRec[bcCurrent].resultTo
      /\ r.token = bcRec[bcCurrent].token /\ ~r.over
      /\ r.next = bcRec[bcCurrent].next + 1 /\ r.state = state
  <2>1. bcRec[bcCurrent] \in RecType
    BY <1>1, RecordTypes
  <2> QED BY <1>1, <1>2, <2>1 DEF RecType
<1>6. OnlyCurrent /\ bcRec'[bcCurrent] = r
  BY <1>1, <1>3, <1>5, CurrentOnly
<1>7. SamePlaces /\ RecordsPlaced'
  <2>1. RecordsPlaced /\ (bcPc' = "loop" => bcPc = "loop")
    BY <1>3 DEF BcTypes
  <2> QED BY <1>3, <2>1, PlacesSame
<1> QED BY <1>1, <1>3, <1>4, <1>5, <1>6, <1>7 DEF Quiet

\* finishReceiverLocked is a quiet step that leaves the current record at its receiver.
LEMMA FinishQuiet ==
    ASSUME BcTypes, NEW over \in BOOLEAN, finishReceiverLocked(over), bcCurrent # NoRecord,
           over => bcPast' = [bcPast EXCEPT ![bcRec[bcCurrent].origin].cut = TRUE],
           \/ UNCHANGED bcPast
           \/ bcPast' = [bcPast EXCEPT ![bcRec[bcCurrent].origin].cut = TRUE]
           \/ Handle(Cur.origin, CurReceiver)
    PROVE  /\ OnlyCurrent /\ \A b \in 1 .. MaxBroadcasts : PastGrows(b)
           /\ bcRec'[bcCurrent].next = bcRec[bcCurrent].next /\ bcRec'[bcCurrent].state = "IDLE"
           /\ bcRec'[bcCurrent].over = over
<1>1. /\ \A b \in 1 .. MaxBroadcasts : PastGrows(b)
      /\ bcCurrent \in BcIds /\ bcRec[bcCurrent].origin \in 1 .. MaxBroadcasts
  BY CurrentPast DEF Handle, Cur
<1>2. PICK r : r = [bcRec[bcCurrent] EXCEPT !.state = "IDLE", !.over = over]
  OBVIOUS
<1>3. bcRec' = [bcRec EXCEPT ![bcCurrent] = r]
  BY <1>2 DEF finishReceiverLocked, Cur
<1>4. /\ r.receivers = bcRec[bcCurrent].receivers /\ r.origin = bcRec[bcCurrent].origin
      /\ r.ordered = bcRec[bcCurrent].ordered /\ r.resultTo = bcRec[bcCurrent].resultTo
      /\ r.token = bcRec[bcCurrent].token /\ r.over = over
      /\ r.next = bcRec[bcCurrent].next /\ r.state = "IDLE"
  <2>1. bcRec[bcCurrent] \in RecType
    BY <1>1, RecordTypes DEF BcTypes
  <2> QED BY <1>2, <2>1 DEF RecType
<1>5. over => bcPast'[bcRec[bcCurrent].origin].cut
  <2>1. DOMAIN bcPast = 1 .. MaxBroadcasts /\ bcPast[bcRec[bcCurrent].origin] \in PastType
    BY <1>1, PastTypes DEF BcTypes, BcTypeOK
  <2> QED BY <1>1, <2>1 DEF PastType
<1>6. OnlyCurrent /\ bcRec'[bcCurrent] = r
  BY <1>1, <1>3, <1>4, <1>5, CurrentOnly DEF BcTypes
<1> QED BY <1>1, <1>4, <1>6

QuietAction ==
    \/ BroadcastMessage \/ getNextBroadcastLocked \/ LoopBusy \/ LoopHung
    \/ LoopDefer /\ Cur.next = Len(Cur.receivers)
    \/ DeliverToRunning \/ DeliverToDead \/ DeliverSkips \/ DeliverStarts
    \/ AttachApplication \/ BroadcastTimeout
    \/ \E abort, slow \in BOOLEAN : FinishReceiver(abort, slow)
    \/ \E app \in BcApps : ProcessDies(app)
    \/ \E ends \in BOOLEAN : DeferralCheck(ends)

\* The steps called quiet are.
LEMMA QuietStep ==
    ASSUME BcTypes, QuietAction
    PROVE  Quiet /\ RecordsPlaced'
<1>0. BcTypeOK /\ RecordsPlaced /\ RecordsSound /\ WaitsArmed
  BY DEF BcTypes
<1>1. ASSUME UNCHANGED <<bcRec, bcPast, bcParallel, bcOrdered, bcDeferred, bcCurrent, bcSplits>>,
             bcUsed'.sent = bcUsed.sent, bcUsed'.records = bcUsed.records,
             bcPc' = "loop" => bcPc = "loop"
      PROVE  Quiet /\ RecordsPlaced'
  <2>1. \A b \in 1 .. MaxBroadcasts : PastGrows(b)
    BY <1>1, PastSame
  <2>2. OnlyCurrent
    BY <1>1, <2>1, NoneChanges
  <2>3. SamePlaces /\ RecordsPlaced'
    BY <1>0, <1>1, PlacesSame
  <2> QED BY <1>1, <2>1, <2>2, <2>3 DEF Quiet
<1>2. ASSUME NEW over \in BOOLEAN, finishReceiverLocked(over), bcCurrent # NoRecord,
             over => bcPast' = [bcPast EXCEPT ![bcRec[bcCurrent].origin].cut = TRUE],
             \/ UNCHANGED bcPast
             \/ bcPast' = [bcPast EXCEPT ![bcRec[bcCurrent].origin].cut = TRUE]
             \/ Handle(Cur.origin, CurReceiver),
             UNCHANGED <<bcParallel, bcOrdered, bcDeferred, bcCurrent, bcSplits>>,
             bcUsed'.sent = bcUsed.sent, bcUsed'.records = bcUsed.records,
             bcPc' = "loop" => bcPc = "loop"
      PROVE  Quiet /\ RecordsPlaced'
  <2>1. OnlyCurrent /\ \A b \in 1 .. MaxBroadcasts : PastGrows(b)
    BY <1>2, FinishQuiet
  <2>2. SamePlaces /\ RecordsPlaced'
    BY <1>0, <1>2, PlacesSame
  <2> QED BY <1>2, <2>1, <2>2 DEF Quiet
<1>3. CASE BroadcastMessage
  BY <1>1, <1>3 DEF BroadcastMessage
<1>4. CASE getNextBroadcastLocked
  <2>1. UNCHANGED <<bcRec, bcPast, bcUsed, bcSplits>>
    BY <1>4 DEF getNextBroadcastLocked
  <2>2. \A b \in 1 .. MaxBroadcasts : PastGrows(b)
    BY <2>1, PastSame
  <2>3. OnlyCurrent
    BY <2>1, <2>2, NoneChanges
  <2>4. SamePlaces /\ RecordsPlaced'
    BY <1>0, <1>4, <2>1, NextPlaced DEF SamePlaces
  <2> QED BY <2>1, <2>2, <2>3, <2>4 DEF Quiet
<1>5. CASE LoopBusy
  BY <1>1, <1>5 DEF LoopBusy
<1>6. CASE LoopHung
  <2>1. bcCurrent # NoRecord /\ finishReceiverLocked(TRUE)
    BY <1>6 DEF LoopHung, AtLoop, finishReceiverLocked
  <2>2. bcUsed'.sent = bcUsed.sent /\ bcUsed'.records = bcUsed.records
    BY <1>0, <1>6, TroublesType DEF LoopHung
  <2>3. bcPast' = [bcPast EXCEPT ![bcRec[bcCurrent].origin].cut = TRUE]
    BY <1>6 DEF LoopHung, Cur
  <2> QED BY <1>2, <1>6, <2>1, <2>2, <2>3 DEF LoopHung
<1>7. CASE LoopDefer /\ Cur.next = Len(Cur.receivers)
  <2>1. AtLoop /\ bcCurrent # NoRecord /\ bcCurrent \in BcIds /\ Cur = bcRec[bcCurrent]
        /\ ~Cur.over /\ Cur.state = "IDLE"
    BY <1>0, <1>7, AtLoopTypes DEF LoopDefer, Split, AtLoop, Finished
  <2>2. PICK r : r = [bcRec[bcCurrent] EXCEPT !.deferred = TRUE]
    OBVIOUS
  <2>3. /\ bcRec' = [bcRec EXCEPT ![bcCurrent] = r] /\ UNCHANGED <<bcSplits, bcUsed>>
        /\ bcPast' = [bcPast EXCEPT ![bcRec[bcCurrent].origin].deferred = TRUE]
    BY <1>7, <2>1, <2>2 DEF LoopDefer, Split
  <2>4. \A b \in 1 .. MaxBroadcasts : PastGrows(b)
    BY <2>1, <2>3, CurrentPast
  <2>5. /\ r.receivers = bcRec[bcCurrent].receivers /\ r.origin = bcRec[bcCurrent].origin
        /\ r.ordered = bcRec[bcCurrent].ordered /\ r.resultTo = bcRec[bcCurrent].resultTo
        /\ r.token = bcRec[bcCurrent].token /\ ~r.over /\ r.state = "IDLE"
    <3>1. bcRec[bcCurrent] \in RecType
      BY <1>0, <2>1, RecordTypes
    <3> QED BY <2>1, <2>2, <3>1 DEF RecType
  <2>6. OnlyCurrent /\ bcRec'[bcCurrent] = r
    BY <1>0, <2>1, <2>3, <2>5, CurrentOnly
  <2>7. SamePlaces /\ RecordsPlaced'
    BY <1>0, <1>7, <2>3, <2>5, <2>6, SplitPlaced DEF SamePlaces
  <2> QED BY <2>3, <2>4, <2>6, <2>7 DEF Quiet
<1>8. CASE DeliverToRunning
  <2>1. PICK state : state = IF IsRegistered(NextReceiver) THEN "CALL_DONE_RECEIVE" ELSE "APP_RECEIVE"
    OBVIOUS
  <2>2. state \in {"IDLE", "CALL_DONE_RECEIVE", "APP_RECEIVE"} /\ Deliver(state)
    BY <1>8, <2>1 DEF DeliverToRunning
  <2> QED BY <1>8, <2>2, DeliverQuiet DEF DeliverToRunning
<1>9. CASE DeliverToDead
  BY <1>9, DeliverQuiet DEF DeliverToDead
<1>10. CASE DeliverSkips
  BY <1>0, <1>10, DeliverQuiet, TroublesType DEF DeliverSkips
<1>11. CASE DeliverStarts
  <2>1. bcUsed'.sent = bcUsed.sent /\ bcUsed'.records = bcUsed.records
    BY <1>0, <1>11, TroublesType DEF DeliverStarts
  <2> QED BY <1>11, <2>1, DeliverQuiet DEF DeliverStarts
<1>12. CASE AttachApplication
  <2>1. bcCurrent # NoRecord
    BY <1>0, <1>12 DEF WaitsArmed, AttachApplication, NoRecord
  <2>2. \A b \in 1 .. MaxBroadcasts : PastGrows(b)
    BY <1>12, <2>1, CurrentPast DEF AttachApplication, Handle, Cur
  <2>3. OnlyCurrent
    BY <1>12, <2>2, NoneChanges DEF AttachApplication
  <2>4. SamePlaces /\ RecordsPlaced'
    BY <1>0, <1>12, PlacesSame DEF AttachApplication
  <2> QED BY <1>12, <2>2, <2>3, <2>4 DEF Quiet, AttachApplication
<1>13. CASE BroadcastTimeout
  <2>1. bcCurrent # NoRecord
    BY <1>13 DEF BroadcastTimeout, Waiting
  <2> QED BY <1>2, <1>13, <2>1 DEF BroadcastTimeout
<1>14. ASSUME NEW abort \in BOOLEAN, NEW slow \in BOOLEAN, FinishReceiver(abort, slow)
       PROVE  Quiet /\ RecordsPlaced'
  <2>1. bcCurrent # NoRecord
    BY <1>14 DEF FinishReceiver, Waiting
  <2>2. bcUsed'.sent = bcUsed.sent /\ bcUsed'.records = bcUsed.records
    <3>1. PICK n \in Int : n = (IF abort THEN 1 ELSE 0) + (IF slow THEN 1 ELSE 0)
      OBVIOUS
    <3>2. Troubles(n)
      BY <1>14, <3>1 DEF FinishReceiver
    <3> QED BY <1>0, <3>2, TroublesType
  <2>3. /\ abort => bcPast' = [bcPast EXCEPT ![bcRec[bcCurrent].origin].cut = TRUE]
        /\ ~abort => UNCHANGED bcPast
    BY <1>14 DEF FinishReceiver, Cur
  <2> QED BY <1>2, <1>14, <2>1, <2>2, <2>3 DEF FinishReceiver
<1>15. ASSUME NEW app \in BcApps, ProcessDies(app)
       PROVE  Quiet /\ RecordsPlaced'
  <2>1. bcUsed'.sent = bcUsed.sent /\ bcUsed'.records = bcUsed.records
    BY <1>0, <1>15, TroublesType DEF ProcessDies
  <2>2. CASE Waiting /\ finishReceiverLocked(FALSE)
    <3>1. bcCurrent # NoRecord
      BY <2>2 DEF Waiting
    <3> QED BY <1>2, <1>15, <2>1, <2>2, <3>1 DEF ProcessDies
  <2>3. CASE UNCHANGED bcRec
    BY <1>1, <1>15, <2>1, <2>3 DEF ProcessDies
  <2> QED BY <1>15, <2>2, <2>3 DEF ProcessDies
<1>16. ASSUME NEW ends \in BOOLEAN, DeferralCheck(ends)
       PROVE  Quiet /\ RecordsPlaced'
  BY <1>1, <1>16 DEF DeferralCheck
<1> QED BY <1>3, <1>4, <1>5, <1>6, <1>7, <1>8, <1>9, <1>10, <1>11, <1>12, <1>13, <1>14, <1>15, <1>16
        DEF QuietAction

-----------------------------------------------------------------------------
(* The steps in which records come and go *)

\* processNextBroadcastLocked up to its loop: what it does to records and histories
LEMMA BeginEffects ==
    ASSUME BcTypes, ProcessBegin
    PROVE  /\ \A i \in InUse' : SameRecord(i) /\ Due(i)' = Due(i)
           /\ FewerChange
           /\ bcSplits' = bcSplits /\ bcUsed' = bcUsed
           /\ bcPending.id # NoRecord => \/ UNCHANGED <<bcRec, bcPending>> /\ bcPc' = "out"
                                         \/ bcPending'.id = NoRecord /\ bcRec'[bcCurrent].state = "IDLE"
           /\ bcPending.id = NoRecord => UNCHANGED <<bcRec, bcPending>>
           /\ \A b \in 1 .. MaxBroadcasts :
                 IF \E i \in ToSet(bcParallel) : bcRec[i].origin = b
                   THEN bcPast'[b] = [bcPast[b] EXCEPT !.served = bcPast[b].served \o Registered]
                   ELSE bcPast'[b] = bcPast[b]
<1>0. BcTypeOK /\ RecordsPlaced /\ RecordsSound /\ WaitsArmed
  BY DEF BcTypes
<1>1. /\ InUse' = InUse \ ToSet(bcParallel) /\ UNCHANGED bcCurrent /\ InUse \subseteq BcIds
      /\ InUse' \subseteq BcIds
  BY <1>0, BeginPlaced, LiveIs
<1>2. ASSUME NEW b \in 1 .. MaxBroadcasts
      PROVE  IF \E i \in ToSet(bcParallel) : bcRec[i].origin = b
               THEN bcPast'[b] = [bcPast[b] EXCEPT !.served = bcPast[b].served \o Registered]
               ELSE bcPast'[b] = bcPast[b]
  <2> DEFINE parallel(c) == {i \in ToSet(bcParallel) : bcRec[i].origin = c}
  <2>1. bcPast' = [c \in DOMAIN bcPast |->
             IF parallel(c) = {} THEN bcPast[c]
             ELSE [bcPast[c] EXCEPT !.served = bcPast[c].served \o bcRec[CHOOSE i \in parallel(c) : TRUE].receivers]]
    BY DEF ProcessBegin
  <2>2. PICK p : p = parallel(b)
    OBVIOUS
  <2>3. PICK j : j = CHOOSE i \in p : TRUE
    OBVIOUS
  <2>4. b \in DOMAIN bcPast
    BY <1>0 DEF BcTypeOK
  <2>5. bcPast'[b] = IF p = {} THEN bcPast[b]
                     ELSE [bcPast[b] EXCEPT !.served = bcPast[b].served \o bcRec[j].receivers]
    BY <2>1, <2>2, <2>3, <2>4
  <2>6. p # {} => bcRec[j].receivers = Registered
    <3>1. p # {} => j \in p
      BY <2>3
    <3> QED BY <1>0, <2>2, <3>1 DEF RecordsSound
  <2>7. p # {} <=> \E i \in ToSet(bcParallel) : bcRec[i].origin = b
    BY <2>2
  <2> QED BY <2>5, <2>6, <2>7
<1>3. \A b \in 1 .. MaxBroadcasts : bcPast[b].cut => bcPast'[b].cut
  <2> TAKE b \in 1 .. MaxBroadcasts
  <2>1. bcPast[b] \in PastType
    BY <1>0, PastTypes
  <2> QED BY <1>2, <2>1 DEF PastType
<1>4. CASE UNCHANGED <<bcRec, bcPending>>
  <2>1. \A i \in InUse' : SameRecord(i) /\ Due(i)' = Due(i)
    BY <1>4 DEF SameRecord, Due
  <2>2. bcCurrent \in InUse' => (bcRec'[bcCurrent].over => /\ bcRec'[bcCurrent].state = "IDLE"
                                                           /\ bcPast'[bcRec[bcCurrent].origin].cut)
    <3>1. \A i \in InUse : bcRec[i].origin \in 1 .. MaxBroadcasts
      BY <1>0, UsedTypes DEF RecordsSound
    <3> QED BY <1>0, <1>1, <1>3, <1>4, <3>1 DEF RecordsSound
  <2>3. FewerChange
    BY <1>4, <2>1, <2>2 DEF FewerChange
  <2>4. bcPending.id # NoRecord => bcPc' = "out"
    BY <1>4 DEF ProcessBegin
  <2> QED BY <1>2, <1>4, <2>1, <2>3, <2>4 DEF ProcessBegin
<1>5. CASE /\ bcPending.id # NoRecord
           /\ bcRec' = [bcRec EXCEPT ![bcPending.id] = [bcRec[bcPending.id] EXCEPT !.state = "IDLE", !.next = bcPending.index]]
           /\ bcPending' = [id |-> NoRecord, index |-> 0]
  <2>1. bcPending.id = bcCurrent /\ bcCurrent \in BcIds /\ bcRec[bcCurrent] \in RecType
        /\ bcRec[bcCurrent].state = "APP_RECEIVE"
    BY <1>0, <1>5, RecordTypes DEF WaitsArmed, BcTypeOK, Cur
  <2>2. PICK r : r = [bcRec[bcCurrent] EXCEPT !.state = "IDLE", !.next = bcPending.index]
    OBVIOUS
  <2>3. /\ r.receivers = bcRec[bcCurrent].receivers /\ r.origin = bcRec[bcCurrent].origin
        /\ r.ordered = bcRec[bcCurrent].ordered /\ r.resultTo = bcRec[bcCurrent].resultTo
        /\ r.token = bcRec[bcCurrent].token /\ r.over = bcRec[bcCurrent].over
        /\ r.next = bcPending.index /\ r.state = "IDLE"
    BY <2>1, <2>2 DEF RecType
  <2>4. bcRec'[bcCurrent] = r /\ \A i \in BcIds : i # bcCurrent => bcRec'[i] = bcRec[i]
    BY <1>0, <1>5, <2>1, <2>2 DEF BcTypeOK
  <2>5. \A i \in InUse' : SameRecord(i)
    BY <1>1, <2>3, <2>4 DEF SameRecord
  <2>6. \A i \in InUse' : Due(i)' = Due(i)
    <3> TAKE i \in InUse'
    <3>1. i \in BcIds /\ i # NoRecord
      BY <1>1 DEF BcIds, NoRecord
    <3>2. bcPending'.id # i
      BY <1>5, <3>1
    <3> QED BY <1>1, <2>1, <2>3, <2>4, <3>1, <3>2 DEF Due
  <2>7. bcCurrent \in InUse => ~bcRec[bcCurrent].over
    BY <1>0, <2>1 DEF RecordsSound
  <2>8. FewerChange
    BY <1>1, <2>3, <2>4, <2>5, <2>7 DEF FewerChange
  <2> QED BY <1>2, <1>5, <2>3, <2>4, <2>5, <2>6, <2>8 DEF ProcessBegin
<1> QED BY <1>4, <1>5 DEF ProcessBegin

\* processNextBroadcastLocked up to its loop keeps the records sound.
LEMMA BeginSound ==
    ASSUME BcTypes, ProcessBegin
    PROVE  RecordsPlaced' /\ RecordsSound' /\ \A b \in 1 .. MaxBroadcasts : PastGrows(b)
<1>0. BcTypeOK /\ RecordsPlaced /\ RecordsSound
  BY DEF BcTypes
<1>1. /\ RecordsPlaced' /\ InUse' = InUse \ ToSet(bcParallel) /\ ToSet(bcParallel') = {}
      /\ UNCHANGED <<bcOrdered, bcDeferred, bcCurrent>>
  BY <1>0, BeginPlaced
<1>2. FewerPlaces
  <2>1. ToSet(bcDeferred) \subseteq InUse' /\ ToSet(bcOrdered) \subseteq InUse'
    BY <1>0, <1>1 DEF RecordsPlaced, InUse
  <2>2. ToSet(bcDeferred') = ToSet(bcDeferred) /\ ToSet(bcOrdered') = ToSet(bcOrdered)
    BY <1>1
  <2>3. bcUsed' = bcUsed
    BY DEF ProcessBegin
  <2> QED BY <1>1, <2>1, <2>2, <2>3 DEF FewerPlaces
<1>3. ASSUME NEW b \in 1 .. MaxBroadcasts PROVE PastGrows(b) /\ PastKept(b)
  <2>1. bcPast[b] \in PastType
    BY <1>0, PastTypes
  <2>2. (\E i \in ToSet(bcParallel) : bcRec[i].origin = b) => ~(b > bcUsed.sent)
    <3>1. ASSUME NEW i \in ToSet(bcParallel) PROVE bcRec[i].origin \in 1 .. bcUsed.sent /\ bcUsed.sent \in Nat
      <4>1. i \in InUse
        BY DEF InUse
      <4> QED BY <1>0, <4>1, UsedTypes DEF RecordsSound
    <3> QED BY <3>1
  <2>3. IF \E i \in ToSet(bcParallel) : bcRec[i].origin = b
          THEN bcPast'[b] = [bcPast[b] EXCEPT !.served = bcPast[b].served \o Registered]
          ELSE bcPast'[b] = bcPast[b]
    BY BeginEffects
  <2> QED BY <2>1, <2>2, <2>3 DEF PastGrows, PastKept, PastType
<1>4. FewerChange
  BY BeginEffects
<1>5. RecordsSound'
  BY <1>2, <1>3, <1>4, FewerSound
<1> QED BY <1>1, <1>3, <1>5

\* The retirement of a record keeps the others sound.
LEMMA RetireSound ==
    ASSUME BcTypes, LoopRetire
    PROVE  /\ RecordsPlaced' /\ RecordsSound'
           /\ bcCurrent \in InUse /\ InUse' = InUse \ {bcCurrent}
           /\ \A i \in InUse' : bcRec'[i] = bcRec[i]
           /\ bcUsed' = bcUsed /\ bcPending' = bcPending
           /\ \A b \in 1 .. MaxBroadcasts :
                 /\ PastKept(b) /\ bcPast'[b].served = bcPast[b].served
                 /\ bcPast'[b].cut = bcPast[b].cut /\ bcPast'[b].deferred = bcPast[b].deferred
<1>0. BcTypeOK /\ RecordsPlaced /\ RecordsSound
  BY DEF BcTypes
<1>1. /\ RecordsPlaced' /\ bcCurrent \in InUse /\ InUse' = InUse \ {bcCurrent} /\ bcCurrent' = NoRecord
      /\ UNCHANGED <<bcParallel, bcOrdered, bcDeferred>> /\ InUse \subseteq BcIds
  BY <1>0, RetirePlaced, LiveIs
<1>2. FewerPlaces
  <2>1. ToSet(bcDeferred) \subseteq InUse' /\ ToSet(bcOrdered) \subseteq InUse' /\ ToSet(bcParallel) \subseteq InUse'
    BY <1>0, <1>1 DEF RecordsPlaced, InUse
  <2>2. /\ ToSet(bcDeferred') = ToSet(bcDeferred) /\ ToSet(bcOrdered') = ToSet(bcOrdered)
        /\ ToSet(bcParallel') = ToSet(bcParallel)
    BY <1>1
  <2>3. bcUsed' = bcUsed
    BY DEF LoopRetire
  <2> QED BY <1>1, <2>1, <2>2, <2>3 DEF FewerPlaces
<1>3. \A i \in InUse' : bcRec'[i] = bcRec[i]
  BY <1>0, <1>1 DEF LoopRetire, BcTypeOK
<1>4. FewerChange
  BY <1>1, <1>3 DEF FewerChange
<1>5. PICK o : o = bcRec[bcCurrent].origin
  OBVIOUS
<1>6. o \in 1 .. bcUsed.sent /\ o \in 1 .. MaxBroadcasts /\ bcUsed.sent \in Nat
  BY <1>0, <1>1, <1>5, UsedTypes DEF RecordsSound
<1>7. ASSUME NEW b \in 1 .. MaxBroadcasts
      PROVE  /\ PastKept(b) /\ bcPast'[b].served = bcPast[b].served
             /\ bcPast'[b].cut = bcPast[b].cut /\ bcPast'[b].deferred = bcPast[b].deferred
  <2>1. bcPast[b] \in PastType /\ DOMAIN bcPast = 1 .. MaxBroadcasts
    BY <1>0, PastTypes DEF BcTypeOK
  <2>2. bcPast' = bcPast \/ bcPast' = [bcPast EXCEPT ![o].results = @ + 1]
    BY <1>5 DEF LoopRetire, Cur
  <2>3. CASE b # o \/ bcPast' = bcPast
    <3>1. bcPast'[b] = bcPast[b]
      BY <2>1, <2>2, <2>3
    <3> QED BY <3>1 DEF PastKept
  <2>4. CASE b = o /\ bcPast' = [bcPast EXCEPT ![o].results = @ + 1]
    <3>1. bcPast'[b] = [bcPast[b] EXCEPT !.results = bcPast[b].results + 1] /\ ~(b > bcUsed.sent)
      BY <1>6, <2>1, <2>4
    <3> QED BY <2>1, <3>1 DEF PastKept, PastType
  <2> QED BY <2>2, <2>3, <2>4
<1>8. RecordsSound'
  BY <1>2, <1>4, <1>7, FewerSound
<1> QED BY <1>1, <1>3, <1>7, <1>8 DEF LoopRetire

\* What splitRecipientsLocked does to the list of receivers: from n on, those in T go to the
\* second list.
SplitInto(s, n, T, one, two) ==
    /\ s \in Seq(Receivers) /\ IsInjective(s) /\ n \in 1 .. Len(s)
    /\ one = SubSeq(s, 1, n - 1) \o Filter(SubSeq(s, n, Len(s)), Receivers \ T)
    /\ two = Filter(SubSeq(s, n, Len(s)), T)

\* The two lists of splitRecipientsLocked hold what is still due, each receiver in one of
\* them.
LEMMA SplitLists ==
    ASSUME NEW s, NEW n, NEW T, NEW one, NEW two, SplitInto(s, n, T, one, two)
    PROVE  /\ one \in Seq(Receivers) /\ IsInjective(one)
           /\ two \in Seq(Receivers) /\ IsInjective(two)
           /\ {one[k] : k \in n .. Len(one)} = {s[k] : k \in n .. Len(s)} \ T
           /\ {two[k] : k \in 1 .. Len(two)} = {s[k] : k \in n .. Len(s)} \cap T
<1> USE DEF SplitInto
<1>0. Len(s) \in Nat /\ \A i, j \in 1 .. Len(s) : s[i] = s[j] => i = j
  BY LenProperties, Elements
<1>1. PICK before : before = SubSeq(s, 1, n - 1)
  OBVIOUS
<1>2. PICK rest : rest = SubSeq(s, n, Len(s))
  OBVIOUS
<1>3. /\ before \in Seq(Receivers) /\ IsInjective(before) /\ Len(before) = n - 1
      /\ ToSet(before) = {s[k] : k \in 1 .. n - 1}
  <2>1. n - 1 \in 0 .. Len(s) /\ (1 <= n - 1 => (n - 1) - 1 + 1 = n - 1) /\ (~(1 <= n - 1) => n - 1 = 0)
    BY <1>0
  <2>2. PICK m \in 0 .. Len(s) : m = n - 1
    BY <2>1
  <2>3. /\ SubSeq(s, 1, m) \in Seq(Receivers) /\ IsInjective(SubSeq(s, 1, m))
        /\ Len(SubSeq(s, 1, m)) = (IF 1 <= m THEN m - 1 + 1 ELSE 0)
        /\ ToSet(SubSeq(s, 1, m)) = {s[k] : k \in 1 .. m}
    BY <1>0, Slice
  <2> QED BY <1>1, <2>1, <2>2, <2>3
<1>4. /\ rest \in Seq(Receivers) /\ IsInjective(rest) /\ ToSet(rest) = {s[k] : k \in n .. Len(s)}
  <2>1. n \in Nat \ {0} /\ Len(s) \in 0 .. Len(s)
    BY <1>0
  <2> QED BY <1>2, <2>1, Slice
<1>5. ToSet(before) \cap ToSet(rest) = {}
  <2>1. \A k \in 1 .. n - 1, l \in n .. Len(s) : k \in 1 .. Len(s) /\ l \in 1 .. Len(s) /\ k # l
    BY <1>0
  <2> QED BY <1>0, <1>3, <1>4, <2>1
<1>6. PICK others : others = Filter(rest, Receivers \ T)
  OBVIOUS
<1>7. /\ others \in Seq(Receivers) /\ IsInjective(others) /\ ToSet(others) = ToSet(rest) \ T
      /\ two \in Seq(Receivers) /\ IsInjective(two) /\ ToSet(two) = ToSet(rest) \cap T
  <2>1. /\ others \in Seq(Receivers) /\ IsInjective(others)
        /\ ToSet(others) = ToSet(rest) \cap (Receivers \ T)
    BY <1>4, <1>6, FilterKeeps
  <2>2. two \in Seq(Receivers) /\ IsInjective(two) /\ ToSet(two) = ToSet(rest) \cap T
    BY <1>2, <1>4, FilterKeeps
  <2>3. ToSet(rest) \subseteq Receivers
    BY <1>4, Elements
  <2> QED BY <2>1, <2>2, <2>3
<1>8. one = before \o others
  BY <1>1, <1>2, <1>6
<1>9. one \in Seq(Receivers) /\ IsInjective(one)
  <2>1. ToSet(before) \cap ToSet(others) = {}
    BY <1>5, <1>7
  <2>2. before \o others \in Seq(Receivers) /\ IsInjective(before \o others)
    BY <1>3, <1>7, <2>1, TwoLists
  <2> QED BY <1>8, <2>2
<1>10. {one[k] : k \in n .. Len(one)} = ToSet(others)
  <2>1. Len(others) \in Nat /\ Len(one) = (n - 1) + Len(others)
        /\ \A k \in n .. Len(one) : one[k] = others[k - (n - 1)]
    <3>1. Len(before) \in Nat /\ Len(others) \in Nat /\ n - 1 \in Nat
      BY <1>3, <1>7, LenProperties
    <3>2. /\ Len(before \o others) = Len(before) + Len(others)
          /\ \A k \in 1 .. Len(before) + Len(others) : (before \o others)[k] =
                IF k <= Len(before) THEN before[k] ELSE others[k - Len(before)]
      BY <1>3, <1>7, ConcatProperties
    <3>3. \A k \in n .. (n - 1) + Len(others) : k \in 1 .. (n - 1) + Len(others) /\ ~(k <= n - 1)
      BY <3>1
    <3> QED BY <1>3, <1>8, <3>1, <3>2, <3>3
  <2>2. /\ \A i \in 1 .. Len(others) : others[i] \in ToSet(others)
        /\ \A x \in ToSet(others) : \E i \in 1 .. Len(others) : others[i] = x
    BY <1>7, Elements
  <2>3. \A k \in n .. Len(one) : k - (n - 1) \in 1 .. Len(others)
    BY <2>1
  <2>4. \A i \in 1 .. Len(others) : i + (n - 1) \in n .. Len(one) /\ (i + (n - 1)) - (n - 1) = i
    BY <2>1
  <2>5. \A k \in n .. Len(one) : one[k] \in ToSet(others)
    BY <2>1, <2>2, <2>3
  <2>6. ASSUME NEW x \in ToSet(others) PROVE \E k \in n .. Len(one) : one[k] = x
    <3>1. PICK i \in 1 .. Len(others) : others[i] = x
      BY <2>2
    <3>2. PICK k : k = i + (n - 1)
      OBVIOUS
    <3>3. k \in n .. Len(one) /\ k - (n - 1) = i
      BY <2>4, <3>2
    <3>4. one[k] = x
      BY <2>1, <3>1, <3>3
    <3> QED BY <3>3, <3>4
  <2> QED BY <2>5, <2>6
<1>11. {two[k] : k \in 1 .. Len(two)} = ToSet(two)
  BY <1>7, LenProperties DEF ToSet
<1> QED BY <1>4, <1>7, <1>9, <1>10, <1>11

\* The part that deferral splits off
Part == bcUsed.records + 1

\* What the records look like after the split
SplitRecords(c, part, token) ==
    /\ part \in BcIds \ InUse /\ part # c /\ c \in BcIds /\ c \in InUse
    /\ bcUsed'.records = part /\ bcUsed'.sent = bcUsed.sent
    /\ \A i \in BcIds : i # c /\ i # part => bcRec'[i] = bcRec[i]
    /\ \A i \in {c, part} :
          /\ bcRec'[i].origin = bcRec[c].origin /\ bcRec'[i].ordered = bcRec[c].ordered
          /\ bcRec'[i].resultTo = bcRec[c].resultTo
          /\ bcRec'[i].token = IF bcRec[c].resultTo THEN token ELSE 0
          /\ bcRec'[i].state = "IDLE" /\ ~bcRec'[i].over
          /\ IsInjective(bcRec'[i].receivers)
    /\ bcRec'[c].next = bcRec[c].next
    /\ Rest(c)' \cup Rest(part)' = Rest(c) /\ Rest(c)' \cap Rest(part)' = {}
    /\ bcPending.id = NoRecord /\ bcPending' = bcPending
    /\ bcPast' = [bcPast EXCEPT ![bcRec[c].origin].deferred = TRUE]
    /\ token = IF bcRec[c].token = 0 THEN c ELSE bcRec[c].token
    /\ bcSplits' = IF bcRec[c].resultTo
                     THEN [bcSplits EXCEPT ![token] = IF bcRec[c].token = 0 THEN 2 ELSE bcSplits[token] + 1]
                     ELSE bcSplits

\* A deferral that splits is a split of the current record into two.
LEMMA SplitEffects ==
    ASSUME BcTypes, LoopDefer, Cur.next # Len(Cur.receivers)
    PROVE  \E c, part, token : c = bcCurrent /\ part = Part /\ SplitRecords(c, part, token)
<1>0. BcTypeOK /\ RecordsPlaced /\ RecordsSound /\ WaitsArmed
  BY DEF BcTypes
<1>1. /\ AtLoop /\ ~Finished /\ bcCurrent \in BcIds /\ Cur = bcRec[bcCurrent] /\ bcCurrent \in InUse
      /\ Cur.next \in 1 .. Len(Cur.receivers) /\ ~Cur.over /\ Cur.state = "IDLE"
      /\ Part \in BcIds \ InUse /\ bcPending.id = NoRecord
  <2>1. AtLoop /\ ~Finished /\ Cur.state = "IDLE"
    BY DEF LoopDefer, Split
  <2>2. bcCurrent \in InUse /\ bcUsed.records + 1 \in BcIds \ InUse
    BY <1>0, SplitPlaced
  <2>3. bcPending.id = NoRecord
    BY <1>0, <2>1 DEF WaitsArmed
  <2> QED BY <1>0, <2>1, <2>2, <2>3, AtLoopTypes DEF Finished, Part
<1>2. PICK s, n : s = Cur.receivers /\ n = Cur.next
  OBVIOUS
<1>3. PICK T : T = {x \in Receivers : AppOf[x] = AppOf[NextReceiver]}
  OBVIOUS
<1>4. PICK one, two : /\ one = SubSeq(s, 1, n - 1) \o Filter(SubSeq(s, n, Len(s)), Receivers \ T)
                      /\ two = Filter(SubSeq(s, n, Len(s)), T)
  OBVIOUS
<1>5. s \in Seq(Receivers) /\ IsInjective(s) /\ n \in 1 .. Len(s) /\ Len(s) \in Nat
  BY <1>0, <1>1, <1>2, RecordTypes DEF RecordsSound
<1>6. /\ one \in Seq(Receivers) /\ IsInjective(one)
      /\ two \in Seq(Receivers) /\ IsInjective(two)
      /\ {one[k] : k \in n .. Len(one)} = {s[k] : k \in n .. Len(s)} \ T
      /\ {two[k] : k \in 1 .. Len(two)} = {s[k] : k \in n .. Len(s)} \cap T
  <2>1. SplitInto(s, n, T, one, two)
    BY <1>4, <1>5 DEF SplitInto
  <2> QED BY <2>1, SplitLists
<1>7. PICK token : token = IF Cur.token = 0 THEN bcCurrent ELSE Cur.token
  OBVIOUS
<1>8. PICK tok : tok = IF Cur.resultTo THEN token ELSE 0
  OBVIOUS
<1>9. PICK kept : kept = [Cur EXCEPT !.receivers = one, !.token = tok]
  OBVIOUS
<1>10. PICK off : off = [kept EXCEPT !.receivers = two, !.next = 1, !.dispatched = FALSE, !.deferred = TRUE]
  OBVIOUS
<1>11. PICK c, part : c = bcCurrent /\ part = Part
  OBVIOUS
<1>12. /\ bcRec' = [bcRec EXCEPT ![bcCurrent] = kept, ![part] = off]
       /\ bcSplits' = IF Cur.resultTo
                        THEN [bcSplits EXCEPT ![token] = IF Cur.token = 0 THEN 2 ELSE bcSplits[token] + 1]
                        ELSE bcSplits
       /\ bcUsed' = [bcUsed EXCEPT !.records = part]
       /\ bcPast' = [bcPast EXCEPT ![Cur.origin].deferred = TRUE]
       /\ UNCHANGED bcPending
  BY <1>2, <1>3, <1>4, <1>7, <1>8, <1>9, <1>10, <1>11 DEF LoopDefer, Split, Part
<1>13. /\ kept.receivers = one /\ kept.token = tok /\ kept.origin = Cur.origin /\ kept.ordered = Cur.ordered
       /\ kept.resultTo = Cur.resultTo /\ kept.state = "IDLE" /\ ~kept.over /\ kept.next = n
       /\ off.receivers = two /\ off.token = tok /\ off.origin = Cur.origin /\ off.ordered = Cur.ordered
       /\ off.resultTo = Cur.resultTo /\ off.state = "IDLE" /\ ~off.over /\ off.next = 1
  <2>1. Cur \in RecType
    BY <1>0, <1>1, RecordTypes
  <2>2. /\ kept.receivers = one /\ kept.token = tok /\ kept.origin = Cur.origin /\ kept.ordered = Cur.ordered
        /\ kept.resultTo = Cur.resultTo /\ kept.state = "IDLE" /\ ~kept.over /\ kept.next = n
    BY <1>1, <1>2, <1>9, <2>1 DEF RecType
  <2>3. DOMAIN kept = DOMAIN Cur
    BY <1>9
  <2>4. /\ off.receivers = two /\ off.token = kept.token /\ off.origin = kept.origin /\ off.ordered = kept.ordered
        /\ off.resultTo = kept.resultTo /\ off.state = kept.state /\ off.over = kept.over /\ off.next = 1
    BY <1>10, <2>1, <2>3 DEF RecType
  <2> QED BY <2>2, <2>4
<1>14. part # bcCurrent /\ part \in BcIds /\ part \notin InUse
  BY <1>1, <1>11
<1>15. /\ bcRec'[bcCurrent] = kept /\ bcRec'[part] = off
       /\ \A i \in BcIds : i # bcCurrent /\ i # part => bcRec'[i] = bcRec[i]
  BY <1>0, <1>1, <1>12, <1>14 DEF BcTypeOK
<1>16. Rest(c) = {s[k] : k \in n .. Len(s)} /\ bcPending.id # c /\ bcPending.id # part
  BY <1>1, <1>2, <1>11, <1>14 DEF Rest, Due, BcIds, NoRecord
<1>17. Rest(c)' = {one[k] : k \in n .. Len(one)} /\ Rest(part)' = {two[k] : k \in 1 .. Len(two)}
  <2>1. bcRec'[c] = kept /\ bcRec'[part] = off /\ bcPending'.id # c /\ bcPending'.id # part
    BY <1>11, <1>12, <1>15, <1>16
  <2>2. Due(c)' = n /\ Due(part)' = 1
    BY <1>13, <2>1 DEF Due
  <2> QED BY <1>13, <2>1, <2>2 DEF Rest
<1>18. Rest(c)' \cup Rest(part)' = Rest(c) /\ Rest(c)' \cap Rest(part)' = {}
  BY <1>6, <1>16, <1>17
<1>19. bcUsed'.records = part /\ bcUsed'.sent = bcUsed.sent
  BY <1>0, <1>12 DEF BcTypeOK
<1>20. SplitRecords(c, part, token)
  <2>1. part \in BcIds \ InUse /\ part # c /\ c \in BcIds /\ c \in InUse
    BY <1>1, <1>11
  <2>2. \A i \in BcIds : i # c /\ i # part => bcRec'[i] = bcRec[i]
    BY <1>11, <1>15
  <2>3. ASSUME NEW i \in {c, part}
        PROVE  /\ bcRec'[i].origin = bcRec[c].origin /\ bcRec'[i].ordered = bcRec[c].ordered
               /\ bcRec'[i].resultTo = bcRec[c].resultTo
               /\ bcRec'[i].token = IF bcRec[c].resultTo THEN token ELSE 0
               /\ bcRec'[i].state = "IDLE" /\ ~bcRec'[i].over
               /\ IsInjective(bcRec'[i].receivers)
    <3>1. bcRec'[i] = kept \/ bcRec'[i] = off
      BY <1>11, <1>15
    <3>2. Cur = bcRec[c]
      BY <1>1, <1>11
    <3> QED BY <1>6, <1>8, <1>13, <3>1, <3>2
  <2>4. bcRec'[c].next = bcRec[c].next
    BY <1>1, <1>2, <1>11, <1>13, <1>15
  <2>5. /\ bcPending.id = NoRecord /\ bcPending' = bcPending
        /\ bcPast' = [bcPast EXCEPT ![bcRec[c].origin].deferred = TRUE]
        /\ token = IF bcRec[c].token = 0 THEN c ELSE bcRec[c].token
        /\ bcSplits' = IF bcRec[c].resultTo
                         THEN [bcSplits EXCEPT ![token] = IF bcRec[c].token = 0 THEN 2 ELSE bcSplits[token] + 1]
                         ELSE bcSplits
    BY <1>1, <1>7, <1>11, <1>12
  <2> QED BY <1>18, <1>19, <2>1, <2>2, <2>3, <2>4, <2>5 DEF SplitRecords
<1> QED BY <1>11, <1>20

\* A split keeps the records sound.
LEMMA SplitSound ==
    ASSUME BcTypes, LoopDefer, Cur.next # Len(Cur.receivers)
    PROVE  /\ RecordsPlaced' /\ RecordsSound' /\ InUse' = InUse \cup {Part}
           /\ \A b \in 1 .. MaxBroadcasts : PastGrows(b)
<1>0. BcTypeOK /\ RecordsPlaced /\ RecordsSound
  BY DEF BcTypes
<1>1. PICK c, part, token : c = bcCurrent /\ part = Part /\ SplitRecords(c, part, token)
  BY SplitEffects
<1>2. /\ RecordsPlaced' /\ InUse' = InUse \cup {part} /\ bcCurrent' = bcCurrent
      /\ ToSet(bcDeferred') = ToSet(bcDeferred) \cup {part}
      /\ ToSet(bcParallel') = ToSet(bcParallel) /\ ToSet(bcOrdered') = ToSet(bcOrdered)
      /\ c # NoRecord /\ InUse \subseteq BcIds
  BY <1>0, <1>1, SplitPlaced, LiveIs DEF Part
<1>3. /\ part \in BcIds \ InUse /\ part # c /\ c \in BcIds /\ c \in InUse
      /\ \A i \in InUse : i # c => bcRec'[i] = bcRec[i]
      /\ \A i \in {c, part} :
            /\ bcRec'[i].origin = bcRec[c].origin /\ bcRec'[i].ordered = bcRec[c].ordered
            /\ bcRec'[i].resultTo = bcRec[c].resultTo
            /\ bcRec'[i].state = "IDLE" /\ ~bcRec'[i].over
            /\ IsInjective(bcRec'[i].receivers)
      /\ bcUsed'.sent = bcUsed.sent
  <2>1. \A i \in InUse : i # part
    BY <1>1 DEF SplitRecords
  <2> QED BY <1>1, <1>2, <2>1 DEF SplitRecords
<1>4. \A b \in 1 .. MaxBroadcasts : PastGrows(b)
  <2>1. bcPast' = [bcPast EXCEPT ![bcRec[bcCurrent].origin].deferred = TRUE]
    BY <1>1 DEF SplitRecords
  <2> QED BY <1>1, <1>2, <2>1, CurrentPast
<1>5. c \notin ToSet(bcParallel) /\ c \notin ToSet(bcOrdered) /\ c \notin ToSet(bcDeferred)
  BY <1>0, <1>1 DEF RecordsPlaced
<1>6. /\ ToSet(bcParallel) \subseteq InUse /\ ToSet(bcOrdered) \subseteq InUse /\ ToSet(bcDeferred) \subseteq InUse
  BY DEF InUse
<1>7. \A i \in InUse : bcRec[i].origin \in 1 .. bcUsed.sent /\ bcRec[i].origin \in 1 .. MaxBroadcasts
  BY <1>0, UsedTypes DEF RecordsSound
<1>8. \A i \in InUse' : bcRec'[i].origin \in 1 .. bcUsed'.sent /\ IsInjective(bcRec'[i].receivers)
  BY <1>0, <1>2, <1>3, <1>7 DEF RecordsSound
<1>9. ASSUME NEW i \in ToSet(bcParallel')
      PROVE  /\ bcRec'[i].receivers = Registered /\ Registered # <<>>
             /\ bcRec'[i].next = 1 /\ ~bcRec'[i].resultTo /\ bcRec'[i].token = 0 /\ ~bcRec'[i].over
             /\ ~bcPast'[bcRec'[i].origin].ordered
  <2>1. i \in ToSet(bcParallel) /\ i \in InUse /\ bcRec'[i] = bcRec[i]
    BY <1>2, <1>3, <1>5, <1>6
  <2>2. bcPast'[bcRec[i].origin].ordered = bcPast[bcRec[i].origin].ordered
    BY <1>4, <1>7, <2>1 DEF PastGrows
  <2> QED BY <1>0, <2>1, <2>2 DEF RecordsSound
<1>10. ASSUME NEW i \in InUse' \ ToSet(bcParallel')
       PROVE  /\ bcRec'[i].resultTo = bcPast'[bcRec'[i].origin].resultTo
              /\ bcRec'[i].ordered = bcPast'[bcRec'[i].origin].ordered
  <2>1. PICK j \in InUse \ ToSet(bcParallel) :
           /\ bcRec'[i].origin = bcRec[j].origin /\ bcRec'[i].resultTo = bcRec[j].resultTo
           /\ bcRec'[i].ordered = bcRec[j].ordered
    BY <1>2, <1>3, <1>5
  <2> QED BY <1>0, <1>4, <1>7, <2>1 DEF RecordsSound, PastGrows
<1>11. ASSUME NEW i \in ToSet(bcOrdered') PROVE bcRec'[i].next = 1 /\ bcRec'[i].token = 0
  BY <1>0, <1>2, <1>3, <1>5, <1>6 DEF RecordsSound
<1>12. ASSUME NEW i \in ToSet(bcOrdered') \cup ToSet(bcDeferred')
       PROVE  bcRec'[i].state = "IDLE" /\ ~bcRec'[i].over
  BY <1>0, <1>2, <1>3, <1>5, <1>6 DEF RecordsSound
<1>13. ASSUME NEW i \in InUse', bcRec'[i].over
       PROVE  bcRec'[i].state = "IDLE" /\ bcPast'[bcRec'[i].origin].cut
  BY <1>0, <1>2, <1>3, <1>4, <1>7, <1>13 DEF RecordsSound, PastGrows
<1>14. ASSUME NEW b \in 1 .. MaxBroadcasts
       PROVE  /\ b > bcUsed'.sent => bcPast'[b].results = 0 /\ bcPast'[b].served = <<>> /\ ~bcPast'[b].cut
              /\ bcPast'[b].resultTo => bcPast'[b].ordered
  BY <1>0, <1>3, <1>4 DEF PastGrows, RecordsSound
<1>15. RecordsSound'
  BY <1>8, <1>9, <1>10, <1>11, <1>12, <1>13, <1>14 DEF RecordsSound
<1> QED BY <1>1, <1>2, <1>4, <1>15

\* What a new broadcast does to records and histories.  id is its record, ps holds the one for
\* its registered receivers; dropped are the records that it replaces, the ordered one in do.
SendRecords(b, id, ps, do, dropped, ordered, resultTo) ==
    /\ b \in 1 .. MaxBroadcasts /\ b = bcUsed.sent + 1 /\ bcUsed'.sent = b
    /\ id \in BcIds \ InUse /\ ps \subseteq BcIds \ InUse /\ id \notin ps
    /\ do \subseteq ToSet(bcOrdered) /\ do \subseteq dropped /\ dropped \ do \subseteq ToSet(bcParallel)
    /\ (resultTo => ordered) /\ (ps # {} => ~ordered /\ Registered # <<>>)
    /\ (~ordered /\ Registered # <<>> => ps # {})
    /\ (\A i, j \in do : i = j) /\ (\A i, j \in ps : i = j)
    /\ bcUsed'.records >= bcUsed.records /\ \A i \in {id} \cup ps : i > bcUsed.records
    /\ ToSet(bcOrdered') = (ToSet(bcOrdered) \ do) \cup {id}
    /\ ToSet(bcParallel') = (ToSet(bcParallel) \ dropped) \cup ps
    /\ UNCHANGED <<bcDeferred, bcCurrent, bcSplits, bcPending>>
    /\ InUse' = (InUse \ dropped) \cup ({id} \cup ps)
    /\ \A i \in InUse : bcRec'[i] = bcRec[i]
    /\ bcRec'[id] = NewRecord(b, IF ordered THEN Merged(Components, Registered) ELSE Components, ordered, resultTo)
    /\ \A p \in ps : bcRec'[p] = NewRecord(b, Registered, FALSE, FALSE)
    /\ bcPast'[b] = [bcPast[b] EXCEPT !.ordered = ordered, !.resultTo = resultTo]

SendPast(c, do, dropped) ==
    bcPast'[c] = [bcPast[c] EXCEPT
       !.results = bcPast[c].results + (IF \E d \in do : bcRec[d].origin = c /\ bcRec[d].resultTo THEN 1 ELSE 0),
       !.cut = bcPast[c].cut \/ \E d \in dropped : bcRec[d].origin = c]

\* What broadcastIntentLocked does to records and histories
LEMMA SendEffects ==
    ASSUME BcTypes, NEW ordered \in BOOLEAN, NEW resultTo \in BOOLEAN, NEW replace \in BOOLEAN,
           broadcastIntentLocked(ordered, resultTo, replace)
    PROVE  \E b, id, ps, do, dropped :
              /\ SendRecords(b, id, ps, do, dropped, ordered, resultTo)
              /\ \A c \in 1 .. MaxBroadcasts : c # b => SendPast(c, do, dropped)
<1>0. BcTypeOK /\ RecordsPlaced /\ RecordsSound
  BY DEF BcTypes
<1>1. PICK b, id, pid : b = bcUsed.sent + 1 /\ id = bcUsed.records + 1 /\ pid = id + 1
  OBVIOUS
<1>2. PICK ps, do, dp : ps = NewParallel(ordered) /\ do = DropsOrdered(replace) /\ dp = DropsParallel(ordered, replace)
  OBVIOUS
<1>3. PICK dropped : dropped = do \cup dp
  OBVIOUS
<1>4. /\ id \in BcIds \ InUse /\ ps \subseteq BcIds \ InUse /\ id \notin ps
      /\ do \subseteq ToSet(bcOrdered) /\ dp \subseteq ToSet(bcParallel)
      /\ ToSet(bcOrdered') = (ToSet(bcOrdered) \ do) \cup {id}
      /\ ToSet(bcParallel') = (ToSet(bcParallel) \ dp) \cup ps
      /\ UNCHANGED <<bcDeferred, bcCurrent>>
      /\ InUse' = (InUse \ dropped) \cup ({id} \cup ps)
  BY <1>0, <1>1, <1>2, <1>3, SendPlaced DEF NewOrdered
<1>5. ToSet(bcParallel) \ dp = ToSet(bcParallel) \ dropped
  BY <1>0, <1>3, <1>4 DEF RecordsPlaced
<1>6. /\ b \in 1 .. MaxBroadcasts /\ (resultTo => ordered) /\ pid \in Nat /\ id # pid /\ pid \in BcIds
      /\ pid = bcUsed.records + 2
  <2>1. b <= MaxBroadcasts /\ pid <= MaxRecords /\ (resultTo => ordered)
    BY <1>1 DEF broadcastIntentLocked
  <2>2. bcUsed.sent \in Nat /\ bcUsed.records \in Nat /\ MaxBroadcasts \in Nat /\ MaxRecords \in Nat
    BY <1>0, UsedTypes
  <2> QED BY <1>1, <2>1, <2>2 DEF BcIds
<1>7. /\ bcUsed'.sent = b /\ UNCHANGED <<bcSplits, bcPending>>
  BY <1>0, <1>1 DEF broadcastIntentLocked, BcTypeOK
<1>8. /\ ps = IF ~ordered /\ Registered # <<>> THEN {pid} ELSE {}
      /\ \A i, j \in do : i = j
  BY <1>2, <1>6 DEF NewParallel, DropsOrdered
<1>9. PICK one, two : /\ one = NewRecord(b, IF ordered THEN Merged(Components, Registered) ELSE Components, ordered, resultTo)
                      /\ two = NewRecord(b, Registered, FALSE, FALSE)
  OBVIOUS
<1>10. /\ bcRec' = [bcRec EXCEPT ![id] = one, ![pid] = IF ~ordered /\ Registered # <<>> THEN two ELSE bcRec[pid]]
  BY <1>1, <1>9 DEF broadcastIntentLocked
<1>11. /\ bcRec'[id] = one /\ \A p \in ps : bcRec'[p] = two
       /\ \A i \in InUse : bcRec'[i] = bcRec[i]
  <2>1. DOMAIN bcRec = BcIds
    BY <1>0 DEF BcTypeOK
  <2>2. bcRec'[id] = one /\ \A p \in ps : bcRec'[p] = two
    BY <1>4, <1>6, <1>8, <1>10, <2>1
  <2>3. ASSUME NEW i \in InUse PROVE bcRec'[i] = bcRec[i]
    <3>1. i \in BcIds /\ i # id
      BY <1>0, <1>4, LiveIs
    <3>2. CASE i = pid
      <4>1. ~(~ordered /\ Registered # <<>>)
        BY <1>4, <1>8, <3>2
      <4> QED BY <1>6, <1>10, <2>1, <3>1, <3>2, <4>1
    <3>3. CASE i # pid
      BY <1>10, <2>1, <3>1, <3>3
    <3> QED BY <3>2, <3>3
  <2> QED BY <2>2, <2>3
<1>12. PICK drop : drop = {bcRec[Last(q)] : q \in (IF replace /\ bcOrdered # <<>> THEN {bcOrdered} ELSE {})
                              \cup (IF (~ordered /\ Registered # <<>>) /\ replace /\ bcParallel # <<>> THEN {bcParallel} ELSE {})}
  OBVIOUS
<1>13. bcPast' = [c \in DOMAIN bcPast |->
             IF c = b THEN [bcPast[b] EXCEPT !.ordered = ordered, !.resultTo = resultTo]
             ELSE [bcPast[c] EXCEPT
                    !.results = bcPast[c].results + Cardinality({d \in drop : d.origin = c /\ d.resultTo}),
                    !.cut = bcPast[c].cut \/ \E d \in drop : d.origin = c]]
  BY <1>1, <1>12 DEF broadcastIntentLocked
<1>14. DOMAIN bcPast = 1 .. MaxBroadcasts
  BY <1>0 DEF BcTypeOK
<1>15. drop = {bcRec[d] : d \in dropped}
  BY <1>2, <1>3, <1>12 DEF DropsOrdered, DropsParallel
<1>16. ASSUME NEW c \in 1 .. MaxBroadcasts, c # b PROVE SendPast(c, do, dropped)
  <2>1. PICK set : set = {d \in drop : d.origin = c /\ d.resultTo}
    OBVIOUS
  <2>2. \A d \in dp : ~bcRec[d].resultTo
    BY <1>0, <1>4 DEF RecordsSound
  <2>3. Cardinality(set) = IF \E d \in do : bcRec[d].origin = c /\ bcRec[d].resultTo THEN 1 ELSE 0
    <3>1. CASE \E d \in do : bcRec[d].origin = c /\ bcRec[d].resultTo
      <4>1. PICK d \in do : bcRec[d].origin = c /\ bcRec[d].resultTo
        BY <3>1
      <4>2. set = {bcRec[d]}
        BY <1>3, <1>8, <1>15, <2>1, <2>2, <4>1
      <4> QED BY <3>1, <4>2, FS_Singleton
    <3>2. CASE ~\E d \in do : bcRec[d].origin = c /\ bcRec[d].resultTo
      <4>1. set = {}
        BY <1>3, <1>15, <2>1, <2>2, <3>2
      <4> QED BY <3>2, <4>1, FS_EmptySet
    <3> QED BY <3>1, <3>2
  <2>4. (\E d \in drop : d.origin = c) <=> (\E d \in dropped : bcRec[d].origin = c)
    BY <1>15
  <2>5. bcPast'[c] = [bcPast[c] EXCEPT !.results = bcPast[c].results + Cardinality(set),
                                       !.cut = bcPast[c].cut \/ \E d \in drop : d.origin = c]
    BY <1>13, <1>14, <1>16, <2>1
  <2> QED BY <2>3, <2>4, <2>5 DEF SendPast
<1>17. bcPast'[b] = [bcPast[b] EXCEPT !.ordered = ordered, !.resultTo = resultTo]
  BY <1>6, <1>13, <1>14
<1>18. SendRecords(b, id, ps, do, dropped, ordered, resultTo)
  <2>1. do \subseteq dropped /\ dropped \ do \subseteq ToSet(bcParallel)
    BY <1>3, <1>4
  <2>2. ToSet(bcParallel') = (ToSet(bcParallel) \ dropped) \cup ps
    BY <1>4, <1>5
  <2>3. bcUsed'.records >= bcUsed.records /\ \A i \in {id} \cup ps : i > bcUsed.records
    <3>1. bcUsed.records \in Nat
      BY <1>0, UsedTypes
    <3>2. bcUsed'.records = pid \/ bcUsed'.records = id
      BY <1>0, <1>1 DEF broadcastIntentLocked, BcTypeOK
    <3> QED BY <1>1, <1>8, <3>1, <3>2
  <2> QED BY <1>1, <1>4, <1>6, <1>7, <1>8, <1>9, <1>11, <1>17, <2>1, <2>2, <2>3 DEF SendRecords
<1> QED BY <1>16, <1>18

\* broadcastIntentLocked keeps the records sound.
LEMMA SendSound ==
    ASSUME BcTypes, NEW ordered \in BOOLEAN, NEW resultTo \in BOOLEAN,
           NEW b, NEW id, NEW ps, NEW do, NEW dropped,
           SendRecords(b, id, ps, do, dropped, ordered, resultTo),
           \A c \in 1 .. MaxBroadcasts : c # b => SendPast(c, do, dropped)
    PROVE  /\ RecordsSound'
           /\ \A i \in InUse : bcRec[i].origin \in 1 .. bcUsed.sent /\ bcRec[i].origin # b
           /\ \A c \in 1 .. MaxBroadcasts : PastKept(c) \/ c = b
           /\ \A c \in 1 .. MaxBroadcasts : c # b =>
                 /\ bcPast'[c].served = bcPast[c].served /\ bcPast'[c].deferred = bcPast[c].deferred
                 /\ bcPast'[c].cut <=> bcPast[c].cut \/ \E d \in dropped : bcRec[d].origin = c
                 /\ bcPast'[c].results = bcPast[c].results + (IF \E d \in do : bcRec[d].origin = c /\ bcRec[d].resultTo THEN 1 ELSE 0)
           /\ /\ bcPast'[b].ordered = ordered /\ bcPast'[b].resultTo = resultTo /\ bcPast'[b].served = <<>>
              /\ bcPast'[b].results = 0 /\ ~bcPast'[b].cut /\ bcPast'[b].deferred = bcPast[b].deferred
<1>0. BcTypeOK /\ RecordsPlaced /\ RecordsSound
  BY DEF BcTypes
<1>1. /\ b \in 1 .. MaxBroadcasts /\ b > bcUsed.sent /\ bcUsed'.sent = b /\ bcUsed.sent \in Nat
      /\ b \in 1 .. b /\ \A c \in 1 .. bcUsed.sent : c # b /\ c \in 1 .. b /\ c \in 1 .. MaxBroadcasts
      /\ b \in 0 .. MaxBroadcasts
  <2>1. b \in 1 .. MaxBroadcasts /\ b = bcUsed.sent + 1 /\ bcUsed'.sent = b
    BY DEF SendRecords
  <2>2. bcUsed.sent \in Nat /\ bcUsed.sent <= MaxBroadcasts /\ MaxBroadcasts \in Nat
    BY <1>0, UsedTypes
  <2> QED BY <2>1, <2>2
<1>2. /\ InUse \subseteq BcIds /\ ToSet(bcParallel) \subseteq InUse /\ ToSet(bcOrdered) \subseteq InUse
      /\ ToSet(bcDeferred) \subseteq InUse
  BY <1>0, LiveIs DEF InUse
<1>3. \A i \in InUse : bcRec[i].origin \in 1 .. bcUsed.sent /\ bcRec[i].origin # b /\ bcRec'[i] = bcRec[i]
  BY <1>0, <1>1 DEF RecordsSound, SendRecords
<1>4. ASSUME NEW c \in 1 .. MaxBroadcasts, c # b
      PROVE  /\ bcPast'[c].ordered = bcPast[c].ordered /\ bcPast'[c].resultTo = bcPast[c].resultTo
             /\ bcPast'[c].served = bcPast[c].served /\ bcPast'[c].deferred = bcPast[c].deferred
             /\ bcPast'[c].cut <=> bcPast[c].cut \/ \E d \in dropped : bcRec[d].origin = c
             /\ bcPast'[c].results = bcPast[c].results + (IF \E d \in do : bcRec[d].origin = c /\ bcRec[d].resultTo THEN 1 ELSE 0)
  <2>1. bcPast[c] \in PastType
    BY <1>0, PastTypes
  <2>2. SendPast(c, do, dropped)
    BY <1>4
  <2>3. PICK n, cut : /\ n = bcPast[c].results + (IF \E d \in do : bcRec[d].origin = c /\ bcRec[d].resultTo THEN 1 ELSE 0)
                      /\ cut = (bcPast[c].cut \/ \E d \in dropped : bcRec[d].origin = c)
    OBVIOUS
  <2>4. bcPast'[c] = [bcPast[c] EXCEPT !.results = n, !.cut = cut]
    BY <2>2, <2>3 DEF SendPast
  <2>5. /\ bcPast'[c].ordered = bcPast[c].ordered /\ bcPast'[c].resultTo = bcPast[c].resultTo
        /\ bcPast'[c].served = bcPast[c].served /\ bcPast'[c].deferred = bcPast[c].deferred
        /\ bcPast'[c].cut = cut /\ bcPast'[c].results = n
    BY <2>1, <2>4 DEF PastType
  <2> QED BY <2>3, <2>5
<1>5. /\ bcPast'[b].ordered = ordered /\ bcPast'[b].resultTo = resultTo /\ bcPast'[b].served = <<>>
      /\ bcPast'[b].results = 0 /\ ~bcPast'[b].cut /\ bcPast'[b].deferred = bcPast[b].deferred
  <2>1. bcPast[b] \in PastType
    BY <1>0, <1>1, PastTypes
  <2>2. bcPast'[b] = [bcPast[b] EXCEPT !.ordered = ordered, !.resultTo = resultTo]
    BY DEF SendRecords
  <2>3. bcPast[b].served = <<>> /\ bcPast[b].results = 0 /\ ~bcPast[b].cut
    BY <1>0, <1>1 DEF RecordsSound
  <2> QED BY <2>1, <2>2, <2>3 DEF PastType
<1>6. ASSUME NEW c \in 1 .. MaxBroadcasts PROVE PastKept(c) \/ c = b
  <2> SUFFICES ASSUME c # b PROVE PastKept(c)
    OBVIOUS
  <2>1. ASSUME c > bcUsed.sent
        PROVE  /\ bcPast'[c].results = bcPast[c].results /\ bcPast'[c].served = bcPast[c].served
               /\ bcPast'[c].cut = bcPast[c].cut
    <3>1. \A i \in InUse : bcRec[i].origin # c
      BY <1>1, <1>3, <2>1
    <3>2. \A d \in dropped : bcRec[d].origin # c
      BY <1>2, <3>1 DEF SendRecords
    <3>3. \A d \in do : bcRec[d].origin # c
      BY <3>2 DEF SendRecords
    <3>4. bcPast[c] \in PastType /\ bcPast'[c] \in PastType /\ bcPast[c].results \in Nat
      <4>1. PICK n \in Nat, cut \in BOOLEAN : n = bcPast[c].results /\ cut = bcPast[c].cut
        BY <1>0, PastTypes
      <4>2. bcPast'[c] = [bcPast[c] EXCEPT !.results = n, !.cut = cut]
        <5>1. PICK any : any = (bcPast[c].cut \/ \E d \in dropped : bcRec[d].origin = c)
          OBVIOUS
        <5>2. any = cut
          BY <3>2, <4>1, <5>1
        <5>3. PICK m : m = bcPast[c].results + (IF \E d \in do : bcRec[d].origin = c /\ bcRec[d].resultTo THEN 1 ELSE 0)
          OBVIOUS
        <5>4. m = n
          BY <3>3, <4>1, <5>3
        <5>5. bcPast'[c] = [bcPast[c] EXCEPT !.results = m, !.cut = any]
          BY <5>1, <5>3 DEF SendPast
        <5> QED BY <5>2, <5>4, <5>5
      <4>3. bcPast[c] \in PastType
        BY <1>0, PastTypes
      <4> QED BY <4>1, <4>2, <4>3 DEF PastType
    <3>5. bcPast'[c].cut <=> bcPast[c].cut
      BY <1>4, <3>2
    <3> QED BY <1>4, <3>3, <3>4, <3>5 DEF PastType
  <2> QED BY <1>4, <2>1 DEF PastKept
<1>7. PICK receivers : receivers = IF ordered THEN Merged(Components, Registered) ELSE Components
  OBVIOUS
<1>8. receivers \in Seq(Receivers) /\ IsInjective(receivers) /\ IsInjective(Registered) /\ Registered \in Seq(Receivers)
  BY <1>7, MergedInOrder, ReceiverLists
<1>9. /\ bcRec'[id].receivers = receivers /\ bcRec'[id].next = 1 /\ bcRec'[id].state = "IDLE"
      /\ bcRec'[id].ordered = ordered /\ bcRec'[id].resultTo = resultTo /\ bcRec'[id].token = 0
      /\ ~bcRec'[id].over /\ bcRec'[id].origin = b
  BY <1>1, <1>7, <1>8, NewRecordType DEF SendRecords
<1>10. \A p \in ps : /\ bcRec'[p].receivers = Registered /\ bcRec'[p].next = 1 /\ bcRec'[p].state = "IDLE"
                     /\ bcRec'[p].ordered = FALSE /\ bcRec'[p].resultTo = FALSE /\ bcRec'[p].token = 0
                     /\ ~bcRec'[p].over /\ bcRec'[p].origin = b
  <2>0. PICK no \in BOOLEAN : no = FALSE
    OBVIOUS
  <2>1. PICK two : two = NewRecord(b, Registered, no, no)
    OBVIOUS
  <2>2. /\ two.receivers = Registered /\ two.next = 1 /\ two.state = "IDLE"
        /\ two.ordered = FALSE /\ two.resultTo = FALSE /\ two.token = 0
        /\ ~two.over /\ two.origin = b
    BY <1>1, <1>8, <2>0, <2>1, NewRecordType
  <2>3. \A p \in ps : bcRec'[p] = two
    BY <2>0, <2>1 DEF SendRecords
  <2> QED BY <2>2, <2>3
<1>11. /\ InUse' = (InUse \ dropped) \cup ({id} \cup ps) /\ id \notin InUse /\ ps \cap InUse = {} /\ id \notin ps
       /\ ToSet(bcOrdered') = (ToSet(bcOrdered) \ do) \cup {id}
       /\ ToSet(bcParallel') = (ToSet(bcParallel) \ dropped) \cup ps
       /\ ToSet(bcDeferred') = ToSet(bcDeferred)
  BY DEF SendRecords
<1>12. \A i \in InUse' : bcRec'[i].origin \in 1 .. bcUsed'.sent /\ IsInjective(bcRec'[i].receivers)
  BY <1>0, <1>1, <1>3, <1>8, <1>9, <1>10, <1>11 DEF RecordsSound
<1>13. ASSUME NEW i \in ToSet(bcParallel')
       PROVE  /\ bcRec'[i].receivers = Registered /\ Registered # <<>>
              /\ bcRec'[i].next = 1 /\ ~bcRec'[i].resultTo /\ bcRec'[i].token = 0 /\ ~bcRec'[i].over
              /\ ~bcPast'[bcRec'[i].origin].ordered
  <2>1. CASE i \in ps
    <3>1. ~ordered /\ Registered # <<>>
      BY <2>1 DEF SendRecords
    <3> QED BY <1>5, <1>10, <2>1, <3>1
  <2>2. CASE i \in ToSet(bcParallel)
    BY <1>0, <1>1, <1>2, <1>3, <1>4, <2>2 DEF RecordsSound
  <2> QED BY <1>11, <2>1, <2>2
<1>14. ASSUME NEW i \in InUse' \ ToSet(bcParallel')
       PROVE  /\ bcRec'[i].resultTo = bcPast'[bcRec'[i].origin].resultTo
              /\ bcRec'[i].ordered = bcPast'[bcRec'[i].origin].ordered
  <2>1. CASE i = id
    BY <1>5, <1>9, <2>1
  <2>2. CASE i # id
    <3>1. i \in InUse \ ToSet(bcParallel)
      BY <1>11, <2>2
    <3> QED BY <1>0, <1>1, <1>3, <1>4, <3>1 DEF RecordsSound
  <2> QED BY <2>1, <2>2
<1>15. ASSUME NEW i \in ToSet(bcOrdered') PROVE bcRec'[i].next = 1 /\ bcRec'[i].token = 0
  BY <1>0, <1>2, <1>3, <1>9, <1>11 DEF RecordsSound
<1>16. ASSUME NEW i \in ToSet(bcOrdered') \cup ToSet(bcDeferred')
       PROVE  bcRec'[i].state = "IDLE" /\ ~bcRec'[i].over
  BY <1>0, <1>2, <1>3, <1>9, <1>11 DEF RecordsSound
<1>17. ASSUME NEW i \in InUse', bcRec'[i].over
       PROVE  bcRec'[i].state = "IDLE" /\ bcPast'[bcRec'[i].origin].cut
  BY <1>0, <1>1, <1>3, <1>4, <1>9, <1>10, <1>11, <1>17 DEF RecordsSound
<1>18. ASSUME NEW c \in 1 .. MaxBroadcasts
       PROVE  /\ c > bcUsed'.sent => bcPast'[c].results = 0 /\ bcPast'[c].served = <<>> /\ ~bcPast'[c].cut
              /\ bcPast'[c].resultTo => bcPast'[c].ordered
  <2>1. CASE c = b
    <3>1. resultTo => ordered
      BY DEF SendRecords
    <3> QED BY <1>1, <1>5, <2>1, <3>1
  <2>2. CASE c # b
    <3>1. c > b => c > bcUsed.sent
      BY <1>1
    <3> QED BY <1>0, <1>1, <1>4, <1>6, <2>2, <3>1 DEF PastKept, RecordsSound
  <2> QED BY <2>1, <2>2
<1>19. RecordsSound'
  BY <1>12, <1>13, <1>14, <1>15, <1>16, <1>17, <1>18 DEF RecordsSound
<1> QED BY <1>3, <1>4, <1>5, <1>6, <1>19

\* Nobody waits: what most steps leave behind
LEMMA NobodyWaits ==
    ASSUME bcPending'.id = NoRecord, bcCurrent' # NoRecord => bcRec'[bcCurrent'].state = "IDLE"
    PROVE  WaitsArmed'
<1>1. Cur' = bcRec'[bcCurrent']
  BY DEF Cur
<1> QED BY <1>1 DEF WaitsArmed

\* What is waited for stays while the current record and the time-out stay.
LEMMA WaitsSame ==
    ASSUME WaitsArmed, bcPending' = bcPending, bcCurrent' = bcCurrent,
           bcCurrent # NoRecord => bcRec'[bcCurrent] = bcRec[bcCurrent],
           bcTimeout => bcTimeout'
    PROVE  WaitsArmed'
<1>1. bcCurrent # NoRecord => Cur' = Cur
  BY DEF Cur
<1>2. bcCurrent # NoRecord =>
         /\ Cur'.state # "NONE"
         /\ Cur'.state # "IDLE" => bcTimeout' /\ Cur'.next > 1 /\ Cur'.next <= Len(Cur'.receivers) + 1
  BY <1>1 DEF WaitsArmed
<1>3. bcPending.id # NoRecord =>
          /\ bcPending.id = bcCurrent /\ Cur'.state = "APP_RECEIVE"
          /\ bcPending.index \in 1 .. Len(Cur'.receivers) /\ Cur'.next = bcPending.index + 1
  <2> SUFFICES ASSUME bcPending.id # NoRecord
               PROVE  /\ bcPending.id = bcCurrent /\ Cur'.state = "APP_RECEIVE"
                      /\ bcPending.index \in 1 .. Len(Cur'.receivers) /\ Cur'.next = bcPending.index + 1
    OBVIOUS
  <2>1. /\ bcPending.id = bcCurrent /\ Cur.state = "APP_RECEIVE"
        /\ bcPending.index \in 1 .. Len(Cur.receivers) /\ Cur.next = bcPending.index + 1
    BY DEF WaitsArmed
  <2> QED BY <1>1, <2>1
<1> QED BY <1>2, <1>3 DEF WaitsArmed

\* A delivery arms the time-out for the receiver it waits for.
LEMMA DeliverWaits ==
    ASSUME BcTypes, NEW state \in {"IDLE", "CALL_DONE_RECEIVE", "APP_RECEIVE"}, Deliver(state),
           Handle(Cur.origin, NextReceiver) \/ UNCHANGED bcPast,
           bcUsed'.sent = bcUsed.sent, bcUsed'.records = bcUsed.records,
           \/ UNCHANGED bcPending
           \/ state = "APP_RECEIVE" /\ bcPending' = [id |-> bcCurrent, index |-> Cur.next]
    PROVE  WaitsArmed'
<1>1. /\ Quiet /\ bcCurrent \in BcIds /\ bcCurrent # NoRecord
      /\ bcRec'[bcCurrent].next = bcRec[bcCurrent].next + 1 /\ bcRec'[bcCurrent].state = state
  BY DeliverQuiet
<1>2. AtLoop /\ ~Finished /\ Cur.state = "IDLE" /\ Cur = bcRec[bcCurrent]
      /\ bcCurrent' = bcCurrent /\ bcTimeout' = TRUE
  BY DEF Deliver, ArmTimeout, Cur
<1>3. Cur.next \in 1 .. Len(Cur.receivers) /\ Len(Cur.receivers) \in Nat
  BY <1>1, <1>2, AtLoopTypes, RecordTypes DEF BcTypes
<1>4. bcRec'[bcCurrent].receivers = Cur.receivers
  BY <1>1, <1>2, QuietSame DEF SameRecord
<1>5. Cur' = bcRec'[bcCurrent]
  BY <1>2 DEF Cur
<1>6. Cur'.next > 1 /\ Cur'.next <= Len(Cur'.receivers) + 1
  BY <1>1, <1>2, <1>3, <1>4, <1>5
<1>7. bcPending.id = NoRecord
  BY <1>2 DEF BcTypes, WaitsArmed
<1>8. bcPending'.id # NoRecord =>
          /\ bcPending'.id = bcCurrent' /\ Cur'.state = "APP_RECEIVE"
          /\ bcPending'.index \in 1 .. Len(Cur'.receivers) /\ Cur'.next = bcPending'.index + 1
  <2>1. CASE UNCHANGED bcPending
    BY <1>7, <2>1
  <2>2. CASE state = "APP_RECEIVE" /\ bcPending' = [id |-> bcCurrent, index |-> Cur.next]
    BY <1>1, <1>2, <1>3, <1>4, <1>5, <2>2
  <2> QED BY <2>1, <2>2
<1> QED BY <1>1, <1>2, <1>5, <1>6, <1>8 DEF WaitsArmed

\* Every step that waits for a receiver has armed the time-out.
LEMMA WaitsStep == BcTypes /\ BcNext => WaitsArmed'
<1> SUFFICES ASSUME BcTypes, BcNext PROVE WaitsArmed'
  OBVIOUS
<1>0. BcTypeOK /\ RecordsPlaced /\ RecordsSound /\ WaitsArmed
  BY DEF BcTypes
<1>1. ASSUME UNCHANGED <<bcRec, bcCurrent, bcPending, bcTimeout>> PROVE WaitsArmed'
  BY <1>0, <1>1, WaitsSame
<1>2. ASSUME NEW over \in BOOLEAN, finishReceiverLocked(over), bcCurrent' = bcCurrent PROVE WaitsArmed'
  <2>1. bcPending'.id = NoRecord
    BY <1>2 DEF finishReceiverLocked
  <2>2. bcCurrent # NoRecord => bcRec'[bcCurrent].state = "IDLE"
    <3>1. bcCurrent # NoRecord => bcCurrent \in BcIds /\ bcRec[bcCurrent] \in RecType
      BY <1>0, RecordTypes DEF BcTypeOK
    <3>2. PICK r : r = [bcRec[bcCurrent] EXCEPT !.state = "IDLE", !.over = over]
      OBVIOUS
    <3>3. bcRec' = [bcRec EXCEPT ![bcCurrent] = r]
      BY <1>2, <3>2 DEF finishReceiverLocked, Cur
    <3>4. bcCurrent # NoRecord => r.state = "IDLE"
      BY <3>1, <3>2 DEF RecType
    <3> QED BY <1>0, <3>1, <3>3, <3>4 DEF BcTypeOK
  <2> QED BY <1>2, <2>1, <2>2, NobodyWaits
<1>3. CASE BroadcastMessage
  BY <1>1, <1>3 DEF BroadcastMessage
<1>4. CASE ProcessBegin
  <2>1. bcCurrent' = bcCurrent /\ bcTimeout' = bcTimeout
    BY <1>4 DEF ProcessBegin
  <2>2. CASE UNCHANGED <<bcRec, bcPending>>
    BY <1>1, <2>1, <2>2
  <2>3. CASE bcPending'.id = NoRecord /\ bcRec'[bcCurrent].state = "IDLE"
    BY <2>1, <2>3, NobodyWaits
  <2> QED BY <1>4, <2>2, <2>3, BeginEffects
<1>5. CASE getNextBroadcastLocked
  <2>1. bcPending.id = NoRecord /\ bcPending' = bcPending /\ bcRec' = bcRec
    BY <1>0, <1>5 DEF WaitsArmed, getNextBroadcastLocked
  <2>2. bcCurrent' # NoRecord => bcRec'[bcCurrent'].state = "IDLE"
    BY <1>0, <1>5, <2>1, NextPlaced DEF RecordsSound
  <2> QED BY <2>1, <2>2, NobodyWaits
<1>6. CASE LoopBusy
  BY <1>1, <1>6 DEF LoopBusy
<1>7. CASE LoopHung
  BY <1>2, <1>7 DEF LoopHung, finishReceiverLocked
<1>8. CASE LoopRetire
  <2>1. bcPending' = bcPending /\ bcPending.id = NoRecord /\ bcCurrent' = NoRecord
    BY <1>0, <1>8 DEF LoopRetire, WaitsArmed, AtLoop
  <2> QED BY <2>1, NobodyWaits
<1>9. CASE LoopDefer
  <2>1. CASE Cur.next = Len(Cur.receivers)
    <3>1. bcPending' = bcPending /\ bcPending.id = NoRecord /\ bcCurrent' = NoRecord
      BY <1>0, <1>9, <2>1 DEF LoopDefer, Split, WaitsArmed, AtLoop
    <3> QED BY <3>1, NobodyWaits
  <2>2. CASE Cur.next # Len(Cur.receivers)
    <3>1. PICK c, part, token : c = bcCurrent /\ part = Part /\ SplitRecords(c, part, token)
      BY <1>9, <2>2, SplitEffects
    <3>2. bcCurrent' = bcCurrent
      BY <1>9, <2>2 DEF LoopDefer, Split
    <3>3. bcPending'.id = NoRecord /\ bcRec'[c].state = "IDLE"
      BY <3>1 DEF SplitRecords
    <3> QED BY <3>1, <3>2, <3>3, NobodyWaits
  <2> QED BY <2>1, <2>2
<1>10. CASE DeliverToRunning
  <2>1. PICK state : state = IF IsRegistered(NextReceiver) THEN "CALL_DONE_RECEIVE" ELSE "APP_RECEIVE"
    OBVIOUS
  <2>2. state \in {"IDLE", "CALL_DONE_RECEIVE", "APP_RECEIVE"} /\ Deliver(state)
    BY <1>10, <2>1 DEF DeliverToRunning
  <2> QED BY <1>10, <2>2, DeliverWaits DEF DeliverToRunning
<1>11. CASE DeliverToDead
  BY <1>11, DeliverWaits DEF DeliverToDead
<1>12. CASE DeliverSkips
  BY <1>0, <1>12, DeliverWaits, TroublesType DEF DeliverSkips
<1>13. CASE DeliverStarts
  <2>1. bcUsed'.sent = bcUsed.sent /\ bcUsed'.records = bcUsed.records
    BY <1>0, <1>13, TroublesType DEF DeliverStarts
  <2> QED BY <1>13, <2>1, DeliverWaits DEF DeliverStarts
<1>14. CASE AttachApplication
  <2>1. bcPending'.id = NoRecord /\ bcCurrent' = bcCurrent /\ bcRec' = bcRec /\ bcTimeout' = bcTimeout
    BY <1>14 DEF AttachApplication
  <2>2. Cur' = Cur
    BY <2>1 DEF Cur
  <2> QED BY <1>0, <2>1, <2>2 DEF WaitsArmed
<1>15. CASE BroadcastTimeout
  BY <1>2, <1>15 DEF BroadcastTimeout
<1>16. ASSUME NEW abort \in BOOLEAN, NEW slow \in BOOLEAN, FinishReceiver(abort, slow) PROVE WaitsArmed'
  BY <1>2, <1>16 DEF FinishReceiver
<1>17. ASSUME NEW app \in BcApps, ProcessDies(app) PROVE WaitsArmed'
  <2>1. CASE finishReceiverLocked(FALSE)
    BY <1>2, <1>17, <2>1 DEF ProcessDies
  <2>2. CASE UNCHANGED <<bcRec, bcPending>>
    BY <1>1, <1>17, <2>2 DEF ProcessDies
  <2> QED BY <1>17, <2>1, <2>2 DEF ProcessDies
<1>18. ASSUME NEW ends \in BOOLEAN, DeferralCheck(ends) PROVE WaitsArmed'
  BY <1>1, <1>18 DEF DeferralCheck
<1>19. ASSUME NEW ordered \in BOOLEAN, NEW resultTo \in BOOLEAN, NEW replace \in BOOLEAN,
              broadcastIntentLocked(ordered, resultTo, replace)
       PROVE  WaitsArmed'
  <2>1. PICK b, id, ps, do, dropped : SendRecords(b, id, ps, do, dropped, ordered, resultTo)
    BY <1>19, SendEffects
  <2>2. bcCurrent # NoRecord => bcCurrent \in InUse
    BY DEF InUse
  <2>3. /\ bcPending' = bcPending /\ bcCurrent' = bcCurrent
        /\ bcCurrent # NoRecord => bcRec'[bcCurrent] = bcRec[bcCurrent]
    BY <2>1, <2>2 DEF SendRecords
  <2>4. bcTimeout' = bcTimeout
    BY <1>19 DEF broadcastIntentLocked
  <2> QED BY <1>0, <2>3, <2>4, WaitsSame
<1> QED BY <1>3, <1>4, <1>5, <1>6, <1>7, <1>8, <1>9, <1>10, <1>11, <1>12, <1>13, <1>14, <1>15, <1>16,
           <1>17, <1>18, <1>19 DEF BcNext, processNextBroadcastLocked

\* Every step keeps types, places and records.
LEMMA BcTypesStep == BcTypes /\ [BcNext]_bcVars => BcTypes'
<1> SUFFICES ASSUME BcTypes, [BcNext]_bcVars PROVE BcTypes'
  OBVIOUS
<1>1. CASE BcNext
  <2>1. BcTypeOK'
    BY <1>1, BcTypeStep
  <2>2. WaitsArmed'
    BY <1>1, WaitsStep
  <2>3. RecordsPlaced' /\ RecordsSound'
    <3>1. CASE QuietAction
      BY <3>1, QuietStep, QuietSound
    <3>2. CASE ProcessBegin
      BY <3>2, BeginSound
    <3>3. CASE LoopRetire
      BY <3>3, RetireSound
    <3>4. CASE LoopDefer /\ Cur.next # Len(Cur.receivers)
      BY <3>4, SplitSound
    <3>5. ASSUME NEW ordered \in BOOLEAN, NEW resultTo \in BOOLEAN, NEW replace \in BOOLEAN,
                 broadcastIntentLocked(ordered, resultTo, replace)
          PROVE  RecordsPlaced' /\ RecordsSound'
      <4>1. PICK b, id, ps, do, dropped :
               /\ SendRecords(b, id, ps, do, dropped, ordered, resultTo)
               /\ \A c \in 1 .. MaxBroadcasts : c # b => SendPast(c, do, dropped)
        BY <3>5, SendEffects
      <4>2. RecordsSound'
        BY <4>1, SendSound
      <4>3. BcTypeOK /\ RecordsPlaced
        BY DEF BcTypes
      <4> QED BY <3>5, <4>2, <4>3, SendPlaced
    <3> QED BY <1>1, <3>1, <3>2, <3>3, <3>4, <3>5 DEF BcNext, processNextBroadcastLocked, QuietAction
  <2> QED BY <2>1, <2>2, <2>3 DEF BcTypes
<1>2. CASE UNCHANGED bcVars
  <2>1. BcTypeOK'
    BY <1>2 DEF BcTypes, BcTypeOK, bcVars
  <2>2. InUse' = InUse /\ Cur' = Cur
    BY <1>2 DEF InUse, Cur, bcVars
  <2>3. RecordsPlaced' /\ RecordsSound' /\ WaitsArmed'
    BY <1>2, <2>2 DEF BcTypes, RecordsPlaced, RecordsSound, WaitsArmed, bcVars
  <2> QED BY <2>1, <2>3 DEF BcTypes
<1> QED BY <1>1, <1>2

\* They hold before the first broadcast.
LEMMA BcTypesInit == BcInit => BcTypes
<1> SUFFICES ASSUME BcInit PROVE BcTypes
  OBVIOUS
<1>1. BcTypeOK
  BY BcTypeInit
<1>2. ToSet(<<>>) = {} /\ IsInjective(<<>>)
  BY EmptyList
<1>3. InUse = {}
  BY <1>2 DEF BcInit, InUse, NoRecord
<1>4. RecordsPlaced
  BY <1>2, <1>3 DEF BcInit, RecordsPlaced, NoRecord
<1>5. \A b \in 1 .. MaxBroadcasts :
         /\ bcPast[b].results = 0 /\ bcPast[b].served = <<>> /\ ~bcPast[b].cut /\ ~bcPast[b].resultTo
         /\ ~bcPast[b].deferred
  BY DEF BcInit
<1>6. RecordsSound
  BY <1>2, <1>3, <1>5 DEF BcInit, RecordsSound
<1>7. WaitsArmed
  BY DEF BcInit, WaitsArmed, NoRecord
<1> QED BY <1>1, <1>4, <1>6, <1>7 DEF BcTypes

\* The step that QueueMoves is about: processNextBroadcastLocked is left, or something happens
\* outside it.
LEMMA QueueMovesStep == BcTypes /\ QueueMoves /\ [BcNext]_bcVars => QueueMoves'
<1> SUFFICES ASSUME BcTypes, QueueMoves, [BcNext]_bcVars, bcPc' = "out"
             PROVE  \/ bcScheduled'
                    \/ Waiting' /\ bcTimeout'
                    \/ bcCurrent' = NoRecord /\ bcParallel' = <<>> /\ bcOrdered' = <<>>
  BY DEF QueueMoves
<1>0. BcTypeOK /\ RecordsPlaced /\ RecordsSound /\ WaitsArmed
  BY DEF BcTypes
<1>1. ASSUME UNCHANGED <<bcRec, bcCurrent>> PROVE Waiting' = Waiting
  BY <1>1 DEF Waiting, Cur
<1>2. CASE BroadcastMessage
  BY <1>2 DEF BroadcastMessage
<1>3. CASE ProcessBegin
  <2>1. bcPending.id # NoRecord
    BY <1>3 DEF ProcessBegin
  <2>2. UNCHANGED <<bcRec, bcCurrent, bcTimeout>>
    BY <1>3 DEF ProcessBegin
  <2>3. Waiting /\ bcTimeout
    BY <1>0, <2>1 DEF WaitsArmed, Waiting
  <2> QED BY <1>1, <2>2, <2>3
<1>4. CASE getNextBroadcastLocked
  <2>1. bcPc = "loop" /\ bcParallel' = bcParallel
    BY <1>4 DEF getNextBroadcastLocked
  <2>2. bcParallel = <<>>
    BY <1>0, <2>1 DEF RecordsPlaced
  <2>3. bcCurrent' = NoRecord /\ bcOrdered' = <<>>
    BY <1>4 DEF getNextBroadcastLocked
  <2> QED BY <2>1, <2>2, <2>3
<1>5. CASE LoopBusy
  <2>1. Waiting /\ UNCHANGED <<bcRec, bcCurrent, bcTimeout>>
    BY <1>5 DEF LoopBusy, AtLoop, Waiting
  <2>2. bcTimeout
    BY <1>0, <2>1 DEF WaitsArmed, Waiting
  <2> QED BY <1>1, <2>1, <2>2
<1>6. CASE LoopHung \/ LoopRetire \/ LoopDefer
  <2>1. bcPc = "loop" /\ bcPc' = bcPc
    BY <1>6 DEF LoopHung, LoopRetire, LoopDefer, Split, AtLoop
  <2> QED BY <2>1
<1>7. ASSUME NEW state \in {"CALL_DONE_RECEIVE", "APP_RECEIVE"}, Deliver(state),
             Handle(Cur.origin, NextReceiver) \/ UNCHANGED bcPast,
             bcUsed'.sent = bcUsed.sent, bcUsed'.records = bcUsed.records
      PROVE  Waiting' /\ bcTimeout'
  <2>1. bcCurrent # NoRecord /\ bcRec'[bcCurrent].state = state
    BY <1>7, DeliverQuiet
  <2>2. bcCurrent' = bcCurrent /\ bcTimeout'
    BY <1>7 DEF Deliver, ArmTimeout
  <2> QED BY <2>1, <2>2 DEF Waiting, Cur
<1>8. CASE DeliverToRunning
  <2>1. PICK state : state = IF IsRegistered(NextReceiver) THEN "CALL_DONE_RECEIVE" ELSE "APP_RECEIVE"
    OBVIOUS
  <2>2. state \in {"CALL_DONE_RECEIVE", "APP_RECEIVE"} /\ Deliver(state)
    BY <1>8, <2>1 DEF DeliverToRunning
  <2> QED BY <1>7, <1>8, <2>2 DEF DeliverToRunning
<1>9. CASE DeliverStarts
  <2>1. bcUsed'.sent = bcUsed.sent /\ bcUsed'.records = bcUsed.records
    BY <1>0, <1>9, TroublesType DEF DeliverStarts
  <2> QED BY <1>7, <1>9, <2>1 DEF DeliverStarts
<1>10. CASE DeliverToDead \/ DeliverSkips \/ BroadcastTimeout
  BY <1>10 DEF DeliverToDead, DeliverSkips, BroadcastTimeout, Schedule
<1>11. CASE AttachApplication
  <2>1. Waiting /\ bcTimeout
    BY <1>0, <1>11 DEF AttachApplication, WaitsArmed, Waiting, NoRecord
  <2> QED BY <1>1, <1>11, <2>1 DEF AttachApplication
<1>12. ASSUME NEW abort \in BOOLEAN, NEW slow \in BOOLEAN, FinishReceiver(abort, slow) PROVE FALSE
  BY <1>12 DEF FinishReceiver
<1>13. ASSUME NEW app \in BcApps, ProcessDies(app)
       PROVE  \/ bcScheduled'
              \/ Waiting' /\ bcTimeout'
              \/ bcCurrent' = NoRecord /\ bcParallel' = <<>> /\ bcOrdered' = <<>>
  <2>1. CASE bcScheduled'
    BY <2>1
  <2>2. CASE UNCHANGED <<bcRec, bcPending, bcScheduled>>
    <3>1. bcPc = "out" /\ UNCHANGED <<bcCurrent, bcTimeout, bcParallel, bcOrdered>>
      BY <1>13 DEF ProcessDies
    <3> QED BY <1>1, <2>2, <3>1 DEF QueueMoves
  <2> QED BY <1>13, <2>1, <2>2 DEF ProcessDies
<1>14. ASSUME NEW ends \in BOOLEAN, DeferralCheck(ends) PROVE bcScheduled'
  BY <1>14 DEF DeferralCheck
<1>15. ASSUME NEW ordered \in BOOLEAN, NEW resultTo \in BOOLEAN, NEW replace \in BOOLEAN,
              broadcastIntentLocked(ordered, resultTo, replace)
       PROVE  \/ bcScheduled'
              \/ Waiting' /\ bcTimeout'
  <2>1. PICK b, id, ps, do, dropped : SendRecords(b, id, ps, do, dropped, ordered, resultTo)
    BY <1>15, SendEffects
  <2>2. bcCurrent # NoRecord => bcCurrent \in InUse
    BY DEF InUse
  <2>3. /\ bcCurrent' = bcCurrent
        /\ bcCurrent # NoRecord => bcRec'[bcCurrent] = bcRec[bcCurrent]
    BY <2>1, <2>2 DEF SendRecords
  <2>4. Waiting => Waiting'
    BY <2>3 DEF Waiting, Cur
  <2>5. /\ bcPc = "out" /\ bcTimeout' = bcTimeout
        /\ bcScheduled \/ ~(replace /\ bcOrdered # <<>>) => bcScheduled'
    BY <1>15 DEF broadcastIntentLocked
  <2> QED BY <2>4, <2>5 DEF QueueMoves
<1>16. CASE UNCHANGED bcVars
  <2>1. UNCHANGED <<bcRec, bcCurrent, bcTimeout, bcParallel, bcOrdered, bcScheduled, bcPc>>
    BY <1>16 DEF bcVars
  <2> QED BY <1>1, <2>1 DEF QueueMoves
<1> QED BY <1>2, <1>3, <1>4, <1>5, <1>6, <1>8, <1>9, <1>10, <1>11, <1>12, <1>13, <1>14, <1>15, <1>16
        DEF BcNext, processNextBroadcastLocked

\* The variables have their types and the records their places (BroadcastQueue,
\* BroadcastDispatcher).
THEOREM BcTypeCorrect == BcSpec => []BcTypeOK
<1>1. BcInit => BcTypes
  BY BcTypesInit
<1>2. BcTypes /\ [BcNext]_bcVars => BcTypes'
  BY BcTypesStep
<1>3. BcTypes => BcTypeOK
  BY DEF BcTypes
<1> QED BY <1>1, <1>2, <1>3, PTL DEF BcSpec

\* No step of the broadcast queue leaves it with work and nobody to go on with it.
THEOREM QueueMovesAlways == BcSpec => []QueueMoves
<1>1. BcInit => BcTypes /\ QueueMoves
  BY BcTypesInit DEF BcInit, QueueMoves
<1>2. BcTypes /\ QueueMoves /\ [BcNext]_bcVars => (BcTypes /\ QueueMoves)'
  BY BcTypesStep, QueueMovesStep
<1> QED BY <1>1, <1>2, PTL DEF BcSpec

-----------------------------------------------------------------------------
(* One result *)

\* Tokens: one is the number of a record of the broadcast whose parts it counts.
TokensSound ==
    \A i \in InUse :
          /\ bcRec[i].token <= bcUsed.records
          /\ bcRec[i].token # 0 => bcRec[i].resultTo
          /\ \A j \in InUse : /\ bcRec[j].token = i => bcRec[i].token = i
                              /\ bcRec[i].token # 0 /\ bcRec[i].token = bcRec[j].token =>
                                    bcRec[i].origin = bcRec[j].origin

CountedFor(b) ==
    bcPast[b].resultTo => \A i \in Live(b) :
          IF bcRec[i].token = 0 THEN Live(b) = {i}
          ELSE /\ \A j \in Live(b) : bcRec[j].token = bcRec[i].token
               /\ bcSplits[bcRec[i].token] = Cardinality(Live(b))

ResultFor(b) == bcPast[b].results = IF bcPast[b].resultTo /\ Live(b) = {} THEN 1 ELSE 0

\* What it means that parts are counted and results sent once, broadcast by broadcast
LEMMA CountedParts ==
    /\ SplitsCounted <=> TokensSound /\ \A b \in 1 .. bcUsed.sent : CountedFor(b)
    /\ ResultOnce <=> \A b \in 1 .. bcUsed.sent : ResultFor(b)
BY DEF SplitsCounted, ResultOnce, TokensSound, CountedFor, ResultFor

\* The same after a step
LEMMA CountedPartsNext ==
    /\ SplitsCounted' <=> TokensSound' /\ \A b \in 1 .. bcUsed'.sent : CountedFor(b)'
    /\ ResultOnce' <=> \A b \in 1 .. bcUsed'.sent : ResultFor(b)'
BY DEF SplitsCounted, ResultOnce, TokensSound, CountedFor, ResultFor

\* A broadcast that the step does not touch
LEMMA CountedSame ==
    ASSUME NEW b, CountedFor(b), ResultFor(b), Live(b)' = Live(b),
           \A i \in Live(b) : /\ bcRec'[i].token = bcRec[i].token
                              /\ bcPast[b].resultTo /\ bcRec[i].token # 0 =>
                                    bcSplits'[bcRec[i].token] = bcSplits[bcRec[i].token],
           bcPast'[b].results = bcPast[b].results, bcPast'[b].resultTo = bcPast[b].resultTo
    PROVE  CountedFor(b)' /\ ResultFor(b)'
<1>1. ResultFor(b)'
  BY DEF ResultFor
<1>2. CountedFor(b)'
  <2> SUFFICES ASSUME bcPast'[b].resultTo, NEW i \in Live(b)'
               PROVE  IF bcRec'[i].token = 0 THEN Live(b)' = {i}
                      ELSE /\ \A j \in Live(b)' : bcRec'[j].token = bcRec'[i].token
                           /\ bcSplits'[bcRec'[i].token] = Cardinality(Live(b)')
    BY DEF CountedFor
  <2>1. /\ i \in Live(b) /\ bcPast[b].resultTo
        /\ \A j \in Live(b) : bcRec'[j].token = bcRec[j].token
        /\ bcRec[i].token # 0 => bcSplits'[bcRec[i].token] = bcSplits[bcRec[i].token]
    OBVIOUS
  <2>2. IF bcRec[i].token = 0 THEN Live(b) = {i}
        ELSE /\ \A j \in Live(b) : bcRec[j].token = bcRec[i].token
             /\ bcSplits[bcRec[i].token] = Cardinality(Live(b))
    BY <2>1 DEF CountedFor
  <2>3. CASE bcRec[i].token = 0
    BY <2>1, <2>2, <2>3
  <2>4. CASE bcRec[i].token # 0
    BY <2>1, <2>2, <2>4
  <2> QED BY <2>3, <2>4
<1> QED BY <1>1, <1>2

\* A broadcast has finitely many live records.
LEMMA LiveFinite ==
    ASSUME BcTypeOK, NEW b
    PROVE  IsFiniteSet(Live(b))
<1>1. IsFiniteSet(1 .. MaxRecords)
  BY BcAssumption, FS_Interval
<1>2. Live(b) \subseteq 1 .. MaxRecords
  BY LiveIs DEF BcIds
<1> QED BY <1>1, <1>2, FS_Subset

BcCounted == BcTypes /\ SplitsCounted /\ ResultOnce

\* processNextBroadcastLocked keeps the count of parts up to its loop.
LEMMA BeginCounted ==
    ASSUME BcCounted, BcTypes', ProcessBegin
    PROVE  SplitsCounted' /\ ResultOnce'
<1>0. BcTypes /\ BcTypeOK /\ BcTypeOK' /\ RecordsPlaced /\ RecordsSound
  BY DEF BcCounted, BcTypes
<1>1. InUse' = InUse \ ToSet(bcParallel) /\ bcUsed' = bcUsed /\ bcSplits' = bcSplits
  BY <1>0, BeginPlaced, BeginEffects
<1>2. \A i \in InUse' : bcRec'[i].token = bcRec[i].token /\ bcRec'[i].resultTo = bcRec[i].resultTo
                        /\ bcRec'[i].origin = bcRec[i].origin
  BY <1>0, BeginEffects DEF SameRecord
<1>3. TokensSound /\ \A b \in 1 .. bcUsed.sent : CountedFor(b) /\ ResultFor(b)
  BY CountedParts DEF BcCounted
<1>4. TokensSound'
  BY <1>1, <1>2, <1>3 DEF TokensSound
<1>5. ASSUME NEW b \in 1 .. bcUsed.sent PROVE CountedFor(b)' /\ ResultFor(b)'
  <2>0. b \in 1 .. MaxBroadcasts
    BY <1>0, UsedTypes
  <2>1. bcPast'[b].results = bcPast[b].results /\ bcPast'[b].resultTo = bcPast[b].resultTo
    BY <1>0, <2>0, BeginSound DEF PastGrows
  <2>2. CASE bcPast[b].resultTo
    <3>1. \A i \in ToSet(bcParallel) : bcRec[i].origin # b
      BY <1>0, <2>0, <2>2 DEF RecordsSound
    <3>2. Live(b)' = Live(b) /\ Live(b) \subseteq InUse'
      BY <1>0, <1>1, <1>2, <3>1, LiveIs, LiveIsNext
    <3>3. \A i \in Live(b) : /\ bcRec'[i].token = bcRec[i].token
                             /\ bcSplits'[bcRec[i].token] = bcSplits[bcRec[i].token]
      BY <1>1, <1>2, <3>2
    <3> QED BY <1>3, <2>1, <3>2, <3>3, CountedSame
  <2>3. CASE ~bcPast[b].resultTo
    BY <1>3, <2>1, <2>3 DEF CountedFor, ResultFor
  <2> QED BY <2>2, <2>3
<1> QED BY <1>1, <1>4, <1>5, CountedPartsNext

\* A record that is retired was counted, and the last one sends the result.
LEMMA RetireCounted ==
    ASSUME BcCounted, BcTypes', LoopRetire
    PROVE  SplitsCounted' /\ ResultOnce'
<1>0. BcTypes /\ BcTypeOK /\ BcTypeOK' /\ RecordsPlaced /\ RecordsSound
  BY DEF BcCounted, BcTypes
<1>1. /\ bcCurrent \in InUse /\ InUse' = InUse \ {bcCurrent}
      /\ \A i \in InUse' : bcRec'[i] = bcRec[i]
      /\ bcUsed' = bcUsed
      /\ \A b \in 1 .. MaxBroadcasts : PastKept(b)
  BY <1>0, RetireSound
<1>2. TokensSound /\ \A b \in 1 .. bcUsed.sent : CountedFor(b) /\ ResultFor(b)
  BY CountedParts DEF BcCounted
<1>3. TokensSound'
  BY <1>1, <1>2 DEF TokensSound
<1>4. PICK c, o, tok : c = bcCurrent /\ o = bcRec[bcCurrent].origin /\ tok = bcRec[bcCurrent].token
  OBVIOUS
<1>5. /\ o \in 1 .. bcUsed.sent /\ c \in Live(o) /\ c \in BcIds
      /\ bcRec[c].resultTo = bcPast[o].resultTo /\ c \in InUse
  <2>1. c \in InUse /\ o = bcRec[c].origin /\ InUse \subseteq BcIds
    BY <1>0, <1>1, <1>4, LiveIs
  <2>2. c \in Live(o)
    BY <1>0, <2>1, LiveIs
  <2>3. o \in 1 .. bcUsed.sent
    BY <1>0, <2>1 DEF RecordsSound
  <2>4. bcRec[c].resultTo = bcPast[o].resultTo
    <3>1. c \notin ToSet(bcParallel)
      BY <1>0, <1>4 DEF RecordsPlaced
    <3>2. \A i \in InUse \ ToSet(bcParallel) : bcRec[i].resultTo = bcPast[bcRec[i].origin].resultTo
      BY <1>0 DEF RecordsSound
    <3> QED BY <2>1, <3>1, <3>2
  <2> QED BY <2>1, <2>2, <2>3, <2>4
<1>6. /\ bcSplits' = IF bcRec[c].resultTo /\ tok # 0 THEN [bcSplits EXCEPT ![tok] = bcSplits[tok] - 1] ELSE bcSplits
      /\ bcPast' = IF bcRec[c].resultTo /\ (bcRec[c].resultTo /\ tok # 0 => bcSplits[tok] - 1 = 0)
                     THEN [bcPast EXCEPT ![o].results = @ + 1] ELSE bcPast
  BY <1>4 DEF LoopRetire, Cur
<1>7. ASSUME NEW b \in 1 .. bcUsed.sent, b # o PROVE CountedFor(b)' /\ ResultFor(b)'
  <2>1. Live(b)' = Live(b) /\ Live(b) \subseteq InUse'
    <3>1. Live(b) = {i \in InUse : bcRec[i].origin = b} /\ Live(b)' = {i \in InUse' : bcRec'[i].origin = b}
      BY <1>0, LiveIs, LiveIsNext
    <3>2. c \notin Live(b)
      BY <1>4, <1>7, <3>1
    <3>3. InUse' = InUse \ {c}
      BY <1>1, <1>4
    <3>4. Live(b) \subseteq InUse'
      BY <3>1, <3>2, <3>3
    <3>5. Live(b) \subseteq Live(b)'
      BY <1>1, <3>1, <3>4
    <3>6. Live(b)' \subseteq Live(b)
      BY <1>1, <3>1, <3>3
    <3> QED BY <3>4, <3>5, <3>6
  <2>2. bcPast'[b].results = bcPast[b].results /\ bcPast'[b].resultTo = bcPast[b].resultTo
    <3>1. b \in 1 .. MaxBroadcasts
      BY <1>0, UsedTypes
    <3>2. bcPast'[b] = bcPast[b]
      BY <1>0, <1>6, <1>7, <3>1 DEF BcTypeOK
    <3> QED BY <3>2
  <2>3. ASSUME NEW i \in Live(b)
        PROVE  /\ bcRec'[i].token = bcRec[i].token
               /\ bcRec[i].token # 0 => bcSplits'[bcRec[i].token] = bcSplits[bcRec[i].token]
    <3>1. i \in InUse /\ i \in InUse' /\ bcRec[i].origin = b
      BY <1>0, <1>1, <2>1, LiveIs
    <3>2. bcRec[i].token # 0 => bcRec[i].token # tok
      BY <1>1, <1>2, <1>4, <1>7, <3>1 DEF TokensSound
    <3>3. bcRec[i].token \in 0 .. MaxRecords /\ i \in BcIds
      BY <1>0, <3>1, LiveIs, RecordTypes
    <3>4. bcRec[i].token # 0 => bcRec[i].token \in DOMAIN bcSplits
      BY <1>0, <3>3 DEF BcTypeOK, BcIds
    <3> QED BY <1>1, <1>6, <3>1, <3>2, <3>4
  <2> QED BY <1>2, <2>1, <2>2, <2>3, CountedSame
<1>8. CountedFor(o)' /\ ResultFor(o)'
  <2>1. /\ Live(o)' = Live(o) \ {c} /\ Live(o)' \subseteq InUse' /\ Live(o) \subseteq InUse
    BY <1>0, <1>1, <1>4, LiveIs, LiveIsNext
  <2>2. bcPast'[o].resultTo = bcPast[o].resultTo /\ o \in 1 .. MaxBroadcasts
    BY <1>0, <1>1, <1>5, UsedTypes DEF PastKept
  <2>3. CountedFor(o) /\ bcPast[o].results = 0
    BY <1>2, <1>5 DEF ResultFor
  <2>4. bcPast[o] \in PastType /\ DOMAIN bcPast = 1 .. MaxBroadcasts
    BY <1>0, <2>2, PastTypes DEF BcTypeOK
  <2>5. bcPast' = [bcPast EXCEPT ![o].results = @ + 1] => bcPast'[o].results = 1
    <3> SUFFICES ASSUME bcPast' = [bcPast EXCEPT ![o].results = @ + 1] PROVE bcPast'[o].results = 1
      OBVIOUS
    <3>1. bcPast'[o] = [bcPast[o] EXCEPT !.results = bcPast[o].results + 1]
      BY <2>2, <2>4
    <3> QED BY <2>3, <2>4, <3>1 DEF PastType
  <2>6. CASE ~bcPast[o].resultTo
    <3>1. bcPast' = bcPast
      BY <1>5, <1>6, <2>6
    <3> QED BY <2>2, <2>3, <2>6, <3>1 DEF CountedFor, ResultFor
  <2>7. CASE bcPast[o].resultTo /\ tok = 0
    <3>1. Live(o) = {c}
      BY <1>4, <1>5, <2>3, <2>7 DEF CountedFor
    <3>2. Live(o)' = {}
      BY <2>1, <3>1
    <3>3. bcPast' = [bcPast EXCEPT ![o].results = @ + 1]
      BY <1>5, <1>6, <2>7
    <3> QED BY <2>2, <2>5, <2>7, <3>2, <3>3 DEF CountedFor, ResultFor
  <2>8. CASE bcPast[o].resultTo /\ tok # 0
    <3>1. /\ \A j \in Live(o) : bcRec[j].token = tok
          /\ bcSplits[tok] = Cardinality(Live(o))
      BY <1>4, <1>5, <2>3, <2>8 DEF CountedFor
    <3>2. IsFiniteSet(Live(o))
      BY <1>0, LiveFinite
    <3>3. /\ IsFiniteSet(Live(o)') /\ Cardinality(Live(o)') = Cardinality(Live(o)) - 1
      BY <1>5, <2>1, <3>2, FS_RemoveElement
    <3>4. tok \in BcIds
      <4>1. tok \in 0 .. MaxRecords
        BY <1>0, <1>4, <1>5, RecordTypes
      <4> QED BY <2>8, <4>1 DEF BcIds
    <3>5. bcSplits'[tok] = Cardinality(Live(o)')
      BY <1>0, <1>5, <1>6, <2>8, <3>1, <3>3, <3>4 DEF BcTypeOK
    <3>6. \A i \in Live(o)' : bcRec'[i].token = tok
      BY <1>1, <2>1, <3>1
    <3>7. CountedFor(o)'
      BY <2>8, <3>5, <3>6 DEF CountedFor
    <3>8. bcSplits[tok] - 1 = 0 <=> Live(o)' = {}
      BY <3>1, <3>3, FS_EmptySet
    <3>9. ResultFor(o)'
      BY <1>5, <1>6, <2>2, <2>3, <2>5, <2>8, <3>8 DEF ResultFor
    <3> QED BY <3>7, <3>9
  <2> QED BY <2>6, <2>7, <2>8
<1> QED BY <1>1, <1>3, <1>7, <1>8, CountedPartsNext

\* A split gives both parts the token of their broadcast.
LEMMA SplitTokens ==
    ASSUME BcCounted, BcTypes', NEW c, NEW part, NEW token, SplitRecords(c, part, token),
           InUse' = InUse \cup {part}, part = Part, c # NoRecord
    PROVE  /\ TokensSound'
           /\ \A i \in InUse : bcRec[i].origin # bcRec[c].origin /\ bcRec[i].token # 0 => bcRec[i].token # token
           /\ token \in BcIds
<1>0. BcTypeOK /\ RecordsPlaced /\ RecordsSound
  BY DEF BcCounted, BcTypes
<1>1. TokensSound
  BY CountedParts DEF BcCounted
<1>2. /\ part \notin InUse /\ part # c /\ c \in InUse /\ bcUsed'.records = part /\ c # 0
      /\ \A i \in InUse : i # c => bcRec'[i] = bcRec[i]
      /\ \A i \in {c, part} :
          /\ bcRec'[i].origin = bcRec[c].origin /\ bcRec'[i].resultTo = bcRec[c].resultTo
          /\ bcRec'[i].token = IF bcRec[c].resultTo THEN token ELSE 0
      /\ token = IF bcRec[c].token = 0 THEN c ELSE bcRec[c].token
  <2>1. InUse \subseteq BcIds
    BY <1>0, LiveIs
  <2> QED BY <2>1 DEF SplitRecords, NoRecord
<1>3. /\ part = bcUsed.records + 1 /\ bcUsed.records \in Nat
      /\ \A i \in InUse : i \in Nat /\ i <= bcUsed.records /\ bcRec[i].token \in Nat /\ bcRec[i].token <= bcUsed.records
      /\ \A i \in InUse : i \in BcIds /\ bcRec[i].token \in 0 .. MaxRecords
  <2>1. bcUsed.records \in Nat
    BY <1>0, UsedTypes
  <2>2. InUse \subseteq 1 .. bcUsed.records /\ InUse \subseteq BcIds
    BY <1>0, LiveIs DEF RecordsPlaced
  <2>3. \A i \in InUse : bcRec[i].token \in 0 .. MaxRecords /\ bcRec[i].token <= bcUsed.records
    BY <1>0, <1>1, <2>2, RecordTypes DEF TokensSound
  <2>4. \A i \in InUse : i \in Nat /\ i <= bcUsed.records
    BY <2>1, <2>2
  <2>5. \A i \in 0 .. MaxRecords : i \in Nat
    OBVIOUS
  <2> QED BY <2>1, <2>2, <2>3, <2>4, <2>5 DEF Part
<1>4. token \in BcIds /\ token <= bcUsed.records /\ token \in Nat
  <2>1. bcRec[c].token # 0 => bcRec[c].token \in BcIds
    BY <1>2, <1>3 DEF BcIds
  <2> QED BY <1>2, <1>3, <2>1
<1>5. ASSUME NEW i \in InUse' PROVE bcRec'[i].token <= bcUsed'.records /\ (bcRec'[i].token # 0 => bcRec'[i].resultTo)
  <2>1. CASE i \in {c, part}
    BY <1>2, <1>3, <1>4, <2>1
  <2>2. CASE i \in InUse /\ i # c
    <3>1. bcRec'[i] = bcRec[i]
      BY <1>2, <2>2
    <3>2. bcRec[i].token <= bcUsed.records /\ (bcRec[i].token # 0 => bcRec[i].resultTo) /\ bcRec[i].token \in Nat
      BY <1>1, <1>3, <2>2 DEF TokensSound
    <3> QED BY <1>2, <1>3, <3>1, <3>2
  <2> QED BY <2>1, <2>2
<1>6. ASSUME NEW i \in InUse', NEW j \in InUse', bcRec'[j].token = i PROVE bcRec'[i].token = i
  <2>0. i # part
    <3>1. CASE j \in {c, part}
      BY <1>2, <1>3, <1>4, <1>6, <3>1
    <3>2. CASE j \in InUse /\ j # c
      BY <1>2, <1>3, <1>6, <3>2
    <3> QED BY <3>1, <3>2
  <2>1. i \in InUse /\ i # 0
    BY <1>3, <2>0 DEF BcIds
  <2>2. CASE j \in {c, part}
    <3>1. bcRec[c].resultTo /\ i = token
      BY <1>2, <1>6, <2>1, <2>2
    <3>2. CASE bcRec[c].token = 0
      BY <1>2, <3>1, <3>2
    <3>3. CASE bcRec[c].token # 0
      <4>1. bcRec[c].token = i /\ bcRec[i].token = i
        BY <1>1, <1>2, <2>1, <3>1, <3>3 DEF TokensSound
      <4> QED BY <1>2, <2>1, <3>1, <4>1
    <3> QED BY <3>2, <3>3
  <2>3. CASE j \in InUse /\ j # c
    <3>1. bcRec[j].token = i /\ bcRec[i].token = i
      BY <1>1, <1>2, <1>6, <2>1, <2>3 DEF TokensSound
    <3>2. CASE i = c
      <4>1. bcRec[c].resultTo /\ token = c
        BY <1>1, <1>2, <2>1, <3>1, <3>2 DEF TokensSound
      <4> QED BY <1>2, <3>2, <4>1
    <3>3. CASE i # c
      BY <1>2, <2>1, <3>1, <3>3
    <3> QED BY <3>2, <3>3
  <2> QED BY <2>2, <2>3
<1>7. ASSUME NEW j \in InUse, bcRec[j].token = token
      PROVE  bcRec[j].origin = bcRec[c].origin
  <2>1. bcRec[c].token # 0
    BY <1>1, <1>2, <1>7 DEF TokensSound
  <2>2. bcRec[c].token = bcRec[j].token
    BY <1>2, <1>7, <2>1
  <2> QED BY <1>1, <1>2, <1>7, <2>1, <2>2 DEF TokensSound
<1>8. ASSUME NEW i \in InUse', NEW j \in InUse', bcRec'[i].token # 0, bcRec'[i].token = bcRec'[j].token
      PROVE  bcRec'[i].origin = bcRec'[j].origin
  <2>1. CASE i \in {c, part} /\ j \in {c, part}
    BY <1>2, <2>1
  <2>2. CASE i \in {c, part} /\ j \in InUse /\ j # c
    <3>1. bcRec[j].token = token /\ bcRec'[j].origin = bcRec[j].origin
      BY <1>2, <1>8, <2>2
    <3> QED BY <1>2, <1>7, <2>2, <3>1
  <2>3. CASE j \in {c, part} /\ i \in InUse /\ i # c
    <3>1. bcRec[i].token = token /\ bcRec'[i].origin = bcRec[i].origin
      BY <1>2, <1>8, <2>3
    <3> QED BY <1>2, <1>7, <2>3, <3>1
  <2>4. CASE i \in InUse /\ i # c /\ j \in InUse /\ j # c
    BY <1>1, <1>2, <1>8, <2>4 DEF TokensSound
  <2> QED BY <2>1, <2>2, <2>3, <2>4
<1>9. TokensSound'
  BY <1>5, <1>6, <1>8 DEF TokensSound
<1> QED BY <1>4, <1>7, <1>9

\* A split counts the new part.
LEMMA SplitCounted ==
    ASSUME BcCounted, BcTypes', LoopDefer, Cur.next # Len(Cur.receivers)
    PROVE  SplitsCounted' /\ ResultOnce'
<1>0. BcTypes /\ BcTypeOK /\ BcTypeOK' /\ RecordsPlaced /\ RecordsSound
  BY DEF BcCounted, BcTypes
<1>1. PICK c, part, token : c = bcCurrent /\ part = Part /\ SplitRecords(c, part, token)
  BY <1>0, SplitEffects
<1>2. InUse' = InUse \cup {part} /\ \A b \in 1 .. MaxBroadcasts : PastGrows(b)
  BY <1>0, <1>1, SplitSound
<1>3. c # NoRecord
  BY <1>1 DEF LoopDefer, Split, AtLoop
<1>4. /\ TokensSound' /\ token \in BcIds
      /\ \A i \in InUse : bcRec[i].origin # bcRec[c].origin /\ bcRec[i].token # 0 => bcRec[i].token # token
  BY <1>1, <1>2, <1>3, SplitTokens
<1>5. TokensSound /\ \A b \in 1 .. bcUsed.sent : CountedFor(b) /\ ResultFor(b)
  BY CountedParts DEF BcCounted
<1>6. PICK o : o = bcRec[c].origin
  OBVIOUS
<1>7. /\ part \notin InUse /\ part # c /\ c \in InUse /\ c # 0 /\ bcUsed'.sent = bcUsed.sent
      /\ \A i \in InUse : i # c => bcRec'[i] = bcRec[i]
      /\ \A i \in {c, part} :
          /\ bcRec'[i].origin = o
          /\ bcRec'[i].token = IF bcRec[c].resultTo THEN token ELSE 0
      /\ token = IF bcRec[c].token = 0 THEN c ELSE bcRec[c].token
      /\ bcSplits' = IF bcRec[c].resultTo
                     THEN [bcSplits EXCEPT ![token] = IF bcRec[c].token = 0 THEN 2 ELSE bcSplits[token] + 1]
                     ELSE bcSplits
      /\ bcPast' = [bcPast EXCEPT ![o].deferred = TRUE]
  <2>1. InUse \subseteq BcIds
    BY <1>0, LiveIs
  <2> QED BY <1>1, <1>3, <1>6, <2>1 DEF SplitRecords, NoRecord
<1>8. /\ o \in 1 .. bcUsed.sent /\ bcRec[c].resultTo = bcPast[o].resultTo
  <2>1. c \notin ToSet(bcParallel)
    BY <1>0, <1>1 DEF RecordsPlaced
  <2> QED BY <1>0, <1>6, <1>7, <2>1 DEF RecordsSound
<1>9. /\ \A b : Live(b) = {i \in InUse : bcRec[i].origin = b}
      /\ \A b : Live(b)' = {i \in InUse' : bcRec'[i].origin = b}
  BY <1>0, LiveIs, LiveIsNext
<1>10. ASSUME NEW b \in 1 .. bcUsed.sent
       PROVE /\ bcPast'[b].results = bcPast[b].results /\ bcPast'[b].resultTo = bcPast[b].resultTo
  BY <1>0, <1>2, UsedTypes DEF PastGrows
<1>11. ASSUME NEW b \in 1 .. bcUsed.sent, b # o PROVE CountedFor(b)' /\ ResultFor(b)'
  <2>0. c \notin Live(b)
    BY <1>6, <1>9, <1>11
  <2>1. Live(b) \subseteq Live(b)'
    BY <1>2, <1>7, <1>9, <2>0
  <2>2. Live(b)' \subseteq Live(b)
    BY <1>2, <1>7, <1>9, <1>11
  <2>3. ASSUME NEW i \in Live(b)
        PROVE  /\ bcRec'[i].token = bcRec[i].token
               /\ bcRec[i].token # 0 => bcSplits'[bcRec[i].token] = bcSplits[bcRec[i].token]
    <3>1. i \in InUse /\ i # c /\ bcRec[i].origin # o /\ i \in BcIds
      BY <1>0, <1>9, <1>11, <2>0, LiveIs
    <3>2. bcRec[i].token # 0 => bcRec[i].token # token /\ bcRec[i].token \in DOMAIN bcSplits
      <4>1. bcRec[i].token \in 0 .. MaxRecords /\ DOMAIN bcSplits = BcIds
        BY <1>0, <3>1, RecordTypes DEF BcTypeOK
      <4> QED BY <1>4, <1>6, <3>1, <4>1 DEF BcIds
    <3> QED BY <1>7, <3>1, <3>2
  <2>4. Live(b)' = Live(b)
    BY <2>1, <2>2
  <2> QED BY <1>5, <1>10, <2>3, <2>4, CountedSame
<1>12. CountedFor(o)' /\ ResultFor(o)'
  <2>1. Live(o)' = Live(o) \cup {part} /\ c \in Live(o) /\ part \notin Live(o)
    <3>1. c \in Live(o) /\ part \notin Live(o) /\ c \in Live(o)' /\ part \in Live(o)'
      BY <1>2, <1>6, <1>7, <1>9
    <3>2. Live(o)' \subseteq Live(o) \cup {part}
      BY <1>2, <1>7, <1>9, <3>1
    <3>3. Live(o) \subseteq Live(o)'
      BY <1>2, <1>7, <1>9, <3>1
    <3> QED BY <3>1, <3>2, <3>3
  <2>2. CountedFor(o) /\ ResultFor(o)
    BY <1>5, <1>8
  <2>3. ResultFor(o)'
    BY <1>8, <1>10, <2>1, <2>2 DEF ResultFor
  <2>4. CASE ~bcPast[o].resultTo
    BY <1>8, <1>10, <2>3, <2>4 DEF CountedFor
  <2>5. CASE bcPast[o].resultTo
    <3>1. bcRec[c].resultTo /\ bcRec'[c].token = token /\ bcRec'[part].token = token
      BY <1>7, <1>8, <2>5
    <3>2. IsFiniteSet(Live(o))
      BY <1>0, LiveFinite
    <3>3. token # 0 /\ token \in DOMAIN bcSplits /\ bcSplits[token] \in Int
      <4>1. bcSplits \in [BcIds -> Int] /\ token \in BcIds
        BY <1>0, <1>4 DEF BcTypeOK
      <4>2. token # 0
        BY <4>1 DEF BcIds
      <4> QED BY <4>1, <4>2
    <3>4. CASE bcRec[c].token = 0
      <4>1. Live(o) = {c}
        BY <2>1, <2>2, <2>5, <3>4 DEF CountedFor
      <4>2. Live(o)' = {c, part}
        BY <2>1, <4>1
      <4>3. Cardinality({c, part}) = 2
        <5>1. Cardinality(Live(o)) = 1
          BY <4>1, FS_Singleton
        <5>2. Cardinality(Live(o) \cup {part}) = 2
          BY <2>1, <3>2, <5>1, FS_AddElement
        <5> QED BY <2>1, <4>2, <5>2
      <4>4. bcSplits'[token] = 2
        BY <1>7, <3>1, <3>3, <3>4
      <4>5. CountedFor(o)'
        BY <3>1, <3>3, <4>2, <4>3, <4>4 DEF CountedFor
      <4> QED BY <2>3, <4>5
    <3>5. CASE bcRec[c].token # 0
      <4>1. token = bcRec[c].token
        BY <1>7, <3>5
      <4>2. /\ \A j \in Live(o) : bcRec[j].token = token
            /\ bcSplits[token] = Cardinality(Live(o))
        BY <2>1, <2>2, <2>5, <3>3, <4>1 DEF CountedFor
      <4>3. Cardinality(Live(o)') = Cardinality(Live(o)) + 1
        <5>1. Cardinality(Live(o) \cup {part}) = Cardinality(Live(o)) + 1
          BY <2>1, <3>2, FS_AddElement
        <5> QED BY <2>1, <5>1
      <4>4. bcSplits'[token] = Cardinality(Live(o)')
        BY <1>7, <3>1, <3>3, <3>5, <4>2, <4>3
      <4>5. \A j \in Live(o)' : bcRec'[j].token = token
        <5>1. \A j \in Live(o) : j \in InUse
          BY <1>9
        <5> QED BY <1>7, <2>1, <3>1, <4>2, <5>1
      <4>6. CountedFor(o)'
        BY <3>3, <4>4, <4>5 DEF CountedFor
      <4> QED BY <2>3, <4>6
    <3> QED BY <3>4, <3>5
  <2> QED BY <2>4, <2>5
<1> QED BY <1>4, <1>7, <1>11, <1>12, CountedPartsNext

\* broadcastIntentLocked adds a broadcast that is one record, and ends a replaced one.
LEMMA SendCounted ==
    ASSUME BcCounted, BcTypes', NEW ordered \in BOOLEAN, NEW resultTo \in BOOLEAN, NEW replace \in BOOLEAN,
           broadcastIntentLocked(ordered, resultTo, replace)
    PROVE  SplitsCounted' /\ ResultOnce'
<1>0. BcTypes /\ BcTypeOK /\ BcTypeOK' /\ RecordsPlaced /\ RecordsSound
  BY DEF BcCounted, BcTypes
<1>1. PICK b, id, ps, do, dropped :
         /\ SendRecords(b, id, ps, do, dropped, ordered, resultTo)
         /\ \A c \in 1 .. MaxBroadcasts : c # b => SendPast(c, do, dropped)
  BY <1>0, SendEffects
<1>2. /\ \A i \in InUse : bcRec[i].origin \in 1 .. bcUsed.sent /\ bcRec[i].origin # b
      /\ \A c \in 1 .. MaxBroadcasts : PastKept(c) \/ c = b
      /\ \A c \in 1 .. MaxBroadcasts : c # b =>
            bcPast'[c].results = bcPast[c].results + (IF \E d \in do : bcRec[d].origin = c /\ bcRec[d].resultTo THEN 1 ELSE 0)
      /\ bcPast'[b].ordered = ordered /\ bcPast'[b].resultTo = resultTo /\ bcPast'[b].results = 0
  BY <1>0, <1>1, SendSound
<1>3. /\ b = bcUsed.sent + 1 /\ bcUsed'.sent = b /\ id \notin InUse /\ ps \cap InUse = {} /\ id \notin ps
      /\ do \subseteq ToSet(bcOrdered) /\ do \subseteq dropped /\ dropped \ do \subseteq ToSet(bcParallel)
      /\ (resultTo => ordered) /\ (ps # {} => ~ordered) /\ \A i, j \in do : i = j
      /\ InUse' = (InUse \ dropped) \cup ({id} \cup ps) /\ bcSplits' = bcSplits
      /\ \A i \in InUse : bcRec'[i] = bcRec[i]
      /\ bcUsed'.records >= bcUsed.records /\ \A i \in {id} \cup ps : i > bcUsed.records /\ i \in BcIds
  <2>1. SendRecords(b, id, ps, do, dropped, ordered, resultTo)
    BY <1>1
  <2>2. id \in BcIds \ InUse /\ ps \subseteq BcIds \ InUse
    BY <2>1 DEF SendRecords
  <2>3. ps \cap InUse = {} /\ \A i \in {id} \cup ps : i \in BcIds
    BY <2>2
  <2> QED BY <2>1, <2>2, <2>3 DEF SendRecords
<1>4. \A i \in {id} \cup ps : bcRec'[i].origin = b /\ bcRec'[i].token = 0
  <2>1. b \in 0 .. MaxBroadcasts /\ FALSE \in BOOLEAN /\ Registered \in Seq(Receivers)
    <3>1. b \in 1 .. MaxBroadcasts
      BY <1>1 DEF SendRecords
    <3> QED BY <3>1, ReceiverLists
  <2>2. PICK rs \in Seq(Receivers) : bcRec'[id] = NewRecord(b, rs, ordered, resultTo)
    <3>1. Merged(Components, Registered) \in Seq(Receivers) /\ Components \in Seq(Receivers)
      BY MergedInOrder, ReceiverLists
    <3> QED BY <1>1, <3>1 DEF SendRecords
  <2>3. PICK no \in BOOLEAN : no = FALSE
    OBVIOUS
  <2>4. \A p \in ps : bcRec'[p] = NewRecord(b, Registered, no, no)
    BY <1>1, <2>3 DEF SendRecords
  <2>5. bcRec'[id].origin = b /\ bcRec'[id].token = 0
    BY <2>1, <2>2, NewRecordType
  <2>6. NewRecord(b, Registered, no, no).origin = b /\ NewRecord(b, Registered, no, no).token = 0
    BY <2>1, NewRecordType
  <2> QED BY <2>4, <2>5, <2>6
<1>5. TokensSound /\ \A c \in 1 .. bcUsed.sent : CountedFor(c) /\ ResultFor(c)
  BY CountedParts DEF BcCounted
<1>6. /\ bcUsed.records \in Nat /\ bcUsed'.records \in Nat /\ bcUsed.sent \in Nat
      /\ InUse \subseteq BcIds /\ \A c \in 1 .. bcUsed.sent : c \in 1 .. MaxBroadcasts
      /\ \A i \in InUse : bcRec[i].token \in Nat /\ bcRec[i].token <= bcUsed.records
      /\ \A i \in InUse' : i # 0
  <2>1. bcUsed.records \in Nat /\ bcUsed.sent \in Nat /\ \A c \in 1 .. bcUsed.sent : c \in 1 .. MaxBroadcasts
    BY <1>0, UsedTypes
  <2>2. bcUsed'.records \in Nat
    BY <1>0 DEF BcTypeOK
  <2>3. InUse \subseteq BcIds
    BY <1>0, LiveIs
  <2>4. \A i \in InUse : bcRec[i].token \in Nat /\ bcRec[i].token <= bcUsed.records
    BY <1>0, <1>5, <2>3, RecordTypes DEF TokensSound
  <2>5. InUse' \subseteq BcIds
    BY <1>0, LiveIsNext
  <2>6. \A i \in BcIds : i # 0
    BY DEF BcIds
  <2>7. \A i \in InUse' : i # 0
    BY <2>5, <2>6
  <2> QED BY <2>1, <2>2, <2>3, <2>4, <2>7
<1>7. ToSet(bcOrdered) \subseteq InUse /\ ToSet(bcParallel) \subseteq InUse
  BY DEF InUse
<1>8. TokensSound'
  <2>1. ASSUME NEW i \in InUse' PROVE bcRec'[i].token <= bcUsed'.records /\ (bcRec'[i].token # 0 => bcRec'[i].resultTo)
    <3>1. CASE i \in {id} \cup ps
      BY <1>4, <1>6, <3>1
    <3>2. CASE i \in InUse
      BY <1>3, <1>5, <1>6, <3>2 DEF TokensSound
    <3> QED BY <1>3, <3>1, <3>2
  <2>2. ASSUME NEW i \in InUse', NEW j \in InUse', bcRec'[j].token = i PROVE bcRec'[i].token = i
    <3>1. j \in InUse /\ bcRec[j].token = i
      BY <1>3, <1>4, <1>6, <2>2
    <3>2. i \in InUse
      <4>1. i \notin {id} \cup ps
        BY <1>3, <1>6, <3>1 DEF BcIds
      <4> QED BY <1>3, <4>1
    <3> QED BY <1>3, <1>5, <3>1, <3>2 DEF TokensSound
  <2>3. ASSUME NEW i \in InUse', NEW j \in InUse', bcRec'[i].token # 0, bcRec'[i].token = bcRec'[j].token
        PROVE  bcRec'[i].origin = bcRec'[j].origin
    <3>1. i \in InUse /\ j \in InUse
      BY <1>3, <1>4, <2>3
    <3> QED BY <1>3, <1>5, <2>3, <3>1 DEF TokensSound
  <2> QED BY <2>1, <2>2, <2>3 DEF TokensSound
<1>9. /\ \A c : Live(c) = {i \in InUse : bcRec[i].origin = c}
      /\ \A c : Live(c)' = {i \in InUse' : bcRec'[i].origin = c}
  BY <1>0, LiveIs, LiveIsNext
<1>10. CountedFor(b)' /\ ResultFor(b)'
  <2>1. id \in Live(b)'
    BY <1>3, <1>4, <1>9
  <2>2. Live(b)' \subseteq {id} \cup ps
    BY <1>2, <1>3, <1>9
  <2>3. ResultFor(b)'
    BY <1>2, <2>1 DEF ResultFor
  <2>4. CountedFor(b)'
    <3>1. SUFFICES ASSUME resultTo PROVE CountedFor(b)'
      BY <1>2 DEF CountedFor
    <3>2. ps = {}
      BY <1>3, <3>1
    <3>3. Live(b)' = {id} /\ bcRec'[id].token = 0
      BY <1>4, <2>1, <2>2, <3>2
    <3> QED BY <3>3 DEF CountedFor
  <2> QED BY <2>3, <2>4
<1>11. ASSUME NEW c \in 1 .. bcUsed.sent PROVE CountedFor(c)' /\ ResultFor(c)'
  <2>0. c # b /\ c \in 1 .. MaxBroadcasts /\ CountedFor(c) /\ ResultFor(c)
    BY <1>3, <1>5, <1>6
  <2>1. /\ Live(c)' \subseteq Live(c) \ dropped /\ Live(c) \ dropped \subseteq Live(c)'
    <3>1. Live(c)' \subseteq Live(c) \ dropped
      BY <1>3, <1>4, <1>9, <2>0
    <3>2. Live(c) \ dropped \subseteq Live(c)'
      BY <1>3, <1>9
    <3> QED BY <3>1, <3>2
  <2>2. /\ bcPast'[c].resultTo = bcPast[c].resultTo
        /\ bcPast'[c].results = bcPast[c].results + (IF \E d \in do : bcRec[d].origin = c /\ bcRec[d].resultTo THEN 1 ELSE 0)
    BY <1>2, <2>0 DEF PastKept
  <2>3. bcPast[c].results \in Nat
    BY <1>0, <2>0, PastTypes DEF PastType
  <2>4. \A d \in do : d \in InUse \ ToSet(bcParallel) /\ bcRec[d].token = 0 /\ (bcRec[d].origin = c => bcRec[d].resultTo = bcPast[c].resultTo)
    <3>1. ToSet(bcParallel) \cap ToSet(bcOrdered) = {}
      BY <1>0 DEF RecordsPlaced
    <3> QED BY <1>0, <1>3, <1>7, <3>1 DEF RecordsSound
  <2>5. CASE ~bcPast[c].resultTo
    <3>1. ~\E d \in do : bcRec[d].origin = c /\ bcRec[d].resultTo
      BY <2>4, <2>5
    <3> QED BY <2>0, <2>2, <2>3, <2>5, <3>1 DEF CountedFor, ResultFor
  <2>6. CASE bcPast[c].resultTo /\ \E d \in do : bcRec[d].origin = c
    <3>1. PICK d \in do : bcRec[d].origin = c
      BY <2>6
    <3>2. Live(c) = {d} /\ d \in dropped
      BY <1>3, <1>9, <2>0, <2>4, <2>6, <3>1 DEF CountedFor
    <3>3. Live(c)' = {}
      BY <2>1, <3>2
    <3>4. bcPast[c].results = 0
      BY <2>0, <3>2 DEF ResultFor
    <3>5. bcPast'[c].results = 1
      <4>1. bcRec[d].resultTo
        BY <2>4, <2>6, <3>1
      <4>2. (IF \E e \in do : bcRec[e].origin = c /\ bcRec[e].resultTo THEN 1 ELSE 0) = 1
        BY <3>1, <4>1
      <4> QED BY <2>2, <3>4, <4>2
    <3> QED BY <2>2, <2>6, <3>3, <3>5 DEF CountedFor, ResultFor
  <2>7. CASE bcPast[c].resultTo /\ ~\E d \in do : bcRec[d].origin = c
    <3>1. \A d \in ToSet(bcParallel) : bcPast[bcRec[d].origin].resultTo => FALSE
      <4>1. \A d \in ToSet(bcParallel) : bcRec[d].origin \in 1 .. MaxBroadcasts /\ ~bcPast[bcRec[d].origin].ordered
        BY <1>0, <1>2, <1>6, <1>7 DEF RecordsSound
      <4> QED BY <1>0, <4>1 DEF RecordsSound
    <3>2. Live(c) \cap dropped = {}
      BY <1>3, <1>9, <2>7, <3>1
    <3>3. Live(c)' = Live(c)
      BY <2>1, <3>2
    <3>4. \A i \in Live(c) : bcRec'[i].token = bcRec[i].token
      BY <1>3, <1>9
    <3>5. bcPast'[c].results = bcPast[c].results
      BY <2>2, <2>3, <2>7
    <3> QED BY <1>3, <2>0, <2>2, <3>3, <3>4, <3>5, CountedSame
  <2> QED BY <2>5, <2>6, <2>7
<1>12. \A c \in 1 .. bcUsed'.sent : CountedFor(c)' /\ ResultFor(c)'
  <2>1. \A c \in 1 .. bcUsed'.sent : c = b \/ c \in 1 .. bcUsed.sent
    BY <1>3, <1>6
  <2> QED BY <1>10, <1>11, <2>1
<1> QED BY <1>8, <1>12, CountedPartsNext

\* Every step keeps the count of parts.
LEMMA BcCountedStep == BcCounted /\ [BcNext]_bcVars => BcCounted'
<1> SUFFICES ASSUME BcCounted, [BcNext]_bcVars PROVE BcCounted'
  OBVIOUS
<1>0. BcTypes /\ BcTypes' /\ BcTypeOK /\ BcTypeOK' /\ SplitsCounted /\ ResultOnce
  <2>1. BcTypes'
    BY BcTypesStep DEF BcCounted
  <2> QED BY <2>1 DEF BcCounted, BcTypes
<1>1. CASE UNCHANGED bcVars
  <2>1. SplitsCounted' /\ ResultOnce'
    <3>1. bcRec' = bcRec /\ bcUsed' = bcUsed /\ bcPast' = bcPast /\ bcSplits' = bcSplits
      BY <1>1 DEF bcVars
    <3>2. InUse' = InUse
      BY <1>1 DEF bcVars, InUse
    <3>3. \A b : Live(b)' = Live(b)
      BY <1>0, <3>1, <3>2, LiveIs, LiveIsNext
    <3>4. ResultOnce'
      BY <1>0, <3>1, <3>3 DEF ResultOnce
    <3>5. SplitsCounted'
      BY <1>0, <3>1, <3>2, <3>3 DEF SplitsCounted
    <3> QED BY <3>4, <3>5
  <2> QED BY <1>0, <2>1 DEF BcCounted
<1>2. CASE QuietAction
  <2>1. SplitsCounted' /\ ResultOnce'
    BY <1>0, <1>2, QuietStep, QuietCounted
  <2> QED BY <1>0, <2>1 DEF BcCounted
<1>3. ASSUME NEW ordered \in BOOLEAN, NEW resultTo \in BOOLEAN, NEW replace \in BOOLEAN,
             broadcastIntentLocked(ordered, resultTo, replace)
      PROVE  BcCounted'
  BY <1>0, <1>3, SendCounted DEF BcCounted
<1>4. CASE ProcessBegin
  BY <1>0, <1>4, BeginCounted DEF BcCounted
<1>5. CASE LoopRetire
  BY <1>0, <1>5, RetireCounted DEF BcCounted
<1>6. CASE LoopDefer /\ Cur.next # Len(Cur.receivers)
  BY <1>0, <1>6, SplitCounted DEF BcCounted
<1> QED BY <1>1, <1>2, <1>3, <1>4, <1>5, <1>6 DEF BcNext, processNextBroadcastLocked, QuietAction

\* The sender that asked for a result gets one, when the last part is done (LoopRetire,
\* splitRecipientsLocked, the replaced record of broadcastIntentLocked), for every list of
\* receivers and any number of broadcasts.
THEOREM ResultOnceAlways == BcSpec => []ResultOnce
<1>1. BcInit => BcCounted
  <2> SUFFICES ASSUME BcInit PROVE BcCounted
    OBVIOUS
  <2>1. BcTypes
    BY BcTypesInit
  <2>2. InUse = {}
    BY DEF BcInit, InUse, ToSet
  <2>3. SplitsCounted /\ ResultOnce
    BY <2>2 DEF SplitsCounted, ResultOnce, BcInit
  <2> QED BY <2>1, <2>3 DEF BcCounted
<1>2. BcCounted => ResultOnce
  BY DEF BcCounted
<1> QED BY <1>1, <1>2, BcCountedStep, PTL DEF BcSpec

-----------------------------------------------------------------------------
(* Each receiver served once *)

\* What it means that receivers are served, broadcast by broadcast
LEMMA ServiceParts ==
    /\ ServiceSound <=> \A b \in 1 .. bcUsed.sent : ServiceFor(b)
    /\ ServiceSound' <=> \A b \in 1 .. bcUsed'.sent : ServiceFor(b)'
BY DEF ServiceSound

\* What a step does to the receivers that are due: nothing,
DueSame ==
    /\ \A i \in BcIds : Due(i)' = Due(i)
    /\ \A b \in 1 .. MaxBroadcasts : bcPast'[b].served = bcPast[b].served

\* or it serves the next one of record c,
DueMoves(c) ==
    /\ \A i \in BcIds : i # c => Due(i)' = Due(i)
    /\ Due(c) \in 1 .. Len(bcRec[c].receivers) /\ Due(c)' = Due(c) + 1
    /\ bcPast' = [bcPast EXCEPT ![bcRec[c].origin].served = Append(@, bcRec[c].receivers[Due(c)])]

\* or it gives up the record.
DueDrops(c) ==
    /\ \A i \in BcIds : i # c => Due(i)' = Due(i)
    /\ Due(c)' >= Due(c)
    /\ bcPast' = [bcPast EXCEPT ![bcRec[c].origin].cut = TRUE]

\* What a record has to deliver next is a number.
LEMMA DueTypes ==
    ASSUME BcTypeOK, NEW i \in BcIds
    PROVE  Due(i) \in Nat
<1>1. bcRec[i].next \in Nat /\ bcPending.index \in Nat
  BY RecordTypes DEF BcTypeOK
<1> QED BY <1>1 DEF Due

\* A step that changes the current record leaves what is due of the others.
LEMMA DueOthers ==
    ASSUME BcTypes, OnlyCurrent, bcPending' = bcPending \/ bcPending'.id = NoRecord \/ bcPending'.id = bcCurrent
    PROVE  \A i \in BcIds : i # bcCurrent => Due(i)' = Due(i)
<1> SUFFICES ASSUME NEW i \in BcIds, i # bcCurrent PROVE Due(i)' = Due(i)
  OBVIOUS
<1>1. i # NoRecord
  BY DEF BcIds, NoRecord
<1>2. bcPending.id # i
  BY <1>1 DEF BcTypes, WaitsArmed
<1>3. bcPending'.id # i
  BY <1>1, <1>2
<1> QED BY <1>2, <1>3 DEF Due, OnlyCurrent

\* The record the queue is processing, and the one a process is started for
LEMMA DueNow ==
    ASSUME BcTypes, bcCurrent # NoRecord
    PROVE  /\ bcCurrent \in BcIds /\ Cur = bcRec[bcCurrent]
           /\ Cur.state = "IDLE" => bcPending.id = NoRecord
           /\ bcPending.id = NoRecord => Due(bcCurrent) = Cur.next
           /\ bcPending.id # NoRecord =>
                /\ Due(bcCurrent) = bcPending.index /\ Cur.next = Due(bcCurrent) + 1
                /\ Due(bcCurrent) \in 1 .. Len(Cur.receivers)
                /\ CurReceiver = Cur.receivers[Due(bcCurrent)]
<1>1. bcCurrent \in BcIds /\ Cur = bcRec[bcCurrent] /\ WaitsArmed
  BY DEF BcTypes, BcTypeOK, Cur
<1>2. CASE bcPending.id = NoRecord
  BY <1>1, <1>2 DEF Due, BcIds, NoRecord
<1>3. CASE bcPending.id # NoRecord
  <2>1. bcPending.id = bcCurrent /\ bcPending.index \in 1 .. Len(Cur.receivers) /\ Cur.next = bcPending.index + 1
        /\ Cur.state = "APP_RECEIVE"
    BY <1>1, <1>3 DEF WaitsArmed
  <2>2. Due(bcCurrent) = bcPending.index
    BY <2>1 DEF Due
  <2>3. bcPending.index \in Nat
    BY DEF BcTypes, BcTypeOK
  <2>4. Cur.next - 1 = bcPending.index
    BY <2>1, <2>3
  <2> QED BY <1>1, <1>3, <2>1, <2>2, <2>4 DEF CurReceiver
<1> QED BY <1>1, <1>2, <1>3

\* finishReceiverLocked gives up the receiver whose process did not start.
LEMMA FinishDue ==
    ASSUME BcTypes, NEW over \in BOOLEAN, finishReceiverLocked(over), bcCurrent # NoRecord,
           NEW c, c = bcCurrent, OnlyCurrent, bcRec'[bcCurrent].next = bcRec[bcCurrent].next
    PROVE  /\ \A i \in BcIds : i # c => Due(i)' = Due(i)
           /\ Due(c)' = bcRec[c].next
<1>1. bcPending'.id = NoRecord /\ c \in BcIds
  BY DueNow DEF finishReceiverLocked
<1>2. \A i \in BcIds : i # c => Due(i)' = Due(i)
  BY <1>1, DueOthers
<1>3. bcPending'.id # c
  BY <1>1 DEF BcIds, NoRecord
<1> QED BY <1>2, <1>3 DEF Due

\* A delivery moves on by one receiver, who has then been served.
LEMMA DeliverDue ==
    ASSUME BcTypes, NEW state \in {"IDLE", "CALL_DONE_RECEIVE", "APP_RECEIVE"}, Deliver(state),
           Handle(Cur.origin, NextReceiver), UNCHANGED bcPending,
           bcUsed'.sent = bcUsed.sent, bcUsed'.records = bcUsed.records,
           NEW c, c = bcCurrent
    PROVE  DueMoves(c)
<1>1. /\ Quiet /\ c \in BcIds /\ c # NoRecord /\ bcRec'[c].next = bcRec[c].next + 1
  BY DeliverQuiet
<1>2. /\ BcTypeOK /\ AtLoop /\ ~Finished /\ Cur = bcRec[c] /\ Cur.state = "IDLE"
  BY AtLoopTypes DEF BcTypes, Deliver
<1>3. Cur.next \in 1 .. Len(Cur.receivers) /\ NextReceiver = Cur.receivers[Cur.next]
  BY <1>2, AtLoopTypes
<1>4. bcPending.id = NoRecord /\ Due(c) = Cur.next
  BY <1>1, <1>2, DueNow
<1>5. \A i \in BcIds : i # c => Due(i)' = Due(i)
  BY <1>1, DueOthers DEF Quiet
<1>6. Due(c)' = bcRec'[c].next
  BY <1>1, <1>4 DEF Due
<1>7. bcPast' = [bcPast EXCEPT ![bcRec[c].origin].served = Append(@, bcRec[c].receivers[Due(c)])]
  BY <1>2, <1>3, <1>4 DEF Handle
<1> QED BY <1>1, <1>2, <1>3, <1>4, <1>5, <1>6, <1>7 DEF DueMoves

\* A quiet step leaves what is due, serves the next one, or drops it.
LEMMA DueStep ==
    ASSUME BcTypes, QuietAction
    PROVE  \/ DueSame
           \/ \E c \in BcIds : c = bcCurrent /\ c = bcCurrent' /\ (DueMoves(c) \/ DueDrops(c))
<1>0. BcTypeOK /\ WaitsArmed /\ Quiet /\ OnlyCurrent
  <2>1. Quiet
    BY QuietStep
  <2> QED BY <2>1 DEF BcTypes, Quiet
<1>1. ASSUME UNCHANGED <<bcRec, bcPast, bcPending>> PROVE DueSame
  BY <1>1 DEF DueSame, Due
<1>2. ASSUME NEW over \in BOOLEAN, finishReceiverLocked(over), bcCurrent # NoRecord
      PROVE  /\ \A i \in BcIds : i # bcCurrent => Due(i)' = Due(i)
             /\ bcCurrent' = bcCurrent => Due(bcCurrent)' = bcRec[bcCurrent].next
             /\ bcPending.id = NoRecord /\ bcCurrent' = bcCurrent => \A i \in BcIds : Due(i)' = Due(i)
  <2>1. PICK c \in BcIds : c = bcCurrent
    BY <1>0, <1>2 DEF BcTypeOK
  <2>2. bcRec'[bcCurrent].next = bcRec[bcCurrent].next
    <3>1. bcRec' = [bcRec EXCEPT ![c] = [bcRec[c] EXCEPT !.state = "IDLE", !.over = over]]
      BY <1>2, <2>1 DEF finishReceiverLocked, Cur
    <3>2. bcRec[c] \in RecType /\ DOMAIN bcRec = BcIds
      BY <1>0, <2>1, RecordTypes DEF BcTypeOK
    <3>3. bcRec'[c] = [bcRec[c] EXCEPT !.state = "IDLE", !.over = over]
      BY <2>1, <3>1, <3>2
    <3> QED BY <2>1, <3>2, <3>3 DEF RecType
  <2>3. /\ \A i \in BcIds : i # c => Due(i)' = Due(i)
        /\ Due(c)' = bcRec[c].next
    BY <1>0, <1>2, <2>1, <2>2, FinishDue
  <2>4. bcPending.id = NoRecord => Due(c) = bcRec[c].next
    BY <1>2, <2>1, DueNow DEF Cur
  <2>5. bcPending.id = NoRecord => \A i \in BcIds : Due(i)' = Due(i)
    BY <2>3, <2>4
  <2> QED BY <2>1, <2>3, <2>5
<1>3. CASE BroadcastMessage
  BY <1>1, <1>3 DEF BroadcastMessage
<1>4. CASE getNextBroadcastLocked
  BY <1>1, <1>4 DEF getNextBroadcastLocked
<1>5. CASE LoopBusy
  BY <1>1, <1>5 DEF LoopBusy
<1>6. CASE LoopHung
  <2>1. PICK c \in BcIds : c = bcCurrent /\ c # NoRecord
    BY <1>0, <1>6 DEF LoopHung, AtLoop, BcTypeOK
  <2>2. finishReceiverLocked(TRUE) /\ bcCurrent' = bcCurrent /\ bcPast' = [bcPast EXCEPT ![bcRec[c].origin].cut = TRUE]
    BY <1>6, <2>1 DEF LoopHung, finishReceiverLocked, Cur
  <2>3. /\ \A i \in BcIds : i # c => Due(i)' = Due(i)
        /\ Due(c)' = bcRec[c].next
    <3>1. PICK yes \in BOOLEAN : yes = TRUE
      OBVIOUS
    <3>2. finishReceiverLocked(yes)
      BY <2>2, <3>1
    <3> QED BY <1>2, <2>1, <2>2, <3>2
  <2>4. Due(c)' >= Due(c)
    <3>1. Due(c) = bcRec[c].next \/ bcRec[c].next = Due(c) + 1
      BY <2>1, DueNow DEF Cur
    <3>2. Due(c) \in Nat
      BY <1>0, DueTypes
    <3> QED BY <2>3, <3>1, <3>2
  <2> QED BY <2>1, <2>2, <2>3, <2>4 DEF DueDrops
<1>7. CASE LoopDefer /\ Cur.next = Len(Cur.receivers)
  <2>1. PICK c \in BcIds : c = bcCurrent /\ c # NoRecord /\ Cur = bcRec[c]
    BY <1>0, <1>7 DEF LoopDefer, Split, AtLoop, BcTypeOK, Cur
  <2>2. bcRec' = [bcRec EXCEPT ![c].deferred = TRUE] /\ UNCHANGED bcPending
        /\ bcPast' = [bcPast EXCEPT ![bcRec[c].origin].deferred = TRUE]
    BY <1>7, <2>1 DEF LoopDefer, Split
  <2>3. bcRec'[c].next = bcRec[c].next
    BY <1>0, <2>1, <2>2, RecordTypes DEF BcTypeOK, RecType
  <2>4. \A i \in BcIds : bcRec'[i].next = bcRec[i].next
    BY <1>0, <2>1, <2>3 DEF OnlyCurrent
  <2>5. \A i \in BcIds : Due(i)' = Due(i)
    BY <2>2, <2>4 DEF Due
  <2>6. \A b \in 1 .. MaxBroadcasts : bcPast'[b].served = bcPast[b].served
    BY <1>0, <2>2, PastTypes DEF BcTypeOK, PastType
  <2> QED BY <2>5, <2>6 DEF DueSame
<1>8. CASE DeliverToRunning \/ DeliverToDead \/ DeliverSkips
  <2>1. PICK state \in {"IDLE", "CALL_DONE_RECEIVE", "APP_RECEIVE"} : Deliver(state)
    BY <1>8 DEF DeliverToRunning, DeliverToDead, DeliverSkips
  <2>2. PICK c \in BcIds : c = bcCurrent
    BY <2>1 , <1>0 DEF Deliver, AtLoop, BcTypeOK
  <2>3. Handle(Cur.origin, NextReceiver) /\ UNCHANGED bcPending /\ bcCurrent' = bcCurrent
    BY <1>8, <2>1 DEF DeliverToRunning, DeliverToDead, DeliverSkips, Deliver
  <2>4. bcUsed'.sent = bcUsed.sent /\ bcUsed'.records = bcUsed.records
    BY <1>0 DEF Quiet, SamePlaces
  <2>5. DueMoves(c)
    BY <2>1, <2>2, <2>3, <2>4, DeliverDue
  <2> QED BY <2>2, <2>3, <2>5
<1>9. CASE DeliverStarts
  <2>1. Deliver("APP_RECEIVE") /\ UNCHANGED bcPast /\ bcPending' = [id |-> bcCurrent, index |-> Cur.next]
    BY <1>9 DEF DeliverStarts
  <2>2. PICK c \in BcIds : c = bcCurrent /\ c # NoRecord /\ Cur.state = "IDLE"
    BY <2>1, <1>0 DEF Deliver, AtLoop, BcTypeOK
  <2>3. Due(c) = Cur.next /\ Due(c)' = Cur.next
    <3>1. Due(c) = Cur.next
      BY <2>2, DueNow
    <3>2. bcPending'.id = c /\ bcPending'.index = Cur.next
      BY <2>1, <2>2
    <3> QED BY <3>1, <3>2 DEF Due
  <2>4. \A i \in BcIds : i # c => Due(i)' = Due(i)
    BY <1>0, <2>1, <2>2, DueOthers
  <2>5. \A i \in BcIds : Due(i)' = Due(i)
    BY <2>3, <2>4
  <2> QED BY <2>1, <2>5 DEF DueSame
<1>10. CASE AttachApplication
  <2>1. PICK c \in BcIds : c = bcCurrent /\ c # NoRecord /\ Cur = bcRec[c] /\ bcPending.id # NoRecord
    BY <1>0, <1>10 DEF AttachApplication, BcTypeOK, Cur, WaitsArmed
  <2>2. Handle(Cur.origin, CurReceiver) /\ UNCHANGED <<bcRec, bcCurrent>> /\ bcPending'.id = NoRecord
    BY <1>10 DEF AttachApplication
  <2>3. /\ Cur.next = Due(c) + 1 /\ Due(c) \in 1 .. Len(Cur.receivers) /\ CurReceiver = Cur.receivers[Due(c)]
    BY <2>1, DueNow
  <2>4. \A i \in BcIds : i # c => Due(i)' = Due(i)
    BY <1>0, <2>1, <2>2, DueOthers
  <2>5. Due(c)' = bcRec[c].next
    BY <2>1, <2>2 DEF Due
  <2>6. bcPast' = [bcPast EXCEPT ![bcRec[c].origin].served = Append(@, bcRec[c].receivers[Due(c)])]
    BY <2>1, <2>2, <2>3 DEF Handle
  <2>7. DueMoves(c)
    BY <2>1, <2>3, <2>4, <2>5, <2>6 DEF DueMoves
  <2> QED BY <2>1, <2>2, <2>7
<1>11. CASE BroadcastTimeout
  <2>1. PICK c \in BcIds : c = bcCurrent /\ c # NoRecord /\ Cur = bcRec[c]
    BY <1>0, <1>11 DEF BroadcastTimeout, Waiting, BcTypeOK, Cur
  <2>2. finishReceiverLocked(FALSE) /\ UNCHANGED bcCurrent
    BY <1>11 DEF BroadcastTimeout
  <2>3. /\ \A i \in BcIds : i # c => Due(i)' = Due(i)
        /\ Due(c)' = bcRec[c].next
        /\ bcPending.id = NoRecord => \A i \in BcIds : Due(i)' = Due(i)
    <3>1. PICK no \in BOOLEAN : no = FALSE
      OBVIOUS
    <3>2. finishReceiverLocked(no)
      BY <2>2, <3>1
    <3> QED BY <1>2, <2>1, <2>2, <3>2
  <2>4. CASE bcPending.id = NoRecord
    BY <1>11, <2>3, <2>4 DEF BroadcastTimeout, DueSame
  <2>5. CASE bcPending.id # NoRecord
    <3>1. Handle(Cur.origin, CurReceiver)
      BY <1>11, <2>5 DEF BroadcastTimeout
    <3>2. /\ Cur.next = Due(c) + 1 /\ Due(c) \in 1 .. Len(Cur.receivers) /\ CurReceiver = Cur.receivers[Due(c)]
      BY <2>1, <2>5, DueNow
    <3>3. bcPast' = [bcPast EXCEPT ![bcRec[c].origin].served = Append(@, bcRec[c].receivers[Due(c)])]
      BY <2>1, <3>1, <3>2 DEF Handle
    <3>4. DueMoves(c)
      BY <2>1, <2>3, <3>2, <3>3 DEF DueMoves
    <3> QED BY <2>1, <2>2, <3>4
  <2> QED BY <2>4, <2>5
<1>12. ASSUME NEW abort \in BOOLEAN, NEW slow \in BOOLEAN, FinishReceiver(abort, slow)
       PROVE  DueSame
  <2>1. /\ finishReceiverLocked(abort) /\ UNCHANGED bcCurrent /\ bcCurrent # NoRecord /\ bcPending.id = NoRecord
        /\ bcPast' = IF abort THEN [bcPast EXCEPT ![bcRec[bcCurrent].origin].cut = TRUE] ELSE bcPast
    BY <1>12 DEF FinishReceiver, Waiting, Cur
  <2>2. \A i \in BcIds : Due(i)' = Due(i)
    BY <1>2, <2>1
  <2>3. \A b \in 1 .. MaxBroadcasts : bcPast'[b].served = bcPast[b].served
    BY <1>0, <2>1, PastTypes DEF BcTypeOK, PastType
  <2> QED BY <2>2, <2>3 DEF DueSame
<1>13. ASSUME NEW app \in BcApps, ProcessDies(app)
       PROVE  DueSame
  <2>1. UNCHANGED <<bcCurrent, bcPast>>
    BY <1>13 DEF ProcessDies
  <2>2. CASE Waiting /\ bcPending.id = NoRecord /\ CurApp = app
    <3>1. PICK no \in BOOLEAN : no = FALSE
      OBVIOUS
    <3>2. finishReceiverLocked(no) /\ bcCurrent # NoRecord
      BY <1>13, <2>2, <3>1 DEF ProcessDies, Waiting
    <3>3. \A i \in BcIds : Due(i)' = Due(i)
      BY <1>2, <2>1, <2>2, <3>2
    <3> QED BY <2>1, <3>3 DEF DueSame
  <2>3. CASE ~(Waiting /\ bcPending.id = NoRecord /\ CurApp = app)
    BY <1>1, <1>13, <2>1, <2>3 DEF ProcessDies
  <2> QED BY <2>2, <2>3
<1>14. ASSUME NEW ends \in BOOLEAN, DeferralCheck(ends)
       PROVE  DueSame
  BY <1>1, <1>14 DEF DeferralCheck
<1> QED BY <1>3, <1>4, <1>5, <1>6, <1>7, <1>8, <1>9, <1>10, <1>11, <1>12, <1>13, <1>14 DEF QuietAction

\* What a record still has to deliver stays with its list and its progress.
LEMMA RestSame ==
    ASSUME NEW i, bcRec'[i].receivers = bcRec[i].receivers, Due(i)' = Due(i)
    PROVE  Rest(i)' = Rest(i)
BY DEF Rest

\* What a record still has to deliver are the rest of its receivers.
LEMMA RestIs ==
    ASSUME BcTypeOK, NEW i \in BcIds, Due(i) # 0
    PROVE  /\ Rest(i) \subseteq Receivers
           /\ \A x \in Rest(i) : \E k \in 1 .. Len(bcRec[i].receivers) : k >= Due(i) /\ x = bcRec[i].receivers[k]
<1>1. bcRec[i].receivers \in Seq(Receivers) /\ Due(i) \in Nat
  BY RecordTypes, DueTypes
<1>2. \A k \in Due(i) .. Len(bcRec[i].receivers) :
         k \in 1 .. Len(bcRec[i].receivers) /\ k >= Due(i) /\ bcRec[i].receivers[k] \in Receivers
  BY <1>1, LenProperties
<1> QED BY <1>2 DEF Rest

\* There is a next receiver, be it one past the last.
LEMMA DuePositive ==
    ASSUME BcTypes, NEW i \in BcIds
    PROVE  Due(i) \in Nat \ {0}
<1>1. bcRec[i].next \in Nat \ {0}
  BY RecordTypes DEF BcTypes
<1>2. bcPending.id = i => bcPending.index \in Nat \ {0}
  <2>1. bcPending.id = i => bcPending.index \in 1 .. Len(Cur.receivers)
    BY DEF BcTypes, WaitsArmed, BcIds, NoRecord
  <2>2. bcPending.index \in Nat
    BY DEF BcTypes, BcTypeOK
  <2> QED BY <2>1, <2>2
<1> QED BY <1>1, <1>2 DEF Due

\* A step that serves nobody
LEMMA ServiceKept ==
    ASSUME NEW b, ServiceFor(b), Live(b)' \subseteq Live(b),
           bcPast'[b].served = bcPast[b].served, bcPast'[b].ordered = bcPast[b].ordered,
           bcPast[b].cut => bcPast'[b].cut, bcPast[b].deferred => bcPast'[b].deferred,
           \A i \in Live(b)' : Rest(i)' \subseteq Rest(i) /\ bcRec'[i].receivers = bcRec[i].receivers,
           ~bcPast'[b].cut => \A i \in Live(b) : \A x \in Rest(i) : \E j \in Live(b)' : x \in Rest(j)'
    PROVE  ServiceFor(b)'
<1> USE DEF ServiceFor
<1>1. IsInjective(bcPast'[b].served)
  OBVIOUS
<1>2. \A i \in Live(b)' : \A x \in Rest(i)' : x \notin ToSet(bcPast'[b].served)
  OBVIOUS
<1>3. \A i, j \in Live(b)' : i # j => Rest(i)' \cap Rest(j)' = {}
  <2> SUFFICES ASSUME NEW i \in Live(b)', NEW j \in Live(b)', i # j PROVE Rest(i)' \cap Rest(j)' = {}
    OBVIOUS
  <2>1. Rest(i) \cap Rest(j) = {} /\ Rest(i)' \subseteq Rest(i) /\ Rest(j)' \subseteq Rest(j)
    OBVIOUS
  <2> QED BY <2>1
<1>4. ASSUME ~bcPast'[b].cut, NEW x \in Receivers
      PROVE  x \in ToSet(bcPast'[b].served) \/ \E i \in Live(b)' : x \in Rest(i)'
  BY <1>4
<1>5. ASSUME bcPast'[b].ordered, ~bcPast'[b].deferred
      PROVE  /\ InOrder(bcPast'[b].served)
             /\ \A i, j \in Live(b)' : i = j
             /\ \A i \in Live(b)' :
                   /\ InOrder(bcRec'[i].receivers)
                   /\ \A x \in ToSet(bcPast'[b].served), y \in Rest(i)' : ~Before(y, x)
  BY <1>5
<1> QED BY <1>1, <1>2, <1>3, <1>4, <1>5

\* A step that serves the next receiver of record c
LEMMA ServiceOne ==
    ASSUME BcTypes, NEW b \in 1 .. MaxBroadcasts, ServiceFor(b), NEW c \in Live(b), Live(b)' = Live(b),
           \A i \in Live(b) : bcRec'[i].receivers = bcRec[i].receivers,
           \A i \in Live(b) : i # c => Due(i)' = Due(i),
           Due(c)' = Due(c) + 1, Due(c) \in 1 .. Len(bcRec[c].receivers),
           bcPast'[b] = [bcPast[b] EXCEPT !.served = Append(bcPast[b].served, bcRec[c].receivers[Due(c)])]
    PROVE  ServiceFor(b)'
<1>0. /\ BcTypeOK /\ Live(b) \subseteq BcIds /\ c \in BcIds /\ c \in InUse
  BY LiveIs DEF BcTypes
<1>1. PICK s, d, x : s = bcRec[c].receivers /\ d = Due(c) /\ x = s[d]
  OBVIOUS
<1>2. /\ s \in Seq(Receivers) /\ IsInjective(s) /\ d \in 1 .. Len(s) /\ Len(s) \in Nat /\ x \in Receivers
      /\ \A i, j \in 1 .. Len(s) : s[i] = s[j] => i = j
  <2>1. s \in Seq(Receivers) /\ IsInjective(s) /\ d \in 1 .. Len(s)
    BY <1>0, <1>1, RecordTypes DEF BcTypes, RecordsSound
  <2> QED BY <1>1, <2>1, LenProperties, Elements
<1>3. /\ Rest(c) = {s[k] : k \in d .. Len(s)} /\ Rest(c)' = {s[k] : k \in d + 1 .. Len(s)}
      /\ bcRec'[c].receivers = s
  BY <1>1 DEF Rest
<1>4. Rest(c)' = Rest(c) \ {x} /\ x \in Rest(c)
  <2>1. \A k \in d .. Len(s) : k = d \/ k \in d + 1 .. Len(s)
    BY <1>2
  <2>2. \A k \in d + 1 .. Len(s) : k \in d .. Len(s) /\ s[k] # x
    BY <1>1, <1>2
  <2>3. d \in d .. Len(s)
    BY <1>2
  <2> QED BY <1>1, <1>3, <2>1, <2>2, <2>3
<1>5. \A i \in Live(b) : i # c => Rest(i)' = Rest(i)
  BY RestSame
<1>6. PICK old, new : old = bcPast[b].served /\ new = Append(old, x)
  OBVIOUS
<1>7. /\ old \in Seq(Receivers) /\ new \in Seq(Receivers) /\ ToSet(new) = ToSet(old) \cup {x}
      /\ IsInjective(new) <=> IsInjective(old) /\ x \notin ToSet(old)
  <2>1. old \in Seq(Receivers)
    BY <1>0, <1>6, PastTypes
  <2> QED BY <1>2, <1>6, <2>1, AppendOne
<1>8. /\ bcPast'[b].served = new /\ bcPast'[b].cut = bcPast[b].cut
      /\ bcPast'[b].ordered = bcPast[b].ordered /\ bcPast'[b].deferred = bcPast[b].deferred
  <2>1. bcPast[b] \in PastType
    BY <1>0, PastTypes
  <2> QED BY <1>1, <1>6, <2>1 DEF PastType
<1>9. x \notin ToSet(old) /\ IsInjective(new)
  BY <1>4, <1>6, <1>7 DEF ServiceFor
<1>10. ASSUME NEW i \in Live(b), NEW y \in Rest(i)' PROVE y \in Rest(i) /\ y \notin ToSet(new)
  <2>1. y \in Rest(i) /\ y # x
    <3>1. CASE i = c
      BY <1>4, <1>10, <3>1
    <3>2. CASE i # c
      <4>1. Rest(i) \cap Rest(c) = {} /\ y \in Rest(i)
        BY <1>5, <1>10, <3>2 DEF ServiceFor
      <4> QED BY <1>4, <4>1
    <3> QED BY <3>1, <3>2
  <2>2. y \notin ToSet(old)
    BY <1>6, <2>1 DEF ServiceFor
  <2> QED BY <1>7, <2>1, <2>2
<1>11. ASSUME NEW i \in Live(b), NEW j \in Live(b), i # j PROVE Rest(i)' \cap Rest(j)' = {}
  <2>1. Rest(i) \cap Rest(j) = {}
    BY <1>11 DEF ServiceFor
  <2> QED BY <1>10, <2>1
<1>12. ASSUME ~bcPast'[b].cut, NEW y \in Receivers
       PROVE  y \in ToSet(new) \/ \E i \in Live(b) : y \in Rest(i)'
  <2>1. y \in ToSet(old) \/ \E i \in Live(b) : y \in Rest(i)
    BY <1>6, <1>8, <1>12 DEF ServiceFor
  <2> QED BY <1>4, <1>5, <1>7, <2>1
<1>13. ASSUME bcPast'[b].ordered, ~bcPast'[b].deferred
       PROVE  /\ InOrder(new)
              /\ \A i, j \in Live(b) : i = j
              /\ \A i \in Live(b) :
                   /\ InOrder(bcRec'[i].receivers)
                   /\ \A z \in ToSet(new), y \in Rest(i)' : ~Before(y, z)
  <2>1. /\ InOrder(old) /\ Live(b) = {c} /\ InOrder(s)
        /\ \A z \in ToSet(old), y \in Rest(c) : ~Before(y, z)
    BY <1>1, <1>6, <1>8, <1>13 DEF ServiceFor
  <2>2. InOrder(new)
    BY <1>2, <1>4, <1>6, <1>7, <2>1, AppendInOrder
  <2>3. \A y \in Rest(c)' : ~Before(y, x)
    BY <1>1, <1>2, <1>3, <2>1 DEF InOrder
  <2> QED BY <1>3, <1>4, <1>7, <2>1, <2>2, <2>3
<1>14. \A i \in Live(b)' : \A y \in Rest(i)' : y \notin ToSet(bcPast'[b].served)
  BY <1>8, <1>10
<1>15. \A i, j \in Live(b)' : i # j => Rest(i)' \cap Rest(j)' = {}
  BY <1>11
<1>16. ~bcPast'[b].cut => \A y \in Receivers : y \in ToSet(bcPast'[b].served) \/ \E i \in Live(b)' : y \in Rest(i)'
  BY <1>8, <1>12
<1>17. bcPast'[b].ordered /\ ~bcPast'[b].deferred =>
              /\ InOrder(bcPast'[b].served)
              /\ \A i, j \in Live(b)' : i = j
              /\ \A i \in Live(b)' :
                   /\ InOrder(bcRec'[i].receivers)
                   /\ \A z \in ToSet(bcPast'[b].served), y \in Rest(i)' : ~Before(y, z)
  BY <1>8, <1>13
<1>18. IsInjective(bcPast'[b].served)
  BY <1>8, <1>9
<1> HIDE DEF InOrder, Before, Rest, Live
<1> QED BY <1>14, <1>15, <1>16, <1>17, <1>18 DEF ServiceFor

\* The broadcast of a record on a list or being processed
LEMMA OriginTypes ==
    ASSUME BcTypes, NEW i \in InUse
    PROVE  /\ i \in BcIds /\ bcRec[i].origin \in 1 .. bcUsed.sent
           /\ bcRec[i].origin \in 1 .. MaxBroadcasts /\ i \in Live(bcRec[i].origin)
<1>1. BcTypeOK /\ RecordsSound
  BY DEF BcTypes
<1>2. i \in BcIds /\ i \in Live(bcRec[i].origin)
  BY <1>1, LiveIs
<1>3. bcRec[i].origin \in 1 .. bcUsed.sent
  BY <1>1 DEF RecordsSound
<1> QED BY <1>1, <1>2, <1>3, UsedTypes

\* A quiet step serves nobody twice and nobody out of order.
LEMMA QuietService ==
    ASSUME BcCounted, BcTypes', ServiceSound, QuietAction
    PROVE  ServiceSound'
<1>0. BcTypes /\ BcTypeOK /\ BcTypeOK' /\ SplitsCounted /\ ResultOnce
  BY DEF BcCounted, BcTypes
<1>1. Quiet
  BY <1>0, QuietStep
<1>2. /\ \A b : Live(b)' = Live(b)
      /\ bcUsed'.sent = bcUsed.sent
  BY <1>0, <1>1, QuietCounted DEF Quiet, SamePlaces
<1>3. \A i \in BcIds : bcRec'[i].receivers = bcRec[i].receivers
  BY <1>1, QuietSame DEF SameRecord
<1>4. ASSUME NEW b \in 1 .. bcUsed.sent
      PROVE  /\ b \in 1 .. MaxBroadcasts /\ ServiceFor(b) /\ Live(b) \subseteq BcIds
             /\ bcPast[b] \in PastType /\ DOMAIN bcPast = 1 .. MaxBroadcasts
             /\ bcPast'[b].ordered = bcPast[b].ordered
             /\ bcPast[b].cut => bcPast'[b].cut
             /\ bcPast[b].deferred => bcPast'[b].deferred
  <2>1. b \in 1 .. MaxBroadcasts
    BY <1>0, UsedTypes
  <2>2. ServiceFor(b)
    BY ServiceParts
  <2>3. Live(b) \subseteq BcIds
    BY <1>0, LiveIs
  <2>4. bcPast[b] \in PastType /\ DOMAIN bcPast = 1 .. MaxBroadcasts
    BY <1>0, <2>1, PastTypes DEF BcTypeOK
  <2>5. PastGrows(b)
    BY <1>1, <2>1 DEF Quiet
  <2> QED BY <2>1, <2>2, <2>3, <2>4, <2>5 DEF PastGrows
<1>5. ASSUME NEW b \in 1 .. bcUsed.sent, \A i \in Live(b) : Due(i)' = Due(i),
             bcPast'[b].served = bcPast[b].served
      PROVE  ServiceFor(b)'
  <2>1. \A i \in Live(b) : Rest(i)' = Rest(i) /\ bcRec'[i].receivers = bcRec[i].receivers
    BY <1>3, <1>4, <1>5, RestSame
  <2> QED BY <1>2, <1>4, <1>5, <2>1, ServiceKept
<1>6. CASE DueSame
  <2>1. \A b \in 1 .. bcUsed.sent : ServiceFor(b)'
    BY <1>4, <1>5, <1>6 DEF DueSame
  <2> QED BY <1>2, <2>1, ServiceParts
<1>7. ASSUME NEW c \in BcIds, c = bcCurrent, DueMoves(c)
      PROVE  ServiceSound'
  <2>1. c \in InUse
    BY <1>7 DEF InUse, NoRecord, BcIds
  <2>2. PICK o : o = bcRec[c].origin
    OBVIOUS
  <2>3. o \in 1 .. bcUsed.sent /\ c \in Live(o)
    BY <1>0, <2>1, <2>2, OriginTypes
  <2>4. bcPast' = [bcPast EXCEPT ![o].served = Append(@, bcRec[c].receivers[Due(c)])]
    BY <1>7, <2>2 DEF DueMoves
  <2>5. bcPast'[o] = [bcPast[o] EXCEPT !.served = Append(bcPast[o].served, bcRec[c].receivers[Due(c)])]
    BY <1>4, <2>3, <2>4
  <2>6. ServiceFor(o)'
    <3>1. \A i \in Live(o) : bcRec'[i].receivers = bcRec[i].receivers /\ (i # c => Due(i)' = Due(i))
      BY <1>3, <1>4, <1>7, <2>3 DEF DueMoves
    <3>2. Due(c)' = Due(c) + 1 /\ Due(c) \in 1 .. Len(bcRec[c].receivers)
      BY <1>7 DEF DueMoves
    <3> QED BY <1>0, <1>2, <1>4, <2>3, <2>5, <3>1, <3>2, ServiceOne
  <2>7. ASSUME NEW b \in 1 .. bcUsed.sent, b # o PROVE ServiceFor(b)'
    <3>1. c \notin Live(b)
      BY <1>0, <2>2, <2>7, LiveIs
    <3>2. \A i \in Live(b) : Due(i)' = Due(i)
      BY <1>4, <1>7, <2>7, <3>1 DEF DueMoves
    <3>3. bcPast'[b] = bcPast[b]
      BY <1>4, <2>4, <2>7
    <3> QED BY <1>5, <2>7, <3>2, <3>3
  <2> QED BY <1>2, <2>6, <2>7, ServiceParts
<1>8. ASSUME NEW c \in BcIds, c = bcCurrent, DueDrops(c)
      PROVE  ServiceSound'
  <2>1. c \in InUse
    BY <1>8 DEF InUse, NoRecord, BcIds
  <2>2. PICK o : o = bcRec[c].origin
    OBVIOUS
  <2>3. o \in 1 .. bcUsed.sent /\ c \in Live(o)
    BY <1>0, <2>1, <2>2, OriginTypes
  <2>4. bcPast' = [bcPast EXCEPT ![o].cut = TRUE]
    BY <1>8, <2>2 DEF DueDrops
  <2>5. bcPast'[o].cut /\ bcPast'[o].served = bcPast[o].served
    BY <1>4, <2>3, <2>4 DEF PastType
  <2>6. ServiceFor(o)'
    <3>1. Rest(c)' \subseteq Rest(c)
      <4>1. bcRec'[c].receivers = bcRec[c].receivers /\ Due(c)' >= Due(c)
        BY <1>3, <1>8 DEF DueDrops
      <4>2. Due(c) \in Nat /\ Due(c)' \in Nat /\ Len(bcRec[c].receivers) \in Nat
        <5>1. bcRec[c].receivers \in Seq(Receivers)
          BY <1>0, RecordTypes
        <5>2. bcRec'[c].next \in Nat /\ bcPending'.index \in Nat
          BY <1>0 DEF BcTypeOK, RecType
        <5> QED BY <1>0, <5>1, <5>2, LenProperties, DueTypes DEF Due
      <4>3. \A k \in Due(c)' .. Len(bcRec[c].receivers) : k \in Due(c) .. Len(bcRec[c].receivers)
        BY <4>1, <4>2
      <4> QED BY <4>1, <4>3 DEF Rest
    <3>2. \A i \in Live(o) : i # c => Rest(i)' = Rest(i)
      BY <1>3, <1>4, <1>8, <2>3, RestSame DEF DueDrops
    <3>3. \A i \in Live(o) : Rest(i)' \subseteq Rest(i) /\ bcRec'[i].receivers = bcRec[i].receivers
      BY <1>3, <1>4, <2>3, <3>1, <3>2
    <3> QED BY <1>2, <1>4, <2>3, <2>5, <3>3, ServiceKept
  <2>7. ASSUME NEW b \in 1 .. bcUsed.sent, b # o PROVE ServiceFor(b)'
    <3>1. c \notin Live(b)
      BY <1>0, <2>2, <2>7, LiveIs
    <3>2. \A i \in Live(b) : Due(i)' = Due(i)
      BY <1>4, <1>8, <2>7, <3>1 DEF DueDrops
    <3>3. bcPast'[b] = bcPast[b]
      BY <1>4, <2>4, <2>7
    <3> QED BY <1>5, <2>7, <3>2, <3>3
  <2> QED BY <1>2, <2>6, <2>7, ServiceParts
<1> QED BY <1>0, <1>6, <1>7, <1>8, DueStep

\* A record that is retired owes nothing, unless it was cut short.
LEMMA RetireService ==
    ASSUME BcCounted, BcTypes', ServiceSound, LoopRetire
    PROVE  ServiceSound'
<1>0. BcTypes /\ BcTypeOK /\ BcTypeOK' /\ RecordsSound
  BY DEF BcCounted, BcTypes
<1>1. /\ bcCurrent \in InUse /\ InUse' = InUse \ {bcCurrent}
      /\ \A i \in InUse' : bcRec'[i] = bcRec[i]
      /\ bcUsed' = bcUsed /\ bcPending' = bcPending
      /\ \A b \in 1 .. MaxBroadcasts :
            /\ PastKept(b) /\ bcPast'[b].served = bcPast[b].served
            /\ bcPast'[b].cut = bcPast[b].cut /\ bcPast'[b].deferred = bcPast[b].deferred
  BY <1>0, RetireSound
<1>2. PICK c : c = bcCurrent
  OBVIOUS
<1>3. \A i \in InUse' : Rest(i)' = Rest(i)
  BY <1>1, RestSame DEF Due
<1>4. Rest(c) = {} \/ bcPast[bcRec[c].origin].cut
  <2>1. AtLoop /\ Cur.state = "IDLE" /\ Finished /\ bcCurrent # NoRecord
    BY DEF LoopRetire, AtLoop
  <2>2. Due(c) = Cur.next /\ Cur = bcRec[c] /\ c \in BcIds
    BY <1>0, <1>2, <2>1, DueNow
  <2>3. CASE Cur.over
    BY <1>0, <1>1, <1>2, <2>2, <2>3 DEF RecordsSound
  <2>4. CASE Cur.next > Len(Cur.receivers)
    <3>1. Cur.next \in Nat /\ Len(Cur.receivers) \in Nat
      <4>1. Cur.receivers \in Seq(Receivers) /\ Cur.next \in Nat
        BY <1>0, <2>2, RecordTypes
      <4> QED BY <4>1, LenProperties
    <3>2. Due(c) .. Len(bcRec[c].receivers) = {}
      BY <2>2, <2>4, <3>1
    <3> QED BY <3>2 DEF Rest
  <2> QED BY <2>1, <2>3, <2>4 DEF Finished
<1>5. ASSUME NEW b \in 1 .. bcUsed.sent PROVE ServiceFor(b)'
  <2>1. b \in 1 .. MaxBroadcasts /\ ServiceFor(b)
    BY <1>0, UsedTypes, ServiceParts
  <2>2. /\ Live(b) = {i \in InUse : bcRec[i].origin = b}
        /\ Live(b)' = {i \in InUse' : bcRec'[i].origin = b}
    BY <1>0, LiveIs, LiveIsNext
  <2>3. Live(b)' \subseteq Live(b) /\ Live(b)' \subseteq InUse'
    BY <1>1, <2>2
  <2>4. Live(b) \subseteq Live(b)' \cup {c}
    BY <1>1, <1>2, <2>2
  <2>5. /\ bcPast'[b].served = bcPast[b].served /\ bcPast'[b].ordered = bcPast[b].ordered
        /\ bcPast'[b].cut = bcPast[b].cut /\ bcPast'[b].deferred = bcPast[b].deferred
    BY <1>1, <2>1 DEF PastKept
  <2>6. \A i \in Live(b)' : Rest(i)' \subseteq Rest(i) /\ bcRec'[i].receivers = bcRec[i].receivers
    BY <1>1, <1>3, <2>3
  <2>7. ASSUME ~bcPast'[b].cut, NEW i \in Live(b), NEW x \in Rest(i) PROVE \E j \in Live(b)' : x \in Rest(j)'
    <3>1. i # c
      BY <1>4, <2>2, <2>5, <2>7
    <3>2. i \in Live(b)'
      BY <2>4, <3>1
    <3> QED BY <1>3, <2>3, <2>7, <3>2
  <2> QED BY <2>1, <2>3, <2>5, <2>6, <2>7, ServiceKept
<1> QED BY <1>1, <1>5, ServiceParts

\* The parallel broadcasts serve everybody at once; the rest of processNextBroadcastLocked
\* before its loop serves nobody.
LEMMA BeginService ==
    ASSUME BcCounted, BcTypes', ServiceSound, ProcessBegin
    PROVE  ServiceSound'
<1>0. BcTypes /\ BcTypeOK /\ BcTypeOK' /\ RecordsSound /\ RecordsPlaced
  BY DEF BcCounted, BcTypes
<1>1. /\ InUse' = InUse \ ToSet(bcParallel) /\ InUse \subseteq BcIds /\ bcUsed' = bcUsed
      /\ \A i \in InUse' : SameRecord(i) /\ Due(i)' = Due(i)
      /\ \A b \in 1 .. MaxBroadcasts :
            /\ PastGrows(b)
            /\ IF \E i \in ToSet(bcParallel) : bcRec[i].origin = b
                 THEN bcPast'[b] = [bcPast[b] EXCEPT !.served = bcPast[b].served \o Registered]
                 ELSE bcPast'[b] = bcPast[b]
  BY <1>0, BeginEffects, BeginPlaced, BeginSound, LiveIs
<1>2. \A i \in InUse' : Rest(i)' = Rest(i) /\ bcRec'[i].receivers = bcRec[i].receivers
  BY <1>1, RestSame DEF SameRecord
<1>3. ASSUME NEW b \in 1 .. bcUsed.sent PROVE ServiceFor(b)'
  <2>1. b \in 1 .. MaxBroadcasts /\ ServiceFor(b) /\ bcPast[b] \in PastType
    BY <1>0, UsedTypes, ServiceParts, PastTypes
  <2>2. /\ Live(b) = {i \in InUse : bcRec[i].origin = b}
        /\ Live(b)' = {i \in InUse' : bcRec'[i].origin = b}
    BY <1>0, LiveIs, LiveIsNext
  <2>3. Live(b)' \subseteq Live(b) \ ToSet(bcParallel) /\ Live(b) \ ToSet(bcParallel) \subseteq Live(b)'
        /\ Live(b)' \subseteq InUse'
    BY <1>1, <2>2 DEF SameRecord
  <2>4. CASE ~\E i \in ToSet(bcParallel) : bcRec[i].origin = b
    <3>1. Live(b)' = Live(b) /\ bcPast'[b] = bcPast[b]
      <4>1. Live(b) \cap ToSet(bcParallel) = {}
        BY <2>2, <2>4
      <4> QED BY <1>1, <2>1, <2>3, <2>4, <4>1
    <3>2. \A i \in Live(b) : i \in Live(b)' /\ Rest(i)' = Rest(i)
      BY <1>2, <2>3, <3>1
    <3> QED BY <1>2, <2>1, <2>3, <3>1, <3>2, ServiceKept
  <2>5. CASE \E i \in ToSet(bcParallel) : bcRec[i].origin = b
    <3>1. PICK p \in ToSet(bcParallel) : bcRec[p].origin = b
      BY <2>5
    <3>2. \A i \in ToSet(bcParallel) : Rest(i) = ToSet(Registered) /\ i \in InUse
      <4> SUFFICES ASSUME NEW i \in ToSet(bcParallel) PROVE Rest(i) = ToSet(Registered) /\ i \in InUse
        OBVIOUS
      <4>1. i \in InUse /\ i \in BcIds /\ i # bcCurrent /\ i # NoRecord
        <5>1. i \in InUse
          BY DEF InUse
        <5>2. i \in BcIds
          BY <1>1, <5>1
        <5> QED BY <1>0, <5>1, <5>2 DEF RecordsPlaced, NoRecord, BcIds
      <4>2. bcPending.id # i
        BY <1>0, <4>1 DEF BcTypes, WaitsArmed
      <4>3. bcRec[i].receivers = Registered /\ Due(i) = 1
        BY <1>0, <4>2 DEF Due, RecordsSound
      <4>4. DOMAIN Registered = 1 .. Len(Registered)
        BY ReceiverLists, LenProperties
      <4> QED BY <4>1, <4>3, <4>4 DEF Rest, ToSet
    <3>3. ToSet(Registered) # {} /\ ToSet(Registered) \subseteq Receivers
      <4>1. Registered # <<>> /\ Registered \in Seq(Receivers)
        BY <1>0, ReceiverLists DEF RecordsSound
      <4> QED BY <4>1, Elements
    <3>4. \A i \in ToSet(bcParallel) : bcRec[i].origin = b => i = p
      <4> SUFFICES ASSUME NEW i \in ToSet(bcParallel), bcRec[i].origin = b, i # p PROVE FALSE
        OBVIOUS
      <4>1. i \in Live(b) /\ p \in Live(b)
        BY <2>2, <3>1, <3>2
      <4>2. Rest(i) \cap Rest(p) = {}
        BY <2>1, <4>1 DEF ServiceFor
      <4> QED BY <3>2, <3>3, <4>2
    <3>5. Live(b)' = Live(b) \ {p} /\ p \in Live(b)
      <4>1. p \in Live(b)
        BY <2>2, <3>1, <3>2
      <4>2. Live(b) \ ToSet(bcParallel) = Live(b) \ {p}
        BY <2>2, <3>1, <3>4
      <4> QED BY <2>3, <4>1, <4>2
    <3>6. PICK old, new : old = bcPast[b].served /\ new = old \o Registered
      OBVIOUS
    <3>7. /\ old \in Seq(Receivers) /\ IsInjective(old) /\ ToSet(new) = ToSet(old) \cup ToSet(Registered)
          /\ IsInjective(new) /\ ToSet(old) \cap ToSet(Registered) = {}
      <4>1. old \in Seq(Receivers) /\ IsInjective(old)
        BY <2>1, <3>6 DEF PastType, ServiceFor
      <4>2. ToSet(old) \cap ToSet(Registered) = {}
        BY <2>1, <3>1, <3>2, <3>5, <3>6 DEF ServiceFor
      <4>3. Registered \in Seq(Receivers) /\ IsInjective(Registered)
        BY ReceiverLists
      <4> QED BY <3>6, <4>1, <4>2, <4>3, TwoLists
    <3>8. /\ bcPast'[b].served = new /\ bcPast'[b].cut = bcPast[b].cut
          /\ bcPast'[b].ordered = bcPast[b].ordered
      <4>1. bcPast'[b] = [bcPast[b] EXCEPT !.served = new]
        BY <1>1, <2>1, <2>5, <3>6
      <4> QED BY <2>1, <4>1 DEF PastType
    <3>9. ~bcPast[b].ordered
      BY <1>0, <3>1 DEF RecordsSound
    <3>10. \A i \in Live(b)' : Rest(i)' = Rest(i) /\ i \in Live(b) /\ i # p
      BY <1>2, <2>3, <3>5
    <3>11. ASSUME NEW i \in Live(b)', NEW x \in Rest(i)' PROVE x \notin ToSet(bcPast'[b].served)
      <4>1. x \in Rest(i) /\ i \in Live(b) /\ Rest(i) \cap Rest(p) = {} /\ x \notin ToSet(old)
        BY <2>1, <3>5, <3>6, <3>10, <3>11 DEF ServiceFor
      <4> QED BY <3>1, <3>2, <3>7, <3>8, <4>1
    <3>12. \A i, j \in Live(b)' : i # j => Rest(i)' \cap Rest(j)' = {}
      BY <2>1, <3>10 DEF ServiceFor
    <3>13. ASSUME ~bcPast'[b].cut, NEW x \in Receivers
           PROVE  x \in ToSet(bcPast'[b].served) \/ \E i \in Live(b)' : x \in Rest(i)'
      <4>1. x \in ToSet(old) \/ \E i \in Live(b) : x \in Rest(i)
        BY <2>1, <3>6, <3>8, <3>13 DEF ServiceFor
      <4>2. \A i \in Live(b) : i = p \/ i \in Live(b)'
        BY <3>5
      <4> QED BY <3>1, <3>2, <3>7, <3>8, <3>10, <4>1, <4>2
    <3>14. IsInjective(bcPast'[b].served) /\ ~bcPast'[b].ordered
      BY <3>7, <3>8, <3>9
    <3> QED BY <3>11, <3>12, <3>13, <3>14 DEF ServiceFor
  <2> QED BY <2>4, <2>5
<1> QED BY <1>1, <1>3, ServiceParts

\* A split leaves each receiver who is due in one of the two parts.
LEMMA SplitService ==
    ASSUME BcCounted, BcTypes', ServiceSound, LoopDefer, Cur.next # Len(Cur.receivers)
    PROVE  ServiceSound'
<1>0. BcTypes /\ BcTypeOK /\ BcTypeOK' /\ RecordsSound /\ RecordsPlaced
  BY DEF BcCounted, BcTypes
<1>1. PICK c, part, token : c = bcCurrent /\ part = Part /\ SplitRecords(c, part, token)
  BY <1>0, SplitEffects
<1>2. InUse' = InUse \cup {part} /\ \A b \in 1 .. MaxBroadcasts : PastGrows(b)
  BY <1>0, <1>1, SplitSound
<1>3. PICK o : o = bcRec[c].origin
  OBVIOUS
<1>4. /\ part \notin InUse /\ part # c /\ c \in InUse /\ bcUsed'.sent = bcUsed.sent
      /\ \A i \in InUse : i # c => bcRec'[i] = bcRec[i] /\ Rest(i)' = Rest(i)
      /\ \A i \in {c, part} : bcRec'[i].origin = o
      /\ Rest(c)' \cup Rest(part)' = Rest(c) /\ Rest(c)' \cap Rest(part)' = {}
      /\ bcPast' = [bcPast EXCEPT ![o].deferred = TRUE]
  <2>1. InUse \subseteq BcIds
    BY <1>0, LiveIs
  <2>2. \A i \in InUse : i # c => bcRec'[i] = bcRec[i] /\ Due(i)' = Due(i)
    BY <1>1, <2>1 DEF SplitRecords, Due
  <2>3. \A i \in InUse : i # c => bcRec'[i] = bcRec[i] /\ Rest(i)' = Rest(i)
    BY <2>2, RestSame
  <2> QED BY <1>1, <1>3, <2>1, <2>3 DEF SplitRecords
<1>5. o \in 1 .. bcUsed.sent
  BY <1>0, <1>3, <1>4 DEF RecordsSound
<1>6. /\ \A b : Live(b) = {i \in InUse : bcRec[i].origin = b}
      /\ \A b : Live(b)' = {i \in InUse' : bcRec'[i].origin = b}
  BY <1>0, LiveIs, LiveIsNext
<1>7. ASSUME NEW b \in 1 .. bcUsed.sent
      PROVE  b \in 1 .. MaxBroadcasts /\ ServiceFor(b) /\ bcPast[b] \in PastType /\ DOMAIN bcPast = 1 .. MaxBroadcasts
  BY <1>0, UsedTypes, ServiceParts, PastTypes DEF BcTypeOK
<1>8. ASSUME NEW b \in 1 .. bcUsed.sent, b # o PROVE ServiceFor(b)'
  <2>1. bcPast'[b] = bcPast[b]
    BY <1>4, <1>7, <1>8
  <2>2. Live(b) \subseteq Live(b)'
    BY <1>2, <1>3, <1>4, <1>6, <1>8
  <2>3. Live(b)' \subseteq Live(b)
    BY <1>2, <1>4, <1>6, <1>8
  <2>4. \A i \in Live(b) : i \in InUse /\ i # c
    BY <1>3, <1>6, <1>8
  <2>5. \A i \in Live(b) : i \in Live(b)' /\ Rest(i)' = Rest(i) /\ bcRec'[i].receivers = bcRec[i].receivers
    BY <1>4, <2>2, <2>4
  <2> QED BY <1>7, <2>1, <2>3, <2>5, ServiceKept
<1>9. ServiceFor(o)'
  <2>1. /\ bcPast'[o].deferred /\ bcPast'[o].served = bcPast[o].served /\ bcPast'[o].cut = bcPast[o].cut
    <3>1. bcPast'[o] = [bcPast[o] EXCEPT !.deferred = TRUE]
      BY <1>4, <1>5, <1>7
    <3> QED BY <1>5, <1>7, <3>1 DEF PastType
  <2>2. Live(o)' = Live(o) \cup {part} /\ c \in Live(o) /\ part \notin Live(o)
    <3>1. c \in Live(o) /\ part \notin Live(o) /\ c \in Live(o)' /\ part \in Live(o)'
      BY <1>2, <1>3, <1>4, <1>6
    <3>2. Live(o)' \subseteq Live(o) \cup {part}
      BY <1>2, <1>4, <1>6, <3>1
    <3>3. Live(o) \subseteq Live(o)'
      BY <1>2, <1>4, <1>6, <3>1
    <3> QED BY <3>1, <3>2, <3>3
  <2>3. ServiceFor(o)
    BY <1>5, <1>7
  <2>4. \A i \in Live(o) : i # c => Rest(i)' = Rest(i)
    BY <1>4, <1>6
  <2>5. Rest(c)' \subseteq Rest(c) /\ Rest(part)' \subseteq Rest(c)
    BY <1>4
  <2>6. ASSUME NEW i \in Live(o)', NEW x \in Rest(i)' PROVE x \notin ToSet(bcPast'[o].served)
    <3>1. PICK j \in Live(o) : x \in Rest(j)
      BY <2>2, <2>4, <2>5, <2>6
    <3> QED BY <2>1, <2>3, <3>1 DEF ServiceFor
  <2>7. ASSUME NEW i \in Live(o)', NEW j \in Live(o)', i # j PROVE Rest(i)' \cap Rest(j)' = {}
    <3>1. CASE i \in {c, part} /\ j \in {c, part}
      BY <1>4, <2>7, <3>1
    <3>2. CASE i \in {c, part} /\ j \in Live(o) \ {c}
      <4>1. Rest(c) \cap Rest(j) = {} /\ Rest(j)' = Rest(j) /\ Rest(i)' \subseteq Rest(c)
        BY <2>2, <2>3, <2>4, <2>5, <3>2 DEF ServiceFor
      <4> QED BY <4>1
    <3>3. CASE j \in {c, part} /\ i \in Live(o) \ {c}
      <4>1. Rest(i) \cap Rest(c) = {} /\ Rest(i)' = Rest(i) /\ Rest(j)' \subseteq Rest(c)
        BY <2>2, <2>3, <2>4, <2>5, <3>3 DEF ServiceFor
      <4> QED BY <4>1
    <3>4. CASE i \in Live(o) \ {c} /\ j \in Live(o) \ {c}
      BY <2>3, <2>4, <2>7, <3>4 DEF ServiceFor
    <3> QED BY <2>2, <3>1, <3>2, <3>3, <3>4
  <2>8. ASSUME ~bcPast'[o].cut, NEW x \in Receivers
        PROVE  x \in ToSet(bcPast'[o].served) \/ \E i \in Live(o)' : x \in Rest(i)'
    <3>1. x \in ToSet(bcPast[o].served) \/ \E i \in Live(o) : x \in Rest(i)
      BY <2>1, <2>3, <2>8 DEF ServiceFor
    <3>2. \A i \in Live(o) : x \in Rest(i) => \E j \in Live(o)' : x \in Rest(j)'
      BY <1>4, <2>2, <2>4
    <3> QED BY <2>1, <3>1, <3>2
  <2>9. IsInjective(bcPast'[o].served)
    BY <2>1, <2>3 DEF ServiceFor
  <2> QED BY <2>1, <2>6, <2>7, <2>8, <2>9 DEF ServiceFor
<1> QED BY <1>4, <1>8, <1>9, ServiceParts

\* A new record has all its receivers to deliver to.
LEMMA NewRest ==
    ASSUME BcTypes, BcTypeOK', NEW i \in BcIds \ InUse, bcPending' = bcPending,
           bcRec'[i].next = 1
    PROVE  Rest(i)' = ToSet(bcRec'[i].receivers)
<1>1. i # NoRecord /\ bcPending.id # i
  <2>1. i # NoRecord
    BY DEF BcIds, NoRecord
  <2>2. bcPending.id # NoRecord => bcPending.id \in InUse
    BY DEF BcTypes, WaitsArmed, InUse
  <2> QED BY <2>1, <2>2
<1>2. Due(i)' = 1
  BY <1>1 DEF Due
<1>3. PICK s \in Seq(Receivers) : s = bcRec'[i].receivers
  BY DEF BcTypeOK, RecType
<1>4. ToSet(s) = {s[k] : k \in 1 .. Len(s)}
  BY LenProperties DEF ToSet
<1> QED BY <1>2, <1>3, <1>4 DEF Rest

\* A new broadcast has all receivers due, each in one record, in order.
LEMMA SendService ==
    ASSUME BcCounted, BcTypes', ServiceSound, NEW ordered \in BOOLEAN, NEW resultTo \in BOOLEAN,
           NEW replace \in BOOLEAN, broadcastIntentLocked(ordered, resultTo, replace)
    PROVE  ServiceSound'
<1>0. BcTypes /\ BcTypeOK /\ BcTypeOK' /\ RecordsSound /\ RecordsPlaced
  BY DEF BcCounted, BcTypes
<1>1. PICK b, id, ps, do, dropped :
         /\ SendRecords(b, id, ps, do, dropped, ordered, resultTo)
         /\ \A c \in 1 .. MaxBroadcasts : c # b => SendPast(c, do, dropped)
  BY <1>0, SendEffects
<1>2. /\ \A i \in InUse : bcRec[i].origin \in 1 .. bcUsed.sent /\ bcRec[i].origin # b
      /\ \A c \in 1 .. MaxBroadcasts : PastKept(c) \/ c = b
      /\ \A c \in 1 .. MaxBroadcasts : c # b =>
            /\ bcPast'[c].served = bcPast[c].served /\ bcPast'[c].deferred = bcPast[c].deferred
            /\ bcPast'[c].cut <=> bcPast[c].cut \/ \E d \in dropped : bcRec[d].origin = c
      /\ bcPast'[b].ordered = ordered /\ bcPast'[b].served = <<>> /\ ~bcPast'[b].cut
  BY <1>0, <1>1, SendSound
<1>3. /\ b = bcUsed.sent + 1 /\ bcUsed'.sent = b /\ id \notin InUse /\ ps \cap InUse = {} /\ id \notin ps
      /\ (ps # {} => ~ordered /\ Registered # <<>>) /\ (~ordered /\ Registered # <<>> => ps # {})
      /\ \A i, j \in ps : i = j
      /\ InUse' = (InUse \ dropped) \cup ({id} \cup ps) /\ bcPending' = bcPending
      /\ \A i \in InUse : bcRec'[i] = bcRec[i]
      /\ id \in BcIds \ InUse /\ \A i \in ps : i \in BcIds \ InUse
      /\ b \in 1 .. MaxBroadcasts
  <2>1. SendRecords(b, id, ps, do, dropped, ordered, resultTo)
    BY <1>1
  <2>2. id \in BcIds \ InUse /\ ps \subseteq BcIds \ InUse
    BY <2>1 DEF SendRecords
  <2>3. ps \cap InUse = {} /\ \A i \in ps : i \in BcIds \ InUse
    BY <2>2
  <2> QED BY <2>1, <2>2, <2>3 DEF SendRecords
<1>4. PICK receivers : receivers = IF ordered THEN Merged(Components, Registered) ELSE Components
  OBVIOUS
<1>5. /\ bcRec'[id].receivers = receivers /\ bcRec'[id].next = 1 /\ bcRec'[id].origin = b
      /\ \A p \in ps : bcRec'[p].receivers = Registered /\ bcRec'[p].next = 1 /\ bcRec'[p].origin = b
  <2>1. b \in 0 .. MaxBroadcasts /\ Registered \in Seq(Receivers) /\ receivers \in Seq(Receivers)
    BY <1>3, <1>4, ReceiverLists, MergedInOrder
  <2>2. bcRec'[id] = NewRecord(b, receivers, ordered, resultTo)
    BY <1>1, <1>4 DEF SendRecords
  <2>3. PICK no \in BOOLEAN : no = FALSE
    OBVIOUS
  <2>4. \A p \in ps : bcRec'[p] = NewRecord(b, Registered, no, no)
    BY <1>1, <2>3 DEF SendRecords
  <2>5. bcRec'[id].receivers = receivers /\ bcRec'[id].next = 1 /\ bcRec'[id].origin = b
    BY <2>1, <2>2, NewRecordType
  <2>6. /\ NewRecord(b, Registered, no, no).receivers = Registered
        /\ NewRecord(b, Registered, no, no).next = 1 /\ NewRecord(b, Registered, no, no).origin = b
    BY <2>1, NewRecordType
  <2> QED BY <2>4, <2>5, <2>6
<1>6. /\ \A c : Live(c) = {i \in InUse : bcRec[i].origin = c}
      /\ \A c : Live(c)' = {i \in InUse' : bcRec'[i].origin = c}
  BY <1>0, LiveIs, LiveIsNext
<1>7. ServiceFor(b)'
  <2>1. Live(b)' = {id} \cup ps
    <3>1. {id} \cup ps \subseteq Live(b)'
      BY <1>3, <1>5, <1>6
    <3>2. Live(b)' \subseteq {id} \cup ps
      BY <1>2, <1>3, <1>6
    <3> QED BY <3>1, <3>2
  <2>2. Rest(id)' = ToSet(receivers) /\ \A p \in ps : Rest(p)' = ToSet(Registered)
    BY <1>0, <1>3, <1>5, NewRest
  <2>3. ToSet(<<>>) = {} /\ IsInjective(<<>>)
    BY EmptyList
  <2>4. Registered = <<>> => ToSet(Registered) = {}
    BY <2>3
  <2>5. ordered => ToSet(receivers) = Receivers /\ InOrder(receivers)
    BY <1>4, MergedInOrder
  <2>6. ~ordered => receivers = Components
    BY <1>4
  <2>7. ToSet(Registered) \cap ToSet(Components) = {} /\ Receivers = ToSet(Registered) \cup ToSet(Components)
    BY ReceiverLists DEF Receivers
  <2>8. \A i \in Live(b)' : \A x \in Rest(i)' : x \notin ToSet(bcPast'[b].served)
    BY <1>2, <2>3
  <2>9. \A i, j \in Live(b)' : i # j => Rest(i)' \cap Rest(j)' = {}
    <3> SUFFICES ASSUME NEW i \in Live(b)', NEW j \in Live(b)', i # j PROVE Rest(i)' \cap Rest(j)' = {}
      OBVIOUS
    <3>1. (i = id /\ j \in ps) \/ (i \in ps /\ j = id)
      BY <1>3, <2>1
    <3>2. receivers = Components
      BY <1>3, <2>6, <3>1
    <3> QED BY <2>2, <2>7, <3>1, <3>2
  <2>10. ASSUME NEW x \in Receivers PROVE \E i \in Live(b)' : x \in Rest(i)'
    <3>1. CASE ordered
      BY <2>1, <2>2, <2>5, <3>1
    <3>2. CASE ~ordered /\ Registered = <<>>
      <4>1. x \in ToSet(receivers)
        BY <2>4, <2>6, <2>7, <3>2
      <4> QED BY <2>1, <2>2, <4>1
    <3>3. CASE ~ordered /\ Registered # <<>>
      <4>1. PICK p : p \in ps
        BY <1>3, <3>3
      <4>2. x \in Rest(id)' \/ x \in Rest(p)'
        BY <2>2, <2>6, <2>7, <3>3, <4>1
      <4> QED BY <2>1, <4>1, <4>2
    <3> QED BY <3>1, <3>2, <3>3
  <2>11. ASSUME bcPast'[b].ordered
         PROVE  /\ InOrder(bcPast'[b].served)
                /\ \A i, j \in Live(b)' : i = j
                /\ \A i \in Live(b)' :
                     /\ InOrder(bcRec'[i].receivers)
                     /\ \A x \in ToSet(bcPast'[b].served), y \in Rest(i)' : ~Before(y, x)
    <3>1. Live(b)' = {id}
      BY <1>2, <1>3, <2>1, <2>11
    <3>2. InOrder(<<>>)
      BY EmptySeq DEF InOrder
    <3> QED BY <1>2, <1>5, <2>3, <2>5, <2>11, <3>1, <3>2
  <2>12. IsInjective(bcPast'[b].served)
    BY <1>2, <2>3
  <2> QED BY <2>8, <2>9, <2>10, <2>11, <2>12 DEF ServiceFor
<1>8. ASSUME NEW c \in 1 .. bcUsed.sent PROVE ServiceFor(c)'
  <2>1. c \in 1 .. MaxBroadcasts /\ c # b /\ ServiceFor(c)
    <3>1. bcUsed.sent \in Nat /\ c \in 1 .. MaxBroadcasts
      BY <1>0, UsedTypes
    <3> QED BY <1>3, <3>1, ServiceParts
  <2>2. Live(c)' \subseteq Live(c) \ dropped /\ Live(c) \ dropped \subseteq Live(c)'
    <3>1. Live(c)' \subseteq Live(c) \ dropped
      BY <1>3, <1>5, <1>6, <2>1
    <3>2. Live(c) \ dropped \subseteq Live(c)'
      BY <1>3, <1>6
    <3> QED BY <3>1, <3>2
  <2>3. \A i \in InUse : Rest(i)' = Rest(i) /\ bcRec'[i].receivers = bcRec[i].receivers
    BY <1>3, RestSame DEF Due
  <2>4. /\ bcPast'[c].served = bcPast[c].served /\ bcPast'[c].deferred = bcPast[c].deferred
        /\ bcPast'[c].ordered = bcPast[c].ordered
        /\ bcPast[c].cut => bcPast'[c].cut
        /\ ~bcPast'[c].cut => \A d \in dropped : bcRec[d].origin # c
    BY <1>2, <2>1 DEF PastKept
  <2>5. Live(c) \subseteq InUse
    BY <1>6
  <2>6. \A i \in Live(c)' : Rest(i)' \subseteq Rest(i) /\ bcRec'[i].receivers = bcRec[i].receivers
    BY <2>2, <2>3, <2>5
  <2>7. ASSUME ~bcPast'[c].cut, NEW i \in Live(c), NEW x \in Rest(i) PROVE \E j \in Live(c)' : x \in Rest(j)'
    <3>1. i \notin dropped
      BY <1>6, <2>4, <2>7
    <3>2. i \in Live(c)'
      BY <2>2, <3>1
    <3> QED BY <2>3, <2>5, <2>7, <3>2
  <2> QED BY <2>1, <2>2, <2>4, <2>6, <2>7, ServiceKept
<1>9. \A c \in 1 .. bcUsed'.sent : ServiceFor(c)'
  <2>1. \A c \in 1 .. bcUsed'.sent : c = b \/ c \in 1 .. bcUsed.sent
    <3>1. bcUsed.sent \in Nat
      BY <1>0, UsedTypes
    <3> QED BY <1>3, <3>1
  <2> QED BY <1>7, <1>8, <2>1
<1> QED BY <1>9, ServiceParts

\* Every step keeps the service right.
LEMMA ServiceStep ==
    ASSUME BcCounted, ServiceSound, [BcNext]_bcVars
    PROVE  ServiceSound'
<1>0. BcTypes /\ BcTypes' /\ BcTypeOK /\ BcTypeOK'
  <2>1. BcTypes'
    BY BcTypesStep DEF BcCounted
  <2> QED BY <2>1 DEF BcCounted, BcTypes
<1>1. CASE UNCHANGED bcVars
  <2>1. bcRec' = bcRec /\ bcUsed' = bcUsed /\ bcPast' = bcPast /\ bcPending' = bcPending
    BY <1>1 DEF bcVars
  <2>2. InUse' = InUse
    BY <1>1 DEF bcVars, InUse
  <2>3. \A b : Live(b)' = Live(b)
    BY <1>0, <2>1, <2>2, LiveIs, LiveIsNext
  <2>4. \A i : Rest(i)' = Rest(i)
    BY <2>1, RestSame DEF Due
  <2>5. \A b \in 1 .. bcUsed.sent : ServiceFor(b)'
    BY <2>1, <2>3, <2>4, ServiceParts, ServiceKept
  <2> QED BY <2>1, <2>5, ServiceParts
<1>2. CASE QuietAction
  BY <1>0, <1>2, QuietService
<1>3. ASSUME NEW ordered \in BOOLEAN, NEW resultTo \in BOOLEAN, NEW replace \in BOOLEAN,
             broadcastIntentLocked(ordered, resultTo, replace)
      PROVE  ServiceSound'
  BY <1>0, <1>3, SendService
<1>4. CASE ProcessBegin
  BY <1>0, <1>4, BeginService
<1>5. CASE LoopRetire
  BY <1>0, <1>5, RetireService
<1>6. CASE LoopDefer /\ Cur.next # Len(Cur.receivers)
  BY <1>0, <1>6, SplitService
<1> QED BY <1>1, <1>2, <1>3, <1>4, <1>5, <1>6 DEF BcNext, processNextBroadcastLocked, QuietAction

\* Every step keeps the invariant.
LEMMA BcInvStep == BcInv /\ [BcNext]_bcVars => BcInv'
<1> SUFFICES ASSUME BcInv, [BcNext]_bcVars PROVE BcInv'
  OBVIOUS
<1>1. BcCounted /\ BcTypes
  BY DEF BcInv, BcCounted, BcTypes
<1>2. BcCounted'
  BY <1>1, BcCountedStep
<1>3. ServiceSound'
  BY <1>1, ServiceStep DEF BcInv
<1>4. QueueMoves'
  BY <1>1, QueueMovesStep DEF BcInv
<1> QED BY <1>2, <1>3, <1>4 DEF BcInv, BcCounted, BcTypes

\* The invariant implies what is claimed of the service.
LEMMA ServedIn ==
    ASSUME BcInv
    PROVE  ServedOnceInOrder
<1> SUFFICES ASSUME NEW b \in 1 .. bcUsed.sent
             PROVE  /\ IsInjective(bcPast[b].served)
                    /\ bcPast[b].ordered /\ ~bcPast[b].deferred =>
                         \A i, j \in DOMAIN bcPast[b].served :
                            i < j => ~Before(bcPast[b].served[j], bcPast[b].served[i])
                    /\ Live(b) = {} /\ ~bcPast[b].cut => ToSet(bcPast[b].served) = Receivers
  BY DEF ServedOnceInOrder
<1>1. ServiceFor(b) /\ BcTypeOK
  BY ServiceParts DEF BcInv
<1>2. bcPast[b].served \in Seq(Receivers)
  BY <1>1, UsedTypes, PastTypes
<1>3. DOMAIN bcPast[b].served = 1 .. Len(bcPast[b].served) /\ ToSet(bcPast[b].served) \subseteq Receivers
  BY <1>2, LenProperties, Elements
<1> QED BY <1>1, <1>3 DEF ServiceFor, InOrder

\* The whole invariant of the broadcast queue is inductive.
THEOREM BcInvariance == BcSpec => []BcInv
<1>1. BcInit => BcInv
  <2> SUFFICES ASSUME BcInit PROVE BcInv
    OBVIOUS
  <2>1. BcTypes
    BY BcTypesInit
  <2>2. InUse = {}
    BY DEF BcInit, InUse, ToSet
  <2>3. SplitsCounted /\ ResultOnce
    BY <2>2 DEF SplitsCounted, ResultOnce, BcInit
  <2>4. ServiceSound
    BY DEF ServiceSound, BcInit
  <2>5. QueueMoves
    BY DEF QueueMoves, BcInit
  <2> QED BY <2>1, <2>3, <2>4, <2>5 DEF BcInv, BcTypes
<1> QED BY <1>1, BcInvStep, PTL DEF BcSpec

\* No receiver gets a broadcast twice, an ordered one is served by priority unless it was
\* deferred, and a broadcast that is done without being cut short reached everybody
\* (broadcastIntentLocked, processNextBroadcastLocked, finishReceiverLocked,
\* broadcastTimeoutLocked, splitRecipientsLocked), whatever the receivers.
THEOREM ServedOnceInOrderAlways == BcSpec => []ServedOnceInOrder
BY BcInvariance, ServedIn, PTL

=============================================================================
