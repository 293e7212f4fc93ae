------------------------------ MODULE AQSProofs ------------------------------
(***************************************************************************)
(* Proofs about the synchronization queue, for any number of threads and   *)
(* any programs, with and without conditions: its inductive invariant, and *)
(* the steps that leave the history of the queue alone.                    *)
(***************************************************************************)
EXTENDS AQSCondition, SequenceTheorems, FiniteSetTheorems, TLAPS

CancelledNodes == {n \in Nodes : node[n].ws = CANCELLED}
Prev == [n \in Nodes |-> node[n].prev]

\* The place of node n in the history o of the queue; the node that enq creates is before all others.
Place(o, n) == IF n = Dummy THEN 0 ELSE CHOOSE k \in 1 .. Len(o) : o[k] = n

\* The nodes that were ever in the queue
Queued(o) == Range(o) \cup {Dummy}

\* The prev link of n leads back in the history, and past cancelled nodes only.
Bypasses(o, pv, C, n) ==
    /\ pv[n] \in Queued(o)
    /\ Place(o, pv[n]) < Place(o, n)
    /\ \A m \in Range(o) : Place(o, pv[n]) < Place(o, m) /\ Place(o, m) < Place(o, n) => m \in C

\* The queue from tl back to h, with history o, prev links pv and cancelled nodes C
Shape(o, h, tl, pv, C) ==
    /\ IsInjective(o)
    /\ tl = NULL => o = <<>> /\ h \in {NULL, Dummy}
    /\ tl # NULL => tl \in Queued(o) /\ h \in Queued(o)
    /\ h \notin C /\ Dummy \notin C
    /\ \A n \in Queued(o) : pv[n] \in Queued(o) \cup {NULL}
    /\ \A n \in Range(o) : n \in C \/ Place(o, h) < Place(o, n) => Bypasses(o, pv, C, n)
    /\ \A n \in Range(o) : Place(o, tl) < Place(o, n) => n \in C

\* A node that has neither become head nor been cancelled, and one that has become head
Live(o, h, C, n) == n \in Range(o) /\ n \notin C /\ Place(o, h) < Place(o, n)
Retired(o, h, C, n) == n \in Range(o) /\ n \notin C /\ Place(o, n) <= Place(o, h)

ThisLive(n) == Live(order, head, CancelledNodes, n)

\* Where a thread is
UnparkPcs == {"unpark", "unpark_clear", "unpark_next", "unpark_next_ws", "unpark_tail", "scan",
              "scan_prev", "unpark_thread", "unpark_permit"}
SharedPcs == {"dhead", "dtail", "dws", "dsignal", "dpropagate", "dcheck"}
Fresh(t) == \/ th[t].pc \in {"start", "addwaiter", "append"}
            \/ At(t, "unlink") /\ th[t].ret = "append"
Claiming(t) == th[t].pc \in {"enq", "inittail", "transfer_tail"}
FirstPcs == {"try", "oldhead", "sethead"}
LinkedPcs == FirstPcs \cup {"link", "should", "skip", "skipnext", "setsignal",
                             "cancel_next", "cancel_mark", "cancel_tail"}
LivePcs == FirstPcs \cup {"link", "loop", "should", "skip", "skipnext", "setsignal", "park",
            "interrupted", "cancel", "cancel_skip", "cancel_next", "cancel_mark"}
RetiredPcs == {"sethead_thread", "sethead_prev", "propagate", "propagate2", "propagate3",
               "successor", "pnext"}
CancelledPcs == {"cancel_tail", "cancel_cut", "cancel_head", "cancel_ws", "cancel_signal",
                 "cancel_thread", "cancel_succ", "cancel_succ_ws", "cancel_splice", "cancel_self"}
AwaitPcs == {"onqueue", "onqueue_prev", "onqueue_next", "find", "find_scan", "cpark",
             "cinterrupted", "cancelwait"}
TransferPcs == {"transfer_tail", "transfer_link", "transfer_ws", "transfer_signal", "transferred"}
PredPcs == LinkedPcs \cup RetiredPcs \cup (CancelledPcs \ {"cancel_self"})
           \cup (TransferPcs \ {"transferred"})

\* In an await whose node is on its way from the condition queue
Awaiting(t) ==
    \/ th[t].pc \in AwaitPcs
    \/ /\ th[t].pc \in {"rhead", "rws", "return"} \/ (th[t].pc \in UnparkPcs /\ th[t].ret = "return")
       /\ Call(t).call = "await"
\* After setHead, up to the return
Leaving(t) ==
    th[t].pc \in RetiredPcs \/ (th[t].pc \in UnparkPcs \cup SharedPcs /\ th[t].ret2 = "pnext")
\* After the node is marked
GivenUp(t) == th[t].pc \in CancelledPcs \/ (th[t].pc \in UnparkPcs /\ th[t].ret = "cancel_self")

Mine(t) == IF th[t].n = NULL THEN Me(t) ELSE th[t].n

\* The types of the locals
Pcs == LivePcs \cup RetiredPcs \cup CancelledPcs \cup AwaitPcs \cup UnparkPcs \cup SharedPcs
       \cup TransferPcs \cup {"start", "enq", "inittail", "rhead", "rws", "return", "done",
             "addwaiter", "unlink", "append", "reacquired", "report", "all"}
NoRet == ""
Rets == {NoRet, "return", "cancel_self", "dcheck", "transferred", "append", "report",
         "yield", "deadline"}
Thread ==
    [pc : Pcs, i : Nat \ {0}, was : BOOLEAN, pred : Nodes \cup {NULL},
     predNext : Nodes \cup {NULL}, ws : Int, s : Nodes \cup {NULL}, q : Nodes \cup {NULL},
     h : Nodes \cup {NULL}, u : Threads \cup {NULL},
     ret : Rets, ret2 : {NoRet, "return", "pnext"}, n : Nodes \cup {NULL},
     mode : {"none", "THROW_IE", "REINTERRUPT"}]

\* Locals that are fresh but for those given
FreshAt(pc, i, was, mode, h, q, ret) ==
    [pc |-> pc, i |-> i, was |-> was, pred |-> NULL, predNext |-> NULL, ws |-> 0, s |-> NULL,
     q |-> q, h |-> h, u |-> NULL, ret |-> ret, ret2 |-> NoRet, n |-> NULL, mode |-> mode]

\* signalAll goes on with the next waiter
SignalOn(t) == th' = [th EXCEPT ![t] = [Start EXCEPT !.i = th[t].i, !.pc = "all", !.q = th[t].q]]

\* What a local is when it is used
LocalsSound(t) ==
    /\ th[t].pc # "done" => th[t].i \in DOMAIN program[t]
    /\ th[t].pc \in AwaitPcs \cup {"addwaiter", "append"} \/ (At(t, "unlink") /\ th[t].ret = "append") =>
          Call(t).call = "await"
    /\ th[t].pred \in Queued(order) \cup {NULL} /\ th[t].h \in Queued(order) \cup {NULL}
    /\ th[t].n # Dummy
    /\ th[t].pc \in PredPcs \/ Leaving(t) => th[t].pred # NULL
    /\ At(t, "find_scan") => th[t].q \in Queued(order) \cup {NULL}
    /\ th[t].pc \in {"setsignal", "cancel_signal", "transfer_signal"} => th[t].ws <= 0
    /\ At(t, "unpark_clear") => th[t].ws < 0
    /\ th[t].pc \in {"unpark", "unpark_clear", "unpark_next", "rws",
                      "dtail", "dws", "dsignal", "dpropagate"} => th[t].h # NULL
    /\ th[t].pc \in {"cancel_succ_ws", "cancel_splice", "unpark_next_ws", "unpark_thread"} => th[t].s # NULL
    /\ th[t].pc \in {"scan_prev", "all"} => th[t].q # NULL
    /\ At(t, "unpark_permit") => th[t].u # NULL
    /\ th[t].pc \in UnparkPcs => th[t].ret \in {"return", "cancel_self", "dcheck", "transferred"}
    /\ th[t].pc \in {"dtail", "dws", "dsignal", "dpropagate"} => th[t].ret = "dcheck"
    /\ th[t].pc \in SharedPcs \/ (th[t].pc \in UnparkPcs /\ th[t].ret = "dcheck") =>
          th[t].ret2 = "pnext" \/ (th[t].ret2 = "return" /\ Call(t).call = "release")
    /\ th[t].ret2 = "pnext" =>
          th[t].pc \in SharedPcs \/ (th[t].pc \in UnparkPcs /\ th[t].ret = "dcheck")
    /\ At(t, "unlink") => th[t].ret \in {"append", "report"}
    /\ th[t].n # NULL =>
          \/ th[t].pc \in {"enq", "inittail"} \cup TransferPcs
          \/ th[t].pc \in {"unpark_thread", "unpark_permit"} /\ th[t].ret = "transferred"
    /\ th[t].pc \in TransferPcs \/ (th[t].pc \in UnparkPcs /\ th[t].ret = "transferred") =>
          th[t].n # NULL
    /\ At(t, "transfer_link") => th[t].n \in Range(order)

\* Where the node of a thread's call is
NodeSound(t) ==
    /\ Fresh(t) => Me(t) \notin Range(order)
    /\ th[t].pc \in LivePcs \/ (Awaiting(t) /\ Me(t) \in Range(order)) => ThisLive(Me(t))
    /\ Leaving(t) => Retired(order, head, CancelledNodes, Me(t))
    /\ GivenUp(t) => Me(t) \in Range(order) /\ Me(t) \in CancelledNodes
    /\ th[t].pc \in LinkedPcs => th[t].pred = node[Me(t)].prev
    /\ th[t].pc \in FirstPcs => th[t].pred = head

\* The node a thread is about to enqueue
ClaimSound(t) ==
    Claiming(t) =>
        /\ Mine(t) \in Nodes \ Queued(order)
        /\ node[Mine(t)].ws \notin {CANCELLED, CONDITION}
        /\ th[t].n # NULL => LET o == th[t].n[1] IN th[o].i = th[t].n[2] /\ Awaiting(o)
        /\ At(t, "transfer_tail") => node[th[t].n].prev = th[t].pred
        /\ At(t, "inittail") => tail = NULL /\ head = Dummy

Sound(t) == LocalsSound(t) /\ NodeSound(t) /\ ClaimSound(t)

ClaimsExclusive ==
    \A t, u \in Threads :
        /\ Claiming(t) /\ Claiming(u) /\ Mine(t) = Mine(u) => t = u
        /\ At(t, "inittail") /\ At(u, "inittail") => t = u

\* The nodes in a condition queue are not yet in the queue
ConditionNodes ==
    \A n \in Nodes : node[n].ws = CONDITION =>
        n \notin Queued(order) /\ th[n[1]].i = n[2] /\ Awaiting(n[1])

Unqueued == \A n \in Nodes \ Queued(order) : node[n].next = NULL

Past == \A n \in Range(order) : n[2] <= th[n[1]].i

IInv ==
    /\ program \in Programs
    /\ Nodes = NewNodes /\ TypeOK
    /\ th \in [Threads -> Thread]
    /\ order \in Seq(Nodes \ {Dummy})
    /\ Shape(order, head, tail, Prev, CancelledNodes)
    /\ \A t \in Threads : Sound(t)
    /\ ClaimsExclusive /\ ConditionNodes /\ Unqueued /\ Past

\* The types of the condition queue
CondTypes ==
    /\ firstWaiter \in Nodes \cup {NULL} /\ lastWaiter \in Nodes \cup {NULL}
    /\ nextWaiter \in [Nodes -> Nodes \cup {NULL}]

\* The fields of a node
NodeRecord == [ws : {0, CANCELLED, SIGNAL, CONDITION, PROPAGATE}, prev : Nodes \cup {NULL},
               next : Nodes \cup {NULL}, thread : Threads \cup {NULL}]

-----------------------------------------------------------------------------
(* Numbers and sequences *)

\* Induction, for a set of naturals
LEMMA AllNumbers ==
    ASSUME NEW P \in SUBSET Nat, 0 \in P, \A n \in Nat : n \in P => n + 1 \in P
    PROVE  P = Nat
<1> SUFFICES ASSUME Nat \ P # {} PROVE FALSE
  OBVIOUS
<1>1. PICK R : IsWellFoundedOn(R, Nat) /\ \A x, y \in Nat : <<y, x>> \in R <=> y < x
  <2> DEFINE R == OpToRel(<, Nat)
  <2>1. \A x, y \in Nat : <<y, x>> \in R <=> y < x
    BY DEF OpToRel
  <2>2. IsWellFoundedOn(R, Nat)
    BY NatLessThanWellFounded
  <2> QED BY <2>1, <2>2, Zenon
<1>2. PICK n \in Nat \ P : \A m \in Nat \ P : <<m, n>> \notin R
  BY <1>1, WFMin
<1>3. n # 0
  OBVIOUS
<1>4. n - 1 \in P
  <2>1. n - 1 \in Nat /\ n - 1 < n
    BY <1>3
  <2>2. <<n - 1, n>> \in R
    BY <1>1, <2>1, Zenon
  <2> QED BY <1>2, <2>1, <2>2
<1> QED BY <1>2, <1>3, <1>4

\* The elements of a sequence
LEMMA Elements ==
    ASSUME NEW S, NEW s \in Seq(S)
    PROVE  /\ Range(s) \subseteq S
           /\ \A i \in 1 .. Len(s) : s[i] \in Range(s)
           /\ \A x \in Range(s) : \E i \in 1 .. Len(s) : s[i] = x
           /\ IsInjective(s) <=> \A i, j \in 1 .. Len(s) : s[i] = s[j] => i = j
<1>1. Len(s) \in Nat /\ DOMAIN s = 1 .. Len(s) /\ \A i \in 1 .. Len(s) : s[i] \in S
  BY LenProperties
<1>2. Range(s) = {s[i] : i \in 1 .. Len(s)}
  BY <1>1 DEF Range
<1> QED BY <1>1, <1>2 DEF IsInjective

\* The empty sequence
LEMMA EmptyList ==
    /\ <<>> \in Seq({}) /\ \A S : <<>> \in Seq(S)
    /\ Range(<<>>) = {} /\ IsInjective(<<>>)
  BY DEF Range, IsInjective

\* A sequence gets one more element.
LEMMA AppendOne ==
    ASSUME NEW S, NEW s \in Seq(S), NEW x \in S, IsInjective(s), x \notin Range(s)
    PROVE  /\ Append(s, x) \in Seq(S) /\ IsInjective(Append(s, x))
           /\ Range(Append(s, x)) = Range(s) \cup {x}
<1> DEFINE t == Append(s, x)
<1>1. /\ t \in Seq(S) /\ Len(t) = Len(s) + 1 /\ t[Len(s) + 1] = x /\ Len(s) \in Nat
      /\ \A i \in 1 .. Len(s) : t[i] = s[i]
  BY AppendProperties, LenProperties
<1> HIDE DEF t
<1>2. /\ \A i \in 1 .. Len(s) : s[i] \in Range(s)
      /\ \A y \in Range(s) : \E i \in 1 .. Len(s) : s[i] = y
      /\ \A i, j \in 1 .. Len(s) : s[i] = s[j] => i = j
  BY Elements
<1>3. \A i \in 1 .. Len(t) : i \in 1 .. Len(s) \/ i = Len(s) + 1
  BY <1>1
<1>4. IsInjective(t)
  <2>1. \A i, j \in 1 .. Len(t) : t[i] = t[j] => i = j
    BY <1>1, <1>2, <1>3
  <2> QED BY <1>1, <2>1, Elements
<1>5. Range(t) \subseteq Range(s) \cup {x}
  BY <1>1, <1>2, <1>3, Elements
<1>6. Range(s) \cup {x} \subseteq Range(t)
  BY <1>1, <1>2, <1>3, Elements
<1> QED BY <1>1, <1>4, <1>5, <1>6 DEF t

-----------------------------------------------------------------------------
(* Nodes and places *)

\* What the programs are made of
LEMMA Calls ==
    ASSUME program \in Programs, NEW t \in Threads
    PROVE  /\ DOMAIN program[t] = 1 .. Len(program[t]) /\ Len(program[t]) \in Nat \ {0}
           /\ \A i \in DOMAIN program[t] :
                 /\ program[t][i].call \in {"acquire", "release", "await", "signal", "signalAll"}
                 /\ program[t][i].shared \in BOOLEAN
                 /\ program[t][i].how \in {"plain", "interruptibly", "nanos"}
<1> DEFINE C == [call : {"acquire", "release", "await", "signal", "signalAll"},
                 shared : BOOLEAN, how : {"plain", "interruptibly", "nanos"}]
<1>1. program[t] \in Seq(C) /\ program[t] # <<>>
  BY AQSAssumption
<1>2. /\ DOMAIN program[t] = 1 .. Len(program[t]) /\ Len(program[t]) \in Nat \ {0}
      /\ \A i \in DOMAIN program[t] : program[t][i] \in C
  <2> DEFINE s == program[t]
  <2> HIDE DEF s, C
  <2>1. Len(s) \in Nat /\ DOMAIN s = 1 .. Len(s) /\ (s = <<>> <=> Len(s) = 0)
    BY <1>1, LenProperties, EmptySeq DEF s
  <2>2. \A i \in DOMAIN s : s[i] \in C
    BY <1>1, <2>1, LenProperties DEF s
  <2> QED BY <1>1, <2>1, <2>2 DEF s
<1> QED BY <1>2

\* The values that a function takes on a finite set are finitely many.
LEMMA FiniteImage ==
    ASSUME NEW S, IsFiniteSet(S), NEW f
    PROVE  IsFiniteSet({f[x] : x \in S})
<1> DEFINE g == [x \in S |-> f[x]]
           T == {f[x] : x \in S}
<1>1. g \in Surjection(S, T)
  BY DEF Surjection
<1> HIDE DEF g, T
<1>2. IsFiniteSet(T)
  BY <1>1, FS_Surjection
<1> QED BY <1>2 DEF T

\* The nodes are finitely many, and those of the calls differ from Dummy and NULL.
LEMMA NodesAre ==
    ASSUME program \in Programs
    PROVE  /\ IsFiniteSet(NewNodes) /\ Dummy \in NewNodes /\ NULL \notin NewNodes
           /\ \A n \in NewNodes \ {Dummy} :
                 /\ n[1] \in Threads /\ n[2] \in DOMAIN program[n[1]] /\ n = <<n[1], n[2]>>
                 /\ n[2] \in Nat \ {0}
                 /\ program[n[1]][n[2]].call \in {"acquire", "await"}
           /\ \A t \in Threads : \A i \in DOMAIN program[t] :
                 /\ <<t, i>> # Dummy /\ <<t, i>> # NULL
                 /\ program[t][i].call \in {"acquire", "await"} => <<t, i>> \in NewNodes
<1> DEFINE Of(t) == {<<t, i>> : i \in {j \in DOMAIN program[t] :
                                          program[t][j].call \in {"acquire", "await"}}}
           All == {Of(t) : t \in Threads}
<1>1. \A t \in Threads : /\ DOMAIN program[t] = 1 .. Len(program[t])
                         /\ Len(program[t]) \in Nat \ {0}
  BY Calls
<1>2. ASSUME NEW t \in Threads PROVE IsFiniteSet(Of(t))
  <2> DEFINE I == {j \in DOMAIN program[t] : program[t][j].call \in {"acquire", "await"}}
  <2>1. IsFiniteSet(1 .. Len(program[t]))
    BY <1>1, FS_Interval
  <2>2. I \in SUBSET (1 .. Len(program[t]))
    BY <1>1
  <2>3. IsFiniteSet(I)
    BY <2>1, <2>2, FS_Subset
  <2> HIDE DEF I
  <2>4. IsFiniteSet({<<t, i>> : i \in I})
    <3> DEFINE f == [i \in I |-> <<t, i>>]
    <3>1. IsFiniteSet({f[i] : i \in I})
      <4> HIDE DEF f
      <4> QED BY <2>3, FiniteImage
    <3>2. {f[i] : i \in I} = {<<t, i>> : i \in I}
      OBVIOUS
    <3> QED BY <3>1, <3>2
  <2> QED BY <2>4 DEF I
<1>3. IsFiniteSet(All)
  <2> HIDE DEF Of
  <2> DEFINE f == [t \in Threads |-> Of(t)]
  <2>1. IsFiniteSet({f[t] : t \in Threads})
    <3> HIDE DEF f
    <3> QED BY AQSAssumption, FiniteImage
  <2>2. {f[t] : t \in Threads} = All
    OBVIOUS
  <2> QED BY <2>1, <2>2
<1>4. IsFiniteSet(UNION All)
  <2>1. \A T \in All : IsFiniteSet(T)
    <3> HIDE DEF Of
    <3> QED BY <1>2
  <2> HIDE DEF All
  <2> QED BY <1>3, <2>1, FS_UNION
<1>5. NewNodes = {Dummy} \cup UNION All
  BY DEF NewNodes
<1>6. IsFiniteSet(NewNodes)
  <2> HIDE DEF All
  <2>1. IsFiniteSet({Dummy})
    BY FS_Singleton, Zenon
  <2> QED BY <1>4, <1>5, <2>1, FS_Union, Zenon
<1>7. \A t \in Threads : \A i \in DOMAIN program[t] :
         /\ <<t, i>> # Dummy /\ <<t, i>> # NULL /\ i \in Nat \ {0}
         /\ <<t, i>>[1] = t /\ <<t, i>>[2] = i
  BY <1>1, AQSAssumption
<1>8. ASSUME NEW t \in Threads, NEW i \in DOMAIN program[t],
             program[t][i].call \in {"acquire", "await"}
      PROVE  <<t, i>> \in NewNodes
  BY <1>8, <1>5
<1>9. ASSUME NEW n \in NewNodes, n # Dummy
      PROVE  /\ n[1] \in Threads /\ n[2] \in DOMAIN program[n[1]] /\ n = <<n[1], n[2]>>
             /\ n[2] \in Nat \ {0} /\ n # NULL
             /\ program[n[1]][n[2]].call \in {"acquire", "await"}
  <2>1. PICK t \in Threads : n \in Of(t)
    BY <1>9, <1>5
  <2>2. PICK i \in DOMAIN program[t] : n = <<t, i>> /\ program[t][i].call \in {"acquire", "await"}
    BY <2>1
  <2> QED BY <2>2, <1>7
<1>10. Dummy \in NewNodes /\ NULL \notin NewNodes
  BY <1>5, <1>9, AQSAssumption
<1> QED BY <1>6, <1>7, <1>8, <1>9, <1>10

\* Places are different naturals, and Dummy has the first.
LEMMA Places ==
    ASSUME NEW S, NEW o \in Seq(S), Dummy \notin S, IsInjective(o)
    PROVE  /\ Len(o) \in Nat /\ Range(o) \subseteq S
           /\ Place(o, Dummy) = 0
           /\ \A n \in Range(o) : Place(o, n) \in 1 .. Len(o) /\ o[Place(o, n)] = n
           /\ \A i \in 1 .. Len(o) : o[i] \in Range(o) /\ Place(o, o[i]) = i
           /\ \A n \in Queued(o) : Place(o, n) \in 0 .. Len(o)
           /\ \A m, n \in Queued(o) : Place(o, m) = Place(o, n) => m = n
<1>1. /\ Range(o) \subseteq S
      /\ \A i \in 1 .. Len(o) : o[i] \in Range(o)
      /\ \A x \in Range(o) : \E i \in 1 .. Len(o) : o[i] = x
      /\ \A i, j \in 1 .. Len(o) : o[i] = o[j] => i = j
      /\ Len(o) \in Nat
  BY Elements, LenProperties
<1>2. ASSUME NEW n \in Range(o) PROVE Place(o, n) \in 1 .. Len(o) /\ o[Place(o, n)] = n
  BY <1>1 DEF Place
<1>3. ASSUME NEW i \in 1 .. Len(o) PROVE Place(o, o[i]) = i
  BY <1>1, <1>2
<1>4. Place(o, Dummy) = 0
  BY DEF Place
<1>5. \A n \in Queued(o) : Place(o, n) \in 0 .. Len(o)
  BY <1>1, <1>2, <1>4 DEF Queued
<1>6. ASSUME NEW m \in Queued(o), NEW n \in Queued(o), Place(o, m) = Place(o, n) PROVE m = n
  BY <1>1, <1>2, <1>4, <1>6 DEF Queued
<1> QED BY <1>1, <1>2, <1>3, <1>4, <1>5, <1>6

\* An appended node has the last place, and the others keep theirs.
LEMMA PlacesAppend ==
    ASSUME NEW S, NEW o \in Seq(S), Dummy \notin S, IsInjective(o), NEW x \in S, x \notin Range(o)
    PROVE  /\ Append(o, x) \in Seq(S) /\ IsInjective(Append(o, x))
           /\ Range(Append(o, x)) = Range(o) \cup {x}
           /\ Queued(Append(o, x)) = Queued(o) \cup {x}
           /\ Place(Append(o, x), x) = Len(o) + 1
           /\ \A n \in Queued(o) : Place(Append(o, x), n) = Place(o, n)
<1> DEFINE p == Append(o, x)
<1>1. p \in Seq(S) /\ IsInjective(p) /\ Range(p) = Range(o) \cup {x}
  BY AppendOne
<1>2. Len(p) = Len(o) + 1 /\ p[Len(o) + 1] = x /\ \A i \in 1 .. Len(o) : p[i] = o[i]
  BY AppendProperties
<1> HIDE DEF p
<1>3. /\ Len(o) \in Nat /\ Place(o, Dummy) = 0
      /\ \A n \in Range(o) : Place(o, n) \in 1 .. Len(o) /\ o[Place(o, n)] = n
  BY Places
<1>4. Place(p, Dummy) = 0 /\ \A i \in 1 .. Len(p) : Place(p, p[i]) = i
  BY <1>1, Places
<1>5. Place(p, x) = Len(o) + 1
  BY <1>2, <1>3, <1>4
<1>6. \A n \in Range(o) : Place(p, n) = Place(o, n)
  BY <1>2, <1>3, <1>4
<1> QED BY <1>1, <1>3, <1>4, <1>5, <1>6 DEF p, Queued

-----------------------------------------------------------------------------
(* What the steps do to the shape of the queue *)

\* Live nodes and the cancelled ones have a way back.
LEMMA WayBack ==
    ASSUME NEW S, NEW o \in Seq(S), Dummy \notin S, NULL \notin S, NEW h, NEW tl, NEW pv, NEW C,
           Shape(o, h, tl, pv, C), NEW x \in Range(o), x \in C \/ Place(o, h) < Place(o, x)
    PROVE  /\ tl # NULL /\ h # NULL /\ x # Dummy /\ x # NULL
           /\ pv[x] \in Queued(o) /\ pv[x] # NULL /\ Bypasses(o, pv, C, x)
           /\ Live(o, h, C, x) => Place(o, h) <= Place(o, pv[x])
<1>1. x \in S /\ o # <<>>
  BY Elements
<1>2. /\ tl # NULL /\ h \in Queued(o) /\ h \notin C /\ Bypasses(o, pv, C, x)
  BY <1>1 DEF Shape
<1>3. NULL \notin Queued(o)
  BY Elements, AQSAssumption DEF Queued
<1>4. pv[x] \in Queued(o)
  BY <1>2 DEF Bypasses
<1>5. ASSUME Live(o, h, C, x) PROVE Place(o, h) <= Place(o, pv[x])
  <2>1. /\ Place(o, h) \in Nat /\ Place(o, pv[x]) \in Nat /\ Place(o, Dummy) = 0
        /\ Place(o, h) < Place(o, x)
    BY <1>2, <1>4, <1>5, Places DEF Shape, Live
  <2>2. h # Dummy => h \in Range(o)
    BY <1>2 DEF Queued
  <2> QED BY <1>2, <2>1, <2>2 DEF Bypasses
<1> QED BY <1>1, <1>2, <1>3, <1>4, <1>5, AQSAssumption

\* Only one live node follows the head.
LEMMA OneFirst ==
    ASSUME NEW S, NEW o \in Seq(S), Dummy \notin S, NULL \notin S, NEW h, NEW tl, NEW pv, NEW C,
           Shape(o, h, tl, pv, C), NEW x, NEW y, Live(o, h, C, x), Live(o, h, C, y), pv[x] = h
    PROVE  x # y => Place(o, x) < Place(o, y) /\ pv[y] # h
<1>1. /\ x \in Range(o) /\ y \in Range(o) /\ x \notin C /\ y \notin C
      /\ Place(o, h) < Place(o, x) /\ Place(o, h) < Place(o, y)
  BY DEF Live
<1>2. Bypasses(o, pv, C, x) /\ Bypasses(o, pv, C, y)
  BY <1>1, WayBack
<1>3. Place(o, x) \in Nat /\ Place(o, y) \in Nat /\ (Place(o, x) = Place(o, y) => x = y)
  BY <1>1, Places DEF Shape, Queued
<1>4. Place(o, h) \in Nat
  <2>1. tl # NULL
    BY <1>1, WayBack
  <2> QED BY <2>1, Places DEF Shape
<1>5. ASSUME x # y PROVE Place(o, x) < Place(o, y)
  <2>1. ~(Place(o, y) < Place(o, x))
    BY <1>1, <1>2 DEF Bypasses
  <2> QED BY <1>3, <1>5, <2>1
<1>6. ASSUME x # y PROVE pv[y] # h
  <2>1. Place(o, x) < Place(o, y)
    BY <1>5, <1>6
  <2> QED BY <1>1, <1>2, <2>1 DEF Bypasses
<1> QED BY <1>5, <1>6

\* enq finds the queue empty.
LEMMA ShapeFirst ==
    ASSUME NEW o, NEW pv, NEW C, NEW h \in {NULL, Dummy}, NEW tl \in {NULL, Dummy}, tl # NULL => h # NULL,
           Shape(o, h, NULL, pv, C)
    PROVE  Shape(o, Dummy, tl, pv, C)
<1>1. o = <<>> /\ Range(o) = {}
  BY EmptyList DEF Shape
<1> QED BY <1>1 DEF Shape, Queued

\* enq appends a node.
LEMMA ShapeAppend ==
    ASSUME NEW S, NEW o \in Seq(S), Dummy \notin S, NULL \notin S, NEW h, NEW tl, NEW pv, NEW C,
           Shape(o, h, tl, pv, C), tl # NULL, NEW x \in S, x \notin Range(o), x \notin C,
           NEW pw, pw[x] = tl, \A n \in Queued(o) : pw[n] = pv[n]
    PROVE  /\ Shape(Append(o, x), h, x, pw, C)
           /\ Live(Append(o, x), h, C, x)
<1> DEFINE p == Append(o, x)
<1>1. /\ p \in Seq(S) /\ IsInjective(p)
      /\ Range(p) = Range(o) \cup {x} /\ Queued(p) = Queued(o) \cup {x}
      /\ Place(p, x) = Len(o) + 1
      /\ \A n \in Queued(o) : Place(p, n) = Place(o, n)
  BY PlacesAppend DEF Shape
<1>2. /\ Len(o) \in Nat /\ \A n \in Queued(o) : Place(o, n) \in 0 .. Len(o)
      /\ tl \in Queued(o) /\ h \in Queued(o) /\ x # Dummy
  BY Places DEF Shape
<1> HIDE DEF p
<1>3. \A n \in Queued(p) : pw[n] \in Queued(p) \cup {NULL}
  BY <1>1, <1>2 DEF Shape
<1>4. ASSUME NEW n \in Range(o), n \in C \/ Place(o, h) < Place(o, n) PROVE Bypasses(p, pw, C, n)
  <2>1. Bypasses(o, pv, C, n) /\ n \in Queued(o) /\ pw[n] = pv[n]
    BY <1>4 DEF Shape, Queued
  <2>2. \A m \in Range(o) : m \in Queued(o)
    BY DEF Queued
  <2> QED BY <1>1, <1>2, <2>1, <2>2 DEF Bypasses
<1>5. Bypasses(p, pw, C, x)
  <2>1. /\ pw[x] \in Queued(p) /\ Place(p, pw[x]) < Place(p, x)
    BY <1>1, <1>2
  <2>2. ASSUME NEW m \in Range(p), Place(p, pw[x]) < Place(p, m), Place(p, m) < Place(p, x)
        PROVE  m \in C
    <3>1. m \in Range(o) /\ m \in Queued(o)
      BY <1>1, <1>2, <2>2 DEF Queued
    <3> QED BY <1>1, <1>2, <2>2, <3>1 DEF Shape
  <2> QED BY <2>1, <2>2 DEF Bypasses
<1>6. \A n \in Range(p) : n \in C \/ Place(p, h) < Place(p, n) => Bypasses(p, pw, C, n)
  <2>1. \A n \in Range(o) : n \in Queued(o)
    BY DEF Queued
  <2> QED BY <1>1, <1>2, <1>4, <1>5, <2>1
<1>7. \A n \in Range(p) : Place(p, x) < Place(p, n) => n \in C
  <2>1. \A n \in Range(o) : n \in Queued(o)
    BY DEF Queued
  <2> QED BY <1>1, <1>2, <2>1
<1>8. p # <<>>
  BY <1>1, EmptyList
<1>9. Shape(p, h, x, pw, C)
  BY <1>1, <1>2, <1>3, <1>6, <1>7, <1>8 DEF Shape
<1>10. Live(p, h, C, x)
  BY <1>1, <1>2 DEF Live
<1> QED BY <1>9, <1>10 DEF p

\* cancelAcquire marks a live node.
LEMMA ShapeMark ==
    ASSUME NEW S, NEW o \in Seq(S), Dummy \notin S, NULL \notin S, NEW h, NEW tl, NEW pv, NEW C,
           Shape(o, h, tl, pv, C), NEW x, Live(o, h, C, x)
    PROVE  Shape(o, h, tl, pv, C \cup {x})
<1>1. x \in S /\ x # Dummy /\ x # h /\ x \in Range(o)
  BY Elements, Places DEF Live, Shape, Queued
<1>2. \A n : Bypasses(o, pv, C, n) => Bypasses(o, pv, C \cup {x}, n)
  BY DEF Bypasses
<1> QED BY <1>1, <1>2, Zenon DEF Shape, Live

\* A live node is linked past a cancelled predecessor.
LEMMA ShapeBypass ==
    ASSUME NEW S, NEW o \in Seq(S), Dummy \notin S, NULL \notin S, NEW h, NEW tl, NEW pv, NEW C,
           Shape(o, h, tl, pv, C), NEW x, Live(o, h, C, x), pv[x] \in C,
           NEW pw, pw[x] = pv[pv[x]], \A n \in Queued(o) \ {x} : pw[n] = pv[n]
    PROVE  Shape(o, h, tl, pw, C) /\ pw[x] \in Queued(o) /\ pw[x] # NULL
<1> DEFINE p == pv[x]
<1>1. x \in Range(o) /\ x \notin C /\ Place(o, h) < Place(o, x) /\ x \in Queued(o)
  BY DEF Live, Queued
<1>2. Bypasses(o, pv, C, x) /\ p \in Queued(o) /\ p # NULL /\ p # x
  BY <1>1, WayBack, Places DEF Shape
<1>3. p \in Range(o) /\ p \in C
  BY <1>2 DEF Shape, Queued
<1>4. Bypasses(o, pv, C, p) /\ pv[p] \in Queued(o) /\ pv[p] # NULL
  BY <1>3, WayBack
<1> HIDE DEF p
<1>5. pw[x] = pv[p] /\ pv[x] = p
  BY DEF p
<1>6. \A m \in Queued(o) : Place(o, m) \in Nat
  BY Places DEF Shape
<1>7. Bypasses(o, pw, C, x)
  <2>1. ASSUME NEW m \in Range(o), Place(o, pv[p]) < Place(o, m), Place(o, m) < Place(o, x)
        PROVE  m \in C
    <3>1. Place(o, m) \in Nat /\ Place(o, p) \in Nat /\ (Place(o, m) = Place(o, p) => m = p)
      BY <1>2, <1>6, Places DEF Shape, Queued
    <3> QED BY <1>2, <1>3, <1>4, <1>5, <2>1, <3>1 DEF Bypasses
  <2>2. Place(o, pv[p]) < Place(o, x)
    BY <1>1, <1>2, <1>4, <1>5, <1>6 DEF Bypasses
  <2> QED BY <1>4, <1>5, <2>1, <2>2 DEF Bypasses
<1>8. \A n \in Range(o) : n \in C \/ Place(o, h) < Place(o, n) => Bypasses(o, pw, C, n)
  <2>1. \A n \in Range(o) : n \in Queued(o)
    BY DEF Queued
  <2> QED BY <1>7, <2>1 DEF Shape, Bypasses
<1>9. \A n \in Queued(o) : pw[n] \in Queued(o) \cup {NULL}
  BY <1>4, <1>5 DEF Shape
<1> QED BY <1>4, <1>5, <1>8, <1>9 DEF Shape

\* setHead: the live node that follows the head becomes the head.
LEMMA ShapeHead ==
    ASSUME NEW S, NEW o \in Seq(S), Dummy \notin S, NULL \notin S, NEW h, NEW tl, NEW pv, NEW C,
           Shape(o, h, tl, pv, C), NEW x, Live(o, h, C, x), pv[x] = h
    PROVE  /\ Shape(o, x, tl, pv, C) /\ Retired(o, x, C, x)
           /\ \A y : Retired(o, h, C, y) => Retired(o, x, C, y)
           /\ \A y : Live(o, h, C, y) /\ y # x => Live(o, x, C, y)
<1>1. /\ x \in Range(o) /\ x \notin C /\ Place(o, h) < Place(o, x) /\ x \in Queued(o)
      /\ tl # NULL /\ h \in Queued(o)
  BY WayBack DEF Live, Queued, Shape
<1>2. \A m \in Queued(o) : Place(o, m) \in Nat
  BY Places DEF Shape
<1>3. \A n \in Range(o) : n \in Queued(o)
  BY DEF Queued
<1>4. Retired(o, x, C, x)
  BY <1>1, <1>2 DEF Retired
<1>5. \A y : Retired(o, h, C, y) => Retired(o, x, C, y)
  BY <1>1, <1>2, <1>3 DEF Retired
<1>6. ASSUME NEW y, Live(o, h, C, y), y # x PROVE Live(o, x, C, y)
  BY <1>6, OneFirst DEF Live
<1>7. Shape(o, x, tl, pv, C)
  BY <1>1, <1>2, <1>3 DEF Shape
<1> QED BY <1>4, <1>5, <1>6, <1>7

\* setHead: the prev link of a node that has been head is cleared.
LEMMA ShapeClear ==
    ASSUME NEW S, NEW o \in Seq(S), Dummy \notin S, NULL \notin S, NEW h, NEW tl, NEW pv, NEW C,
           Shape(o, h, tl, pv, C), NEW x, Retired(o, h, C, x),
           NEW pw, pw[x] = NULL, \A n \in Queued(o) \ {x} : pw[n] = pv[n]
    PROVE  Shape(o, h, tl, pw, C)
<1>1. x \in Range(o) /\ x \notin C /\ Place(o, x) <= Place(o, h)
  BY DEF Retired
<1>2. \A n \in Range(o) : n \in Queued(o)
  BY DEF Queued
<1>3. h \in Queued(o)
  BY <1>1, EmptyList DEF Shape
<1>4. \A m \in Queued(o) : Place(o, m) \in Nat
  BY Places DEF Shape
<1>5. \A n \in Range(o) : n \in C \/ Place(o, h) < Place(o, n) => Bypasses(o, pw, C, n)
  BY <1>1, <1>2, <1>3, <1>4 DEF Shape, Bypasses
<1>6. \A n \in Queued(o) : pw[n] \in Queued(o) \cup {NULL}
  BY DEF Shape
<1> QED BY <1>5, <1>6 DEF Shape

\* The cancelled tail moves itself out.
LEMMA ShapeTailBack ==
    ASSUME NEW S, NEW o \in Seq(S), Dummy \notin S, NULL \notin S, NEW h, NEW tl, NEW pv, NEW C,
           Shape(o, h, tl, pv, C), tl \in Range(o), tl \in C
    PROVE  Shape(o, h, pv[tl], pv, C)
<1> DEFINE p == pv[tl]
<1>1. Bypasses(o, pv, C, tl) /\ p \in Queued(o) /\ p # NULL
  BY WayBack
<1>2. tl # NULL /\ h \in Queued(o)
  <2>1. tl # NULL
    BY WayBack
  <2> QED BY <2>1 DEF Shape
<1>3. ASSUME NEW n \in Range(o), Place(o, p) < Place(o, n) PROVE n \in C
  <2>1. Place(o, n) \in Nat /\ Place(o, tl) \in Nat /\ (Place(o, n) = Place(o, tl) => n = tl)
    BY Places DEF Shape, Queued
  <2> QED BY <1>1, <1>3, <2>1 DEF Shape, Bypasses
<1> QED BY <1>1, <1>2, <1>3 DEF Shape

\* What is not in the queue does not matter to its shape.
LEMMA ShapeFrame ==
    ASSUME NEW S, NEW o \in Seq(S), Dummy \notin S, NULL \notin S, NEW h, NEW tl, NEW pv, NEW C,
           Shape(o, h, tl, pv, C), NEW pw, \A n \in Queued(o) : pw[n] = pv[n],
           NEW D, NULL \notin D, \A n \in Queued(o) : n \in D <=> n \in C
    PROVE  /\ Shape(o, h, tl, pw, D)
           /\ \A n : Live(o, h, D, n) <=> Live(o, h, C, n)
           /\ \A n : Retired(o, h, D, n) <=> Retired(o, h, C, n)
<1>1. \A n \in Range(o) : n \in Queued(o)
  BY DEF Queued
<1>2. h # NULL => h \in Queued(o)
  BY DEF Shape, Queued
<1>3. \A n \in Range(o) : Bypasses(o, pw, D, n) <=> Bypasses(o, pv, C, n)
  BY <1>1 DEF Bypasses
<1>4. Shape(o, h, tl, pw, D)
  BY <1>1, <1>2, <1>3, AQSAssumption DEF Shape, Queued
<1> QED BY <1>1, <1>4 DEF Live, Retired

-----------------------------------------------------------------------------
(* Steps *)

\* Nodes have the form that NewNodes gives them.
LEMMA NodeForm ==
    ASSUME IInv
    PROVE  /\ program \in Programs /\ Dummy \in Nodes /\ NULL \notin Nodes
           /\ Queued(order) \subseteq Nodes
           /\ \A n \in Nodes \ {Dummy} : n[1] \in Threads /\ n[2] \in Nat \ {0} /\ n = <<n[1], n[2]>>
           /\ \A n \in Range(order) : n \in Nodes \ {Dummy}
           /\ \A t \in Threads : Me(t) # Dummy /\ Me(t) # NULL /\ Me(t)[1] = t /\ Me(t)[2] = th[t].i
<1>1. /\ program \in Programs /\ Nodes = NewNodes /\ order \in Seq(Nodes \ {Dummy})
      /\ \A t \in Threads : th[t].i \in Nat \ {0}
  BY DEF IInv, Thread
<1>2. /\ Dummy \in Nodes /\ NULL \notin Nodes
      /\ \A n \in Nodes \ {Dummy} : n[1] \in Threads /\ n[2] \in Nat \ {0} /\ n = <<n[1], n[2]>>
  BY <1>1, NodesAre
<1>3. \A n \in Range(order) : n \in Nodes \ {Dummy}
  BY <1>1, Elements
<1>4. ASSUME NEW t \in Threads
      PROVE  Me(t) # Dummy /\ Me(t) # NULL /\ Me(t)[1] = t /\ Me(t)[2] = th[t].i
  <2>1. Me(t) = <<t, th[t].i>> /\ th[t].i \in Nat
    BY <1>1 DEF Me
  <2> QED BY <2>1, AQSAssumption
<1> QED BY <1>1, <1>2, <1>3, <1>4 DEF Queued

\* A thread's own node is claimed by another one only while it awaits.
LEMMA NotClaimed ==
    ASSUME IInv, NEW t \in Threads, NEW u \in Threads, u # t, Claiming(u), Mine(u) = Me(t)
    PROVE  Awaiting(t) /\ Me(t) \notin Range(order) /\ node[Me(t)].ws # CONDITION
<1>1. /\ Me(t)[1] = t /\ Me(u)[1] = u /\ Me(t) # NULL
  BY NodeForm
<1>2. th[u].n # NULL /\ th[u].n = Me(t)
  BY <1>1 DEF Mine
<1>3. /\ Mine(u) \in Nodes \ Queued(order) /\ node[Mine(u)].ws # CONDITION
      /\ Awaiting(th[u].n[1])
  BY <1>2 DEF IInv, Sound, ClaimSound
<1> QED BY <1>1, <1>2, <1>3 DEF Queued

\* What a step of t must leave alone for the others
LEMMA OthersSound ==
    ASSUME IInv, NEW t \in Threads, program' = program, Nodes' = Nodes,
           \A u \in Threads \ {t} : th'[u] = th[u],
           Range(order) \subseteq Range(order'),
           \A n \in Range(order') \ Range(order) :
              /\ n = Mine(t) /\ Claiming(t)
              /\ Live(order', head', CancelledNodes', n),
           \A n \in Queued(order) : n \in CancelledNodes => n \in CancelledNodes',
           \A n \in Range(order) : n[1] # t =>
              /\ ThisLive(n) => Live(order', head', CancelledNodes', n)
              /\ Retired(order, head, CancelledNodes, n) => Retired(order', head', CancelledNodes', n)
              /\ node'[n].prev = node[n].prev,
           \A u \in Threads \ {t} : th[u].pc \in FirstPcs => head' = head,
           \A u \in Threads \ {t} : Claiming(u) =>
              /\ node'[Mine(u)].ws = node[Mine(u)].ws
              /\ node'[Mine(u)].prev = node[Mine(u)].prev,
           \A u \in Threads \ {t} : At(u, "inittail") => tail' = tail /\ head' = head,
           Awaiting(t) /\ Me(t) \notin Range(order) /\ node[Me(t)].ws # CONDITION =>
              Awaiting(t)' /\ th'[t].i = th[t].i,
           NEW u \in Threads \ {t}
    PROVE  Sound(u)'
<1>1. /\ th'[u] = th[u] /\ Me(u)' = Me(u) /\ Call(u)' = Call(u) /\ Mine(u)' = Mine(u)
      /\ \A pc : At(u, pc)' <=> At(u, pc)
      /\ Claiming(u)' <=> Claiming(u)
      /\ Awaiting(u)' <=> Awaiting(u)
      /\ Leaving(u)' <=> Leaving(u)
      /\ GivenUp(u)' <=> GivenUp(u)
      /\ Fresh(u)' <=> Fresh(u)
  <2>1. th'[u] = th[u] /\ program' = program
    OBVIOUS
  <2>2. \A pc : At(u, pc)' <=> At(u, pc)
    BY <2>1 DEF At
  <2>3. Me(u)' = Me(u) /\ Call(u)' = Call(u)
    BY <2>1 DEF Me, Call
  <2>4. Mine(u)' = Mine(u) /\ (Claiming(u)' <=> Claiming(u))
    BY <2>1, <2>3 DEF Mine, Claiming
  <2>5. Awaiting(u)' <=> Awaiting(u)
    BY <2>1, <2>3 DEF Awaiting
  <2>6. (Leaving(u)' <=> Leaving(u)) /\ (GivenUp(u)' <=> GivenUp(u))
    BY <2>1 DEF Leaving, GivenUp
  <2>7. Fresh(u)' <=> Fresh(u)
    BY <2>1, <2>2 DEF Fresh
  <2> QED BY <2>1, <2>2, <2>3, <2>4, <2>5, <2>6, <2>7
<1>2. LocalsSound(u) /\ NodeSound(u) /\ ClaimSound(u)
  BY DEF IInv, Sound
<1>3. /\ Me(u)[1] = u /\ Me(u) # Dummy /\ Me(u) # NULL
      /\ Queued(order) \subseteq Queued(order')
  BY NodeForm DEF Queued
<1>4. Me(u) \in Range(order') /\ Me(u) \notin Range(order) =>
         Awaiting(u) /\ ~Claiming(u) /\ Live(order', head', CancelledNodes', Me(u))
  <2> SUFFICES ASSUME Me(u) \in Range(order'), Me(u) \notin Range(order)
               PROVE  Awaiting(u) /\ ~Claiming(u) /\ Live(order', head', CancelledNodes', Me(u))
    OBVIOUS
  <2>1. Me(u) = Mine(t) /\ Claiming(t) /\ Live(order', head', CancelledNodes', Me(u))
    OBVIOUS
  <2>2. Awaiting(u)
    BY <2>1, NotClaimed
  <2> QED BY <2>1, <2>2 DEF Awaiting, Claiming, AwaitPcs, UnparkPcs
<1>5. LocalsSound(u)'
  <2>1. Range(order) \subseteq Range(order')
    OBVIOUS
  <2> QED BY <1>1, <1>2, <1>3, <2>1 DEF LocalsSound, Queued
<1>6. NodeSound(u)'
  <2>1. Fresh(u) => Me(u) \notin Range(order')
    BY <1>2, <1>4 DEF NodeSound, Fresh, Awaiting, At, AwaitPcs, UnparkPcs
  <2>2. /\ th[u].pc \in LivePcs \/ (Awaiting(u) /\ Me(u) \in Range(order')) => ThisLive(Me(u))'
        /\ Leaving(u) => Retired(order', head', CancelledNodes', Me(u))
    BY <1>1, <1>2, <1>3, <1>4 DEF NodeSound, ThisLive, Live, Retired
  <2>3. GivenUp(u) => Me(u) \in Range(order') /\ Me(u) \in CancelledNodes'
    BY <1>2 DEF NodeSound, Queued
  <2>4. th[u].pc \in LinkedPcs => Me(u) \in Range(order)
    <3>1. th[u].pc \in LinkedPcs => th[u].pc \in LivePcs \/ GivenUp(u)
      BY DEF LinkedPcs, LivePcs, GivenUp, CancelledPcs, FirstPcs
    <3> QED BY <1>2, <3>1 DEF NodeSound, ThisLive, Live
  <2>5. th[u].pc \in LinkedPcs => th[u].pred = node'[Me(u)].prev
    BY <1>2, <1>3, <2>4 DEF NodeSound
  <2>6. th[u].pc \in FirstPcs => th[u].pred = head'
    BY <1>2 DEF NodeSound
  <2> QED BY <1>1, <2>1, <2>2, <2>3, <2>5, <2>6 DEF NodeSound
<1>7. ClaimSound(u)'
  <2> SUFFICES ASSUME Claiming(u) PROVE ClaimSound(u)'
    BY <1>1 DEF ClaimSound
  <2>1. /\ Mine(u) \in Nodes \ Queued(order)
        /\ node[Mine(u)].ws \notin {CANCELLED, CONDITION}
        /\ th[u].n # NULL => th[th[u].n[1]].i = th[u].n[2] /\ Awaiting(th[u].n[1])
        /\ At(u, "transfer_tail") => node[th[u].n].prev = th[u].pred
        /\ At(u, "inittail") => tail = NULL /\ head = Dummy
    BY <1>2 DEF ClaimSound
  <2>2. Mine(u) \notin Queued(order')
    <3> SUFFICES ASSUME Mine(u) \in Range(order') PROVE FALSE
      BY <2>1 DEF Queued
    <3>1. Mine(u) = Mine(t) /\ Claiming(t)
      BY <2>1 DEF Queued
    <3> QED BY <3>1 DEF IInv, ClaimsExclusive
  <2>3. /\ node'[Mine(u)].ws = node[Mine(u)].ws
        /\ node'[Mine(u)].prev = node[Mine(u)].prev
    OBVIOUS
  <2>4. th[u].n # NULL => th'[th[u].n[1]].i = th[u].n[2] /\ Awaiting(th[u].n[1])'
    <3> SUFFICES ASSUME th[u].n # NULL PROVE th'[th[u].n[1]].i = th[u].n[2] /\ Awaiting(th[u].n[1])'
      OBVIOUS
    <3> DEFINE n == th[u].n
               o == th[u].n[1]
    <3>1. n \in Nodes \ {Dummy} /\ Mine(u) = n
      BY <2>1 DEF Mine, Queued
    <3>2. o \in Threads /\ n = <<n[1], n[2]>> /\ th[o].i = n[2] /\ Awaiting(o)
      BY <2>1, <3>1, NodeForm
    <3>3. CASE o = t
      <4>1. Me(t) = n
        BY <3>2, <3>3 DEF Me
      <4>2. Awaiting(t) /\ Me(t) \notin Range(order) /\ node[Me(t)].ws # CONDITION
        BY <3>1, <4>1, NotClaimed
      <4>3. Awaiting(t)' /\ th'[t].i = th[t].i
        BY <4>2
      <4> QED BY <3>2, <3>3, <4>3
    <3>4. CASE o # t
      <4>1. th'[o] = th[o]
        BY <3>2, <3>4
      <4>2. Awaiting(o)'
        BY <3>2, <4>1 DEF Awaiting, Call
      <4> QED BY <3>2, <4>1, <4>2
    <3> QED BY <3>3, <3>4
  <2>5. At(u, "transfer_tail") => node'[th[u].n].prev = th[u].pred
    <3>1. At(u, "transfer_tail") => th[u].n # NULL
      BY <1>2 DEF LocalsSound, At, TransferPcs
    <3> QED BY <2>1, <2>3, <3>1 DEF Mine
  <2>6. At(u, "inittail") => tail' = NULL /\ head' = Dummy
    BY <2>1
  <2> QED BY <1>1, <2>1, <2>2, <2>3, <2>4, <2>5, <2>6 DEF ClaimSound
<1> QED BY <1>5, <1>6, <1>7 DEF Sound

\* What a step of t must leave alone for the others
Spares(t) ==
    /\ Range(order) \subseteq Range(order')
    /\ \A n \in Range(order') \ Range(order) :
          n = Mine(t) /\ Claiming(t) /\ Live(order', head', CancelledNodes', n)
    /\ \A n \in Queued(order) : n \in CancelledNodes => n \in CancelledNodes'
    /\ \A n \in Range(order) : n[1] # t =>
          /\ ThisLive(n) => Live(order', head', CancelledNodes', n)
          /\ Retired(order, head, CancelledNodes, n) => Retired(order', head', CancelledNodes', n)
          /\ node'[n].prev = node[n].prev
    /\ \A u \in Threads \ {t} : th[u].pc \in FirstPcs => head' = head
    /\ \A u \in Threads \ {t} : Claiming(u) =>
          node'[Mine(u)].ws = node[Mine(u)].ws /\ node'[Mine(u)].prev = node[Mine(u)].prev
    /\ \A u \in Threads \ {t} : At(u, "inittail") => tail' = tail /\ head' = head
    /\ Awaiting(t) /\ Me(t) \notin Range(order) /\ node[Me(t)].ws # CONDITION =>
          Awaiting(t)' /\ th'[t].i = th[t].i

\* A step that may change the queue or the claims on it
LEMMA StepSound ==
    ASSUME IInv, NEW t \in Threads, program' = program, Nodes' = Nodes, TypeOK',
           th' = [th EXCEPT ![t] = th'[t]], th'[t] \in Thread, th'[t].i = th[t].i,
           order' \in Seq(Nodes \ {Dummy}),
           Shape(order', head', tail', Prev', CancelledNodes'),
           Spares(t), Sound(t)',
           \A u \in Threads \ {t} : Claiming(t)' /\ Claiming(u) =>
              Mine(u) # Mine(t)' /\ ~(At(t, "inittail")' /\ At(u, "inittail")),
           \A n \in Nodes : node'[n].ws = CONDITION =>
              /\ n \notin Queued(order')
              /\ (n = Me(t) /\ Awaiting(t)') \/ (n[1] # t /\ node[n].ws = CONDITION),
           \A n \in Nodes \ Queued(order) : node'[n].next = node[n].next \/ node'[n].next = NULL,
           \A n \in Range(order') \ Range(order) : n[2] = th[n[1]].i
    PROVE  IInv'
<1>1. \A u \in Threads \ {t} : th'[u] = th[u]
  BY DEF IInv
<1>2. ASSUME NEW u \in Threads \ {t} PROVE Sound(u)'
  <2>1. /\ \A n \in Range(order') \ Range(order) :
              n = Mine(t) /\ Claiming(t) /\ Live(order', head', CancelledNodes', n)
        /\ Range(order) \subseteq Range(order')
        /\ \A n \in Queued(order) : n \in CancelledNodes => n \in CancelledNodes'
        /\ \A n \in Range(order) : n[1] # t =>
              /\ ThisLive(n) => Live(order', head', CancelledNodes', n)
              /\ Retired(order, head, CancelledNodes, n) => Retired(order', head', CancelledNodes', n)
              /\ node'[n].prev = node[n].prev
        /\ \A v \in Threads \ {t} : th[v].pc \in FirstPcs => head' = head
        /\ \A v \in Threads \ {t} : Claiming(v) =>
              node'[Mine(v)].ws = node[Mine(v)].ws /\ node'[Mine(v)].prev = node[Mine(v)].prev
        /\ \A v \in Threads \ {t} : At(v, "inittail") => tail' = tail /\ head' = head
        /\ Awaiting(t) /\ Me(t) \notin Range(order) /\ node[Me(t)].ws # CONDITION =>
              Awaiting(t)' /\ th'[t].i = th[t].i
    BY DEF Spares
  <2> QED BY <1>1, <2>1, OthersSound, Zenon
<1>3. \A u \in Threads : Sound(u)'
  BY <1>2
<1>4. ClaimsExclusive'
  <2>1. ASSUME NEW u \in Threads \ {t}
        PROVE  (Claiming(u)' <=> Claiming(u)) /\ Mine(u)' = Mine(u) /\ (At(u, "inittail")' <=> At(u, "inittail"))
    BY <1>1 DEF Claiming, At, Mine, Me
  <2>2. At(t, "inittail")' => Claiming(t)'
    BY DEF At, Claiming
  <2>3. \A u \in Threads : At(u, "inittail") => Claiming(u)
    BY DEF At, Claiming
  <2>4. \A u, v \in Threads \ {t} : /\ Claiming(u)' /\ Claiming(v)' /\ Mine(u)' = Mine(v)' => u = v
                                    /\ At(u, "inittail")' /\ At(v, "inittail")' => u = v
    BY <2>1 DEF IInv, ClaimsExclusive
  <2>5. \A u \in Threads \ {t} : /\ Claiming(u)' /\ Claiming(t)' => Mine(u)' # Mine(t)'
                                 /\ ~(At(u, "inittail")' /\ At(t, "inittail")')
    BY <2>1, <2>2, <2>3
  <2> QED BY <2>4, <2>5 DEF ClaimsExclusive
<1>5. ConditionNodes'
  <2> SUFFICES ASSUME NEW n \in Nodes, node'[n].ws = CONDITION
               PROVE  n \notin Queued(order') /\ th'[n[1]].i = n[2] /\ Awaiting(n[1])'
    BY DEF ConditionNodes
  <2>1. n \notin Queued(order') /\ n # Dummy
    BY DEF Queued
  <2>2. CASE n = Me(t) /\ Awaiting(t)'
    BY <2>1, <2>2, NodeForm
  <2>3. CASE n[1] # t /\ node[n].ws = CONDITION
    <3>1. th[n[1]].i = n[2] /\ Awaiting(n[1]) /\ n[1] \in Threads
      BY <2>1, <2>3, NodeForm DEF IInv, ConditionNodes
    <3>2. th'[n[1]] = th[n[1]]
      BY <1>1, <2>3, <3>1
    <3> QED BY <2>1, <3>1, <3>2 DEF Awaiting, Call
  <2> QED BY <2>2, <2>3
<1>6. Unqueued'
  <2>1. \A n \in Nodes \ Queued(order') : n \notin Queued(order)
    BY DEF Spares, Queued
  <2> QED BY <2>1, Zenon DEF IInv, Unqueued
<1>7. Past'
  <2> SUFFICES ASSUME NEW n \in Range(order') PROVE n[2] <= th'[n[1]].i
    BY DEF Past
  <2>1. n \in Nodes \ {Dummy}
    BY Elements
  <2>2. n[1] \in Threads /\ n[2] \in Nat
    BY <2>1, NodeForm
  <2>3. th'[n[1]].i = th[n[1]].i /\ th[n[1]].i \in Nat
    BY <1>1, <2>2, Zenon DEF IInv, Thread
  <2>4. n[2] <= th[n[1]].i
    BY <2>2, <2>3 DEF IInv, Past
  <2> QED BY <2>3, <2>4
<1>8. (program \in Programs /\ Nodes = NewNodes)'
  BY DEF IInv, NewNodes
<1>9. th' \in [Threads -> Thread]'
  BY DEF IInv, Thread
<1> QED BY <1>3, <1>4, <1>5, <1>6, <1>7, <1>8, <1>9 DEF IInv

\* A thread that does not await has no node in a condition queue.
LEMMA NoneWaits ==
    ASSUME IInv, NEW t \in Threads, ~Awaiting(t)
    PROVE  \A n \in Nodes : node[n].ws = CONDITION => n[1] # t /\ n \notin Queued(order)
  BY DEF IInv, ConditionNodes

\* A step that neither enqueues nor moves head and tail
LEMMA SparesKept ==
    ASSUME IInv, NEW t \in Threads, order' = order, head' = head, tail' = tail,
           \A n \in Queued(order) : n \in CancelledNodes' <=> n \in CancelledNodes,
           \A n \in Range(order) : n[1] # t => node'[n].prev = node[n].prev,
           \A u \in Threads \ {t} : Claiming(u) =>
              node'[Mine(u)].ws = node[Mine(u)].ws /\ node'[Mine(u)].prev = node[Mine(u)].prev,
           Awaiting(t) /\ Me(t) \notin Range(order) /\ node[Me(t)].ws # CONDITION =>
              Awaiting(t)' /\ th'[t].i = th[t].i
    PROVE  Spares(t)
  BY DEF Spares, ThisLive, Live, Retired, Queued

\* Two claims are for different nodes.
LEMMA OtherClaims ==
    ASSUME IInv, NEW t \in Threads, Claiming(t), NEW u \in Threads \ {t}, Claiming(u)
    PROVE  Mine(u) # Mine(t) /\ ~(At(t, "inittail") /\ At(u, "inittail"))
  BY DEF IInv, ClaimsExclusive

\* Nodes outside the queue change.
LEMMA FrameKept ==
    ASSUME IInv, NEW x, x \notin Queued(order), Nodes' = Nodes,
           \A n \in Nodes \ {x} : node'[n].prev = node[n].prev /\ node'[n].ws = node[n].ws
    PROVE  /\ Shape(order, head, tail, Prev', CancelledNodes')
           /\ \A n \in Queued(order) : n \in CancelledNodes' <=> n \in CancelledNodes
<1> DEFINE S == Nodes \ {Dummy}
<1>1. /\ order \in Seq(S) /\ Dummy \notin S /\ NULL \notin S
      /\ Shape(order, head, tail, Prev, CancelledNodes)
      /\ Queued(order) \subseteq Nodes /\ NULL \notin Nodes
  BY NodeForm DEF IInv
<1>2. /\ \A n \in Queued(order) : Prev'[n] = Prev[n]
      /\ \A n \in Queued(order) : n \in CancelledNodes' <=> n \in CancelledNodes
      /\ NULL \notin CancelledNodes'
  BY <1>1 DEF Prev, CancelledNodes
<1> HIDE DEF S
<1> QED BY <1>1, <1>2, ShapeFrame

\* A step that leaves the queue, its links and the places of all nodes as they are
LEMMA QuietStep ==
    ASSUME IInv, NEW t \in Threads, program' = program, Nodes' = Nodes, TypeOK',
           th' \in [Threads -> Thread], \A u \in Threads \ {t} : th'[u] = th[u],
           order' = order, head' = head, tail' = tail,
           \A n \in Nodes : /\ node'[n].prev = node[n].prev
                            /\ node'[n].ws = CANCELLED <=> node[n].ws = CANCELLED
                            /\ node'[n].ws = CONDITION <=> node[n].ws = CONDITION,
           \A n \in Nodes \ Queued(order) : node'[n].next = node[n].next /\ node'[n].ws = node[n].ws,
           LocalsSound(t)',
           CancelledNodes' = CancelledNodes => NodeSound(t)',
           Claiming(t)' => Claiming(t) /\ Mine(t)' = Mine(t) /\ th'[t].n = th[t].n
                           /\ (At(t, "inittail")' => At(t, "inittail"))
                           /\ (At(t, "transfer_tail")' => At(t, "transfer_tail") /\ th'[t].pred = th[t].pred),
           Awaiting(t) /\ Me(t) \notin Range(order) => Awaiting(t)' /\ th'[t].i = th[t].i,
           th'[t].i >= th[t].i
    PROVE  IInv'
<1>1. CancelledNodes' = CancelledNodes /\ Prev' = Prev
  BY DEF CancelledNodes, Prev
<1>2. ASSUME NEW u \in Threads \ {t} PROVE Sound(u)'
  <2>1. /\ Range(order) \subseteq Range(order')
        /\ Range(order') \ Range(order) = {}
        /\ \A n \in Queued(order) : n \in CancelledNodes => n \in CancelledNodes'
    BY <1>1
  <2>2. \A n \in Range(order) : n[1] # t =>
           /\ ThisLive(n) => Live(order', head', CancelledNodes', n)
           /\ Retired(order, head, CancelledNodes, n) => Retired(order', head', CancelledNodes', n)
           /\ node'[n].prev = node[n].prev
    BY <1>1, NodeForm DEF ThisLive
  <2>3. \A v \in Threads \ {t} : Claiming(v) =>
           /\ node'[Mine(v)].ws = node[Mine(v)].ws
           /\ node'[Mine(v)].prev = node[Mine(v)].prev
    BY DEF IInv, Sound, ClaimSound
  <2> QED BY <2>1, <2>2, <2>3, OthersSound, Zenon
<1>3. Sound(t)'
  <2>1. LocalsSound(t)' /\ NodeSound(t)'
    BY <1>1
  <2>2. ClaimSound(t)'
    <3> SUFFICES ASSUME Claiming(t)' PROVE ClaimSound(t)'
      BY DEF ClaimSound
    <3>1. /\ Claiming(t) /\ Mine(t)' = Mine(t) /\ th'[t].n = th[t].n
          /\ At(t, "inittail")' => At(t, "inittail")
          /\ At(t, "transfer_tail")' => At(t, "transfer_tail") /\ th'[t].pred = th[t].pred
      OBVIOUS
    <3>2. /\ Mine(t) \in Nodes \ Queued(order)
          /\ node[Mine(t)].ws \notin {CANCELLED, CONDITION}
          /\ th[t].n # NULL => th[th[t].n[1]].i = th[t].n[2] /\ Awaiting(th[t].n[1])
          /\ At(t, "inittail") => tail = NULL /\ head = Dummy
      BY <3>1 DEF IInv, Sound, ClaimSound
    <3>3. th[t].n # NULL => th'[th[t].n[1]].i = th[t].n[2] /\ Awaiting(th[t].n[1])'
      <4> SUFFICES ASSUME th[t].n # NULL PROVE th'[th[t].n[1]].i = th[t].n[2] /\ Awaiting(th[t].n[1])'
        OBVIOUS
      <4> DEFINE o == th[t].n[1]
      <4>1. o \in Threads
        BY <3>2, NodeForm DEF Mine, Queued
      <4>2. o # t
        BY <3>1, <3>2 DEF Awaiting, Claiming, AwaitPcs, UnparkPcs
      <4>3. th'[o] = th[o]
        BY <4>1, <4>2
      <4> QED BY <3>2, <4>3 DEF Awaiting, Call
    <3>4. At(t, "transfer_tail")' => node'[th'[t].n].prev = th'[t].pred
      <4> SUFFICES ASSUME At(t, "transfer_tail")' PROVE node'[th'[t].n].prev = th'[t].pred
        OBVIOUS
      <4>1. At(t, "transfer_tail") /\ th'[t].pred = th[t].pred /\ th'[t].n = th[t].n
        BY <3>1
      <4>2. th[t].n # NULL /\ th[t].n \in Nodes /\ node[th[t].n].prev = th[t].pred
        BY <3>2, <4>1 DEF IInv, Sound, LocalsSound, ClaimSound, TransferPcs, At, Mine
      <4> QED BY <4>1, <4>2
    <3> QED BY <3>1, <3>2, <3>3, <3>4 DEF ClaimSound
  <2> QED BY <2>1, <2>2 DEF Sound
<1>4. \A u \in Threads : Sound(u)'
  BY <1>2, <1>3
<1>5. ClaimsExclusive'
  <2>1. ASSUME NEW u \in Threads PROVE (Claiming(u)' => Claiming(u) /\ Mine(u)' = Mine(u))
                                       /\ (At(u, "inittail")' => At(u, "inittail"))
    <3>1. CASE u = t
      BY <3>1 DEF Claiming, At
    <3>2. CASE u # t
      BY <3>2 DEF Claiming, At, Mine, Me
    <3> QED BY <3>1, <3>2
  <2> QED BY <2>1 DEF IInv, ClaimsExclusive
<1>6. ConditionNodes'
  <2> SUFFICES ASSUME NEW n \in Nodes, node'[n].ws = CONDITION
               PROVE  n \notin Queued(order) /\ th'[n[1]].i = n[2] /\ Awaiting(n[1])'
    BY DEF ConditionNodes
  <2>1. n \notin Queued(order) /\ th[n[1]].i = n[2] /\ Awaiting(n[1])
    BY DEF IInv, ConditionNodes
  <2>2. n[1] \in Threads /\ n = <<n[1], n[2]>> /\ n \notin Range(order)
    BY <2>1, NodeForm DEF Queued
  <2>3. CASE n[1] = t
    BY <2>1, <2>2, <2>3 DEF Me
  <2>4. CASE n[1] # t
    <3>1. th'[n[1]] = th[n[1]]
      BY <2>2, <2>4
    <3> QED BY <2>1, <3>1 DEF Awaiting, Call
  <2> QED BY <2>1, <2>3, <2>4
<1>7. Past'
  <2>1. \A n \in Range(order) : n[2] <= th[n[1]].i /\ n[1] \in Threads /\ n[2] \in Nat
    BY NodeForm DEF IInv, Past
  <2>2. ASSUME NEW u \in Threads PROVE th'[u].i >= th[u].i /\ th[u].i \in Nat /\ th'[u].i \in Nat
    <3>1. th[u].i \in Nat /\ th'[u].i \in Nat
      BY DEF IInv, Thread
    <3>2. u = t \/ th'[u] = th[u]
      OBVIOUS
    <3> QED BY <3>1, <3>2
  <2> QED BY <2>1, <2>2 DEF Past
<1>8. Unqueued'
  BY DEF IInv, Unqueued
<1>9. Shape(order, head, tail, Prev, CancelledNodes)'
  BY <1>1 DEF IInv
<1>10. (program \in Programs /\ Nodes = NewNodes)' /\ order' \in Seq(Nodes' \ {Dummy})
  BY DEF IInv, NewNodes
<1>11. th' \in [Threads -> Thread]'
  BY DEF Thread
<1> QED BY <1>4, <1>5, <1>6, <1>7, <1>8, <1>9, <1>10, <1>11 DEF IInv

\* What a step that enqueues nothing owes for its own thread
Proceeds(t) ==
    /\ th' = [th EXCEPT ![t] = th'[t]] /\ th'[t] \in Thread
    /\ th'[t].i \in {th[t].i, th[t].i + 1}
    /\ LocalsSound(t)'
    /\ CancelledNodes' = CancelledNodes => NodeSound(t)'
    /\ ~Claiming(t)'
    /\ Awaiting(t) /\ Me(t) \notin Range(order) => Awaiting(t)' /\ th'[t].i = th[t].i

\* A step that changes the nodes only where the shape of the queue does not show
QuietNodes ==
    /\ Nodes' = Nodes
    /\ node' \in [Nodes -> [ws : {0, CANCELLED, SIGNAL, CONDITION, PROPAGATE}, prev : Nodes \cup {NULL},
                           next : Nodes \cup {NULL}, thread : Threads \cup {NULL}]]
    /\ \A n \in Nodes :
          /\ node'[n].prev = node[n].prev
          /\ node'[n].ws = CANCELLED <=> node[n].ws = CANCELLED
          /\ node'[n].ws = CONDITION <=> node[n].ws = CONDITION
    /\ \A n \in Nodes \ Queued(order) : node'[n].next = node[n].next /\ node'[n].ws = node[n].ws

\* A step that leaves the queue as it is
LEMMA LocalStep ==
    ASSUME IInv, NEW t \in Threads, program' = program,
           state' \in Nat, permit' \in [Threads -> BOOLEAN], intr' \in [Threads -> BOOLEAN],
           order' = order, head' = head, tail' = tail,
           QuietNodes, Proceeds(t)
    PROVE  IInv'
<1>1. th[t].i \in Nat /\ th'[t].i >= th[t].i
  <2>1. th[t].i \in Nat
    BY DEF IInv, Thread
  <2> QED BY <2>1 DEF Proceeds
<1>2. th' \in [Threads -> Thread] /\ \A u \in Threads \ {t} : th'[u] = th[u]
  BY DEF IInv, Proceeds
<1>3. TypeOK'
  BY DEF IInv, TypeOK, QuietNodes
<1>4. ~At(t, "inittail")' /\ ~At(t, "transfer_tail")'
  BY DEF Proceeds, Claiming, At
<1> QED BY <1>1, <1>2, <1>3, <1>4, QuietStep DEF Proceeds, QuietNodes

\* Nodes that do not change at all
LEMMA SameNodes ==
    ASSUME IInv, node' = node
    PROVE  QuietNodes
<1>1. Nodes' = Nodes
  BY DEF Nodes
<1> QED BY <1>1 DEF QuietNodes, IInv, TypeOK

\* A step that changes nothing but the locals of t
LEMMA MoveStep ==
    ASSUME IInv, NEW t \in Threads, program' = program, UNCHANGED <<sync, node, parking, order>>,
           Proceeds(t)
    PROVE  IInv'
<1>1. /\ state' = state /\ head' = head /\ tail' = tail /\ node' = node /\ order' = order
      /\ permit' = permit /\ intr' = intr
  BY DEF sync, parking
<1>2. /\ state' \in Nat /\ permit' \in [Threads -> BOOLEAN] /\ intr' \in [Threads -> BOOLEAN]
  BY <1>1 DEF IInv, TypeOK
<1> QED BY <1>1, <1>2, SameNodes, LocalStep

\* The locals of a thread and its node, in one piece
LEMMA Locals ==
    ASSUME IInv, NEW t \in Threads
    PROVE  /\ th[t] \in Thread /\ th \in [Threads -> Thread]
           /\ LocalsSound(t) /\ NodeSound(t) /\ ClaimSound(t)
           /\ state \in Nat /\ head \in Nodes \cup {NULL} /\ tail \in Nodes \cup {NULL}
           /\ permit \in [Threads -> BOOLEAN] /\ intr \in [Threads -> BOOLEAN]
           /\ \A n \in Nodes : /\ node[n].ws \in {0, CANCELLED, SIGNAL, CONDITION, PROPAGATE}
                               /\ node[n].prev \in Nodes \cup {NULL}
                               /\ node[n].next \in Nodes \cup {NULL}
                               /\ node[n].thread \in Threads \cup {NULL}
  BY DEF IInv, TypeOK, Sound

\* The predecessor of a live node
LEMMA LiveBack ==
    ASSUME IInv, NEW n, ThisLive(n) \/ (n \in Range(order) /\ n \in CancelledNodes)
    PROVE  /\ n \in Nodes \ {Dummy} /\ n \in Range(order) /\ head # NULL /\ tail # NULL
           /\ node[n].prev \in Queued(order) /\ node[n].prev \in Nodes /\ node[n].prev # NULL
           /\ Prev[n] = node[n].prev
<1>1. /\ n \in Range(order) /\ n \in Nodes \ {Dummy}
      /\ n \in CancelledNodes \/ Place(order, head) < Place(order, n)
  BY NodeForm DEF ThisLive, Live
<1>2. /\ order \in Seq(Nodes \ {Dummy}) /\ Shape(order, head, tail, Prev, CancelledNodes)
      /\ NULL \notin Nodes
  BY NodeForm DEF IInv
<1>3. head # NULL /\ tail # NULL /\ Prev[n] \in Queued(order) /\ Prev[n] # NULL
  <2> DEFINE S == Nodes \ {Dummy}
  <2>1. order \in Seq(S) /\ Dummy \notin S /\ NULL \notin S
    BY <1>2
  <2> HIDE DEF S
  <2> QED BY <1>1, <1>2, <2>1, WayBack
<1>4. Prev[n] = node[n].prev
  BY <1>1 DEF Prev
<1> QED BY <1>1, <1>3, <1>4, NodeForm

\* The types of the fields of nodes
LEMMA NodeTypes ==
    ASSUME IInv
    PROVE  /\ node \in [Nodes -> [ws : {0, CANCELLED, SIGNAL, CONDITION, PROPAGATE}, prev : Nodes \cup {NULL},
                                 next : Nodes \cup {NULL}, thread : Threads \cup {NULL}]]
           /\ \A f \in [Nodes -> [ws : {0, CANCELLED, SIGNAL, CONDITION, PROPAGATE},
                                  prev : Nodes \cup {NULL}, next : Nodes \cup {NULL},
                                  thread : Threads \cup {NULL}]] : DOMAIN f = Nodes
  BY DEF IInv, TypeOK

\* A node of the queue is linked to another one.
LEMMA NextChanged ==
    ASSUME IInv, NEW x \in Queued(order), NEW y \in Nodes \cup {NULL},
           node' = [node EXCEPT ![x].next = y]
    PROVE  QuietNodes
<1>1. x \in Nodes
  BY NodeForm
<1>2. node' \in [Nodes -> [ws : {0, CANCELLED, SIGNAL, CONDITION, PROPAGATE}, prev : Nodes \cup {NULL},
                           next : Nodes \cup {NULL}, thread : Threads \cup {NULL}]]
  BY <1>1, NodeTypes
<1>3. Nodes' = Nodes
  BY <1>2 DEF Nodes
<1>4. \A n \in Nodes : /\ node'[n].prev = node[n].prev /\ node'[n].ws = node[n].ws
                       /\ n # x => node'[n].next = node[n].next
  BY <1>1, NodeTypes
<1> QED BY <1>2, <1>3, <1>4 DEF QuietNodes

\* A node's thread field changes.
LEMMA ThreadChanged ==
    ASSUME IInv, NEW x \in Nodes, NEW y \in Threads \cup {NULL},
           node' = [node EXCEPT ![x].thread = y]
    PROVE  QuietNodes
<1>2. node' \in [Nodes -> [ws : {0, CANCELLED, SIGNAL, CONDITION, PROPAGATE}, prev : Nodes \cup {NULL},
                           next : Nodes \cup {NULL}, thread : Threads \cup {NULL}]]
  BY NodeTypes
<1>3. Nodes' = Nodes
  BY <1>2 DEF Nodes
<1>4. \A n \in Nodes : node'[n].prev = node[n].prev /\ node'[n].ws = node[n].ws /\ node'[n].next = node[n].next
  BY NodeTypes
<1> QED BY <1>2, <1>3, <1>4 DEF QuietNodes

\* The status of a node of the queue changes, not from cancelled.
LEMMA StatusChanged ==
    ASSUME IInv, NEW x \in Queued(order), NEW w, w <= 0, NEW v \in {0, SIGNAL, PROPAGATE},
           compareAndSetWaitStatus(x, w, v)
    PROVE  QuietNodes
<1>1. x \in Nodes /\ node[x].ws # CONDITION
  BY NodeForm DEF IInv, ConditionNodes
<1>2. CASE node[x].ws # w
  BY <1>2, SameNodes DEF compareAndSetWaitStatus
<1>3. CASE node[x].ws = w
  <2>1. node' = [node EXCEPT ![x].ws = v] /\ node[x].ws # CANCELLED
    BY <1>3 DEF compareAndSetWaitStatus, CANCELLED
  <2>2. node' \in [Nodes -> [ws : {0, CANCELLED, SIGNAL, CONDITION, PROPAGATE}, prev : Nodes \cup {NULL},
                             next : Nodes \cup {NULL}, thread : Threads \cup {NULL}]]
    BY <1>1, <2>1, NodeTypes
  <2>3. Nodes' = Nodes
    BY <2>2 DEF Nodes
  <2>4. /\ \A n \in Nodes : /\ node'[n].prev = node[n].prev /\ node'[n].next = node[n].next
                            /\ n # x => node'[n].ws = node[n].ws
        /\ node'[x].ws = v
    BY <1>1, <2>1, NodeTypes
  <2>5. v # CANCELLED /\ v # CONDITION
    BY DEF CANCELLED, CONDITION, SIGNAL, PROPAGATE
  <2> QED BY <1>1, <2>1, <2>2, <2>3, <2>4, <2>5 DEF QuietNodes
<1> QED BY <1>2, <1>3

\* compareAndSetNext on a node of the queue
LEMMA NextCompared ==
    ASSUME IInv, NEW x \in Queued(order), NEW w, NEW y \in Nodes \cup {NULL},
           compareAndSetNext(x, w, y)
    PROVE  QuietNodes
<1>1. CASE node[x].next = w
  BY <1>1, NextChanged, Zenon DEF compareAndSetNext
<1>2. CASE node[x].next # w
  BY <1>2, SameNodes DEF compareAndSetNext
<1> QED BY <1>1, <1>2

\* The head is in the queue.
LEMMA HeadQueued ==
    ASSUME IInv
    PROVE  head \in Queued(order) \cup {NULL}
  BY DEF IInv, Shape, Queued

\* The call after the one that ends
LEMMA NextCall ==
    ASSUME IInv, NEW t \in Threads, th[t].pc # "done"
    PROVE  /\ th[t].i \in Nat \ {0} /\ th[t].i + 1 \in Nat \ {0}
           /\ th[t].i \in DOMAIN program[t]
           /\ th[t].i # Len(program[t]) => th[t].i + 1 \in DOMAIN program[t]
           /\ <<t, th[t].i + 1>> \notin Range(order)
<1>1. th[t].i \in Nat \ {0} /\ th[t].i \in DOMAIN program[t]
  BY Locals DEF LocalsSound, Thread
<1>2. DOMAIN program[t] = 1 .. Len(program[t]) /\ Len(program[t]) \in Nat \ {0}
  BY Calls DEF IInv
<1>3. <<t, th[t].i + 1>> \notin Range(order)
  <2> SUFFICES ASSUME <<t, th[t].i + 1>> \in Range(order) PROVE FALSE
    OBVIOUS
  <2>1. th[t].i + 1 <= th[t].i
    BY DEF IInv, Past
  <2> QED BY <1>1, <2>1
<1> QED BY <1>1, <1>2, <1>3

\* No continuation
LEMMA NoReturn ==
    NoRet \notin {"return", "cancel_self", "dcheck", "transferred", "append", "report", "yield",
                 "deadline", "pnext"}
  BY DEF NoRet

\* How the calls go on
LEMMA Continuations ==
    ASSUME NEW t
    PROVE  /\ \A pc : Resume(t, pc) =>
                 th' = [th EXCEPT ![t] = FreshAt(pc, th[t].i, th[t].was, th[t].mode, NULL, NULL, NoRet)]
           /\ EndCall(t) =>
                 th' = [th EXCEPT ![t] = FreshAt(IF th[t].i = Len(program[t]) THEN "done" ELSE "start",
                              th[t].i + 1, FALSE, "none", NULL, NULL, NoRet)]
           /\ Fail(t) =>
                 th' = [th EXCEPT ![t] = FreshAt("done", th[t].i, FALSE, "none", NULL, NULL, NoRet)]
           /\ CancelUnpark(t) =>
                 th' = [th EXCEPT ![t] = FreshAt("unpark", th[t].i, FALSE, "none", Me(t), NULL, "cancel_self")]
           /\ SignalOn(t) =>
                 th' = [th EXCEPT ![t] = FreshAt("all", th[t].i, FALSE, "none", NULL, th[t].q, NoRet)]
<1>1. ASSUME NEW pc, Resume(t, pc)
      PROVE  th' = [th EXCEPT ![t] = FreshAt(pc, th[t].i, th[t].was, th[t].mode, NULL, NULL, NoRet)]
  <2>1. PICK L : L = [Start EXCEPT !.pc = pc, !.i = th[t].i, !.was = th[t].was, !.mode = th[t].mode]
    OBVIOUS
  <2>2. L = FreshAt(pc, th[t].i, th[t].was, th[t].mode, NULL, NULL, NoRet)
    BY ONLY <2>1, Zenon DEF Start, FreshAt, NoRet
  <2>3. th' = [th EXCEPT ![t] = L]
    BY <1>1, <2>1 DEF Resume
  <2> QED BY <2>2, <2>3
<1>2. ASSUME EndCall(t)
      PROVE  th' = [th EXCEPT ![t] = FreshAt(IF th[t].i = Len(program[t]) THEN "done" ELSE "start",
                              th[t].i + 1, FALSE, "none", NULL, NULL, NoRet)]
  <2>1. PICK L : L = [Start EXCEPT !.i = th[t].i + 1,
                      !.pc = IF th[t].i = Len(program[t]) THEN "done" ELSE "start"]
    OBVIOUS
  <2>2. L = FreshAt(IF th[t].i = Len(program[t]) THEN "done" ELSE "start",
                              th[t].i + 1, FALSE, "none", NULL, NULL, NoRet)
    BY ONLY <2>1, Zenon DEF Start, FreshAt, NoRet
  <2>3. th' = [th EXCEPT ![t] = L]
    BY <1>2, <2>1 DEF EndCall
  <2> QED BY <2>2, <2>3
<1>3. ASSUME Fail(t)
      PROVE  th' = [th EXCEPT ![t] = FreshAt("done", th[t].i, FALSE, "none", NULL, NULL, NoRet)]
  <2>1. PICK L : L = [Start EXCEPT !.i = th[t].i, !.pc = "done"]
    OBVIOUS
  <2>2. L = FreshAt("done", th[t].i, FALSE, "none", NULL, NULL, NoRet)
    BY ONLY <2>1, Zenon DEF Start, FreshAt, NoRet
  <2>3. th' = [th EXCEPT ![t] = L]
    BY <1>3, <2>1 DEF Fail
  <2> QED BY <2>2, <2>3
<1>4. ASSUME CancelUnpark(t)
      PROVE  th' = [th EXCEPT ![t] = FreshAt("unpark", th[t].i, FALSE, "none", Me(t), NULL, "cancel_self")]
  <2>1. PICK L : L = [Start EXCEPT !.pc = "unpark", !.i = th[t].i, !.h = Me(t), !.ret = "cancel_self"]
    OBVIOUS
  <2>2. L = FreshAt("unpark", th[t].i, FALSE, "none", Me(t), NULL, "cancel_self")
    BY ONLY <2>1, Zenon DEF Start, FreshAt, NoRet
  <2>3. th' = [th EXCEPT ![t] = L]
    BY <1>4, <2>1 DEF CancelUnpark
  <2> QED BY <2>2, <2>3
<1>5. ASSUME SignalOn(t)
      PROVE  th' = [th EXCEPT ![t] = FreshAt("all", th[t].i, FALSE, "none", NULL, th[t].q, NoRet)]
  <2>1. PICK L : L = [Start EXCEPT !.i = th[t].i, !.pc = "all", !.q = th[t].q]
    OBVIOUS
  <2>2. L = FreshAt("all", th[t].i, FALSE, "none", NULL, th[t].q, NoRet)
    BY ONLY <2>1, Zenon DEF Start, FreshAt, NoRet
  <2>3. th' = [th EXCEPT ![t] = L]
    BY <1>5, <2>1 DEF SignalOn
  <2> QED BY <2>2, <2>3
<1> QED BY <1>1, <1>2, <1>3, <1>4, <1>5, Zenon

\* The fields and types of fresh locals
LEMMA FreshFields ==
    ASSUME NEW pc \in Pcs, NEW i \in Nat \ {0}, NEW was \in BOOLEAN,
           NEW mode \in {"none", "THROW_IE", "REINTERRUPT"}, NEW h \in Nodes \cup {NULL},
           NEW q \in Nodes \cup {NULL}, NEW ret \in Rets,
           NEW L, L = FreshAt(pc, i, was, mode, h, q, ret)
    PROVE  /\ L \in Thread
           /\ L.pc = pc /\ L.i = i /\ L.was = was /\ L.pred = NULL /\ L.predNext = NULL /\ L.ws = 0
           /\ L.s = NULL /\ L.q = q /\ L.h = h /\ L.u = NULL /\ L.ret = ret /\ L.ret2 = NoRet
           /\ L.n = NULL /\ L.mode = mode
  BY DEF FreshAt, Thread

\* A thread between two calls
LEMMA IdleSound ==
    ASSUME NEW t, th'[t].pc \in {"start", "done"}, th'[t].ret2 = NoRet,
           <<t, th'[t].i>> \notin Range(order')
    PROVE  NodeSound(t)'
<1>1. ~(th'[t].pc \in LivePcs \cup LinkedPcs \cup FirstPcs \cup RetiredPcs \cup UnparkPcs \cup SharedPcs
         \cup CancelledPcs \cup AwaitPcs \cup {"rhead", "rws", "return"})
  BY DEF LivePcs, FirstPcs, RetiredPcs, UnparkPcs, SharedPcs, CancelledPcs, AwaitPcs, LinkedPcs
<1>2. ~Awaiting(t)' /\ ~Leaving(t)' /\ ~GivenUp(t)'
  BY <1>1 DEF Awaiting, Leaving, GivenUp, At
<1>3. Me(t)' \notin Range(order')
  BY DEF Me
<1> QED BY <1>1, <1>2, <1>3 DEF NodeSound

\* The node of an acquire or await
LEMMA MyNode ==
    ASSUME IInv, NEW t \in Threads, th[t].pc # "done", Call(t).call \in {"acquire", "await"}
    PROVE  Me(t) \in Nodes /\ Me(t) # Dummy
<1>1. th[t].i \in DOMAIN program[t] /\ program \in Programs /\ Nodes = NewNodes
  BY DEF IInv, Sound, LocalsSound
<1>2. <<t, th[t].i>> \in NewNodes /\ <<t, th[t].i>> # Dummy
  BY <1>1, NodesAre DEF Call
<1> QED BY <1>1, <1>2 DEF Me

\* An await whose node has a successor or is found from the tail has been signalled.
LEMMA Arrived ==
    ASSUME IInv, NEW t \in Threads, th[t].pc \in AwaitPcs,
           node[Me(t)].next # NULL \/ Me(t) \in Queued(order)
    PROVE  ThisLive(Me(t)) /\ Me(t) \in Range(order)
<1>1. Call(t).call = "await" /\ NodeSound(t)
  BY DEF IInv, Sound, LocalsSound
<1>2. Me(t) \in Nodes /\ Me(t) # Dummy
  <2>1. th[t].pc # "done"
    BY DEF AwaitPcs
  <2> QED BY <1>1, <2>1, MyNode
<1>3. Me(t) \in Range(order)
  BY <1>2 DEF IInv, Unqueued, Queued
<1> QED BY <1>1, <1>3 DEF NodeSound, Awaiting

\* The tail and the links of the queue stay in the queue.
LEMMA LinksQueued ==
    ASSUME IInv
    PROVE  /\ tail \in Queued(order) \cup {NULL}
           /\ \A n \in Queued(order) : node[n].prev \in Queued(order) \cup {NULL}
<1>1. Shape(order, head, tail, Prev, CancelledNodes)
  BY DEF IInv
<1>2. \A n \in Queued(order) : Prev[n] = node[n].prev
  BY NodeForm DEF Prev
<1> QED BY <1>1, <1>2 DEF Shape

\* unparkSuccessor
LEMMA UnparkSteps ==
    ASSUME IInv, NEW t \in Threads, program' = program,
           UnparkWs(t) \/ UnparkClear(t) \/ UnparkNext(t) \/ UnparkNextWs(t) \/ UnparkTail(t)
           \/ Scan(t) \/ ScanPrev(t) \/ UnparkThread(t) \/ UnparkPermit(t)
    PROVE  IInv'
<1> USE Locals, NodeForm, NoReturn
<1>0. th \in [Threads -> Thread] /\ t \in Threads
  OBVIOUS
<1>1. CASE UnparkWs(t)
  <2>1. th[t].pc = "unpark"
    BY ONLY <1>1 DEF UnparkWs, At
  <2>2. th[t].h \in Nodes
    BY <2>1 DEF LocalsSound
  <2> DEFINE ws == IF node[th[t].h].ws < 0 THEN node[th[t].h].ws ELSE 0
             pc == IF node[th[t].h].ws < 0 THEN "unpark_clear" ELSE "unpark_next"
  <2> DEFINE L == [th[t] EXCEPT !.ws = ws, !.pc = pc]
  <2>3. th' = [th EXCEPT ![t] = L]
    BY <1>1, <2>1, <2>2, Zenon DEF UnparkWs, Goto
  <2>4. /\ th[t] \in Thread
        /\ ws \in Int
        /\ pc \in Pcs
    BY <1>1, <2>1, <2>2 DEF Pcs, LivePcs, FirstPcs, RetiredPcs, CancelledPcs, AwaitPcs, UnparkPcs,
       SharedPcs, TransferPcs, Rets, CANCELLED, SIGNAL, CONDITION, PROPAGATE
  <2>5. L \in Thread
    <3> HIDE DEF ws, pc
    <3> QED BY ONLY <2>4, Zenon DEF Thread, Rets
  <2>6. th'[t] = L
    BY ONLY <1>0, <2>3
  <2>7. /\ th'[t].pc = pc /\ th'[t].i = th[t].i /\ th'[t].was = th[t].was /\ th'[t].pred = th[t].pred
        /\ th'[t].predNext = th[t].predNext /\ th'[t].ws = ws /\ th'[t].s = th[t].s
        /\ th'[t].q = th[t].q /\ th'[t].h = th[t].h /\ th'[t].u = th[t].u /\ th'[t].ret = th[t].ret
        /\ th'[t].ret2 = th[t].ret2 /\ th'[t].n = th[t].n /\ th'[t].mode = th[t].mode
    BY ONLY <2>6, <2>4 DEF Thread
  <2>8. order' = order /\ program' = program /\ head' = head /\ tail' = tail /\ node' = node
    BY ONLY program' = program, <1>1 DEF UnparkWs, sync
  <2>9. LocalsSound(t)'
    BY <2>1, <2>2, <2>4, <2>7, <2>8 DEF LocalsSound, PredPcs, LinkedPcs, Leaving, At, Call, Pcs,
       LivePcs, FirstPcs, RetiredPcs, CancelledPcs, AwaitPcs, UnparkPcs, SharedPcs, TransferPcs
  <2>10. ASSUME CancelledNodes' = CancelledNodes PROVE NodeSound(t)'
    BY <2>1, <2>2, <2>7, <2>8, <2>10 DEF NodeSound, ThisLive, Fresh, Awaiting, Leaving, GivenUp,
       LinkedPcs, At, Call, Me, Pcs, LivePcs, FirstPcs, RetiredPcs, CancelledPcs, AwaitPcs,
       UnparkPcs, SharedPcs, TransferPcs
  <2>11. ~Claiming(t)' /\ (Awaiting(t) /\ Me(t) \notin Range(order) => Awaiting(t)')
    BY <2>1, <2>2, <2>7, <2>8 DEF Claiming, Awaiting, At, Call, Me, Pcs, LivePcs, FirstPcs,
       RetiredPcs, CancelledPcs, AwaitPcs, UnparkPcs, SharedPcs, TransferPcs
  <2>12. Proceeds(t)
    BY ONLY <2>3, <2>5, <2>6, <2>7, <2>9, <2>10, <2>11, Zenon DEF Proceeds
  <2> QED BY <1>1, <2>12, MoveStep DEF UnparkWs
<1>2. CASE UnparkClear(t)
  <2>1. th[t].pc = "unpark_clear"
    BY ONLY <1>2 DEF UnparkClear, At
  <2>2. th[t].h \in Queued(order) /\ th[t].ws <= 0
    BY <2>1 DEF LocalsSound, At, Thread
  <2> DEFINE L == [th[t] EXCEPT !.pc = "unpark_next", !.ws = 0]
  <2>3. th' = [th EXCEPT ![t] = L]
    BY <1>2, <2>1, <2>2, Zenon DEF UnparkClear, Goto
  <2>4. /\ th[t] \in Thread
        /\ "unpark_next" \in Pcs
        /\ 0 \in Int
    BY <1>2, <2>1, <2>2 DEF Pcs, LivePcs, FirstPcs, RetiredPcs, CancelledPcs, AwaitPcs, UnparkPcs,
       SharedPcs, TransferPcs, Rets
  <2>5. L \in Thread
    BY ONLY <2>4, Zenon DEF Thread, Rets
  <2>6. th'[t] = L
    BY ONLY <1>0, <2>3
  <2>7. /\ th'[t].pc = "unpark_next" /\ th'[t].i = th[t].i /\ th'[t].was = th[t].was
        /\ th'[t].pred = th[t].pred /\ th'[t].predNext = th[t].predNext /\ th'[t].ws = 0
        /\ th'[t].s = th[t].s /\ th'[t].q = th[t].q /\ th'[t].h = th[t].h /\ th'[t].u = th[t].u
        /\ th'[t].ret = th[t].ret /\ th'[t].ret2 = th[t].ret2 /\ th'[t].n = th[t].n
        /\ th'[t].mode = th[t].mode
    BY ONLY <2>6, <2>4 DEF Thread
  <2>8. order' = order /\ program' = program /\ head' = head /\ tail' = tail
    BY ONLY program' = program, <1>2 DEF UnparkClear, sync
  <2>9. LocalsSound(t)'
    BY <2>1, <2>2, <2>4, <2>7, <2>8 DEF LocalsSound, PredPcs, LinkedPcs, Leaving, At, Call, Pcs,
       LivePcs, FirstPcs, RetiredPcs, CancelledPcs, AwaitPcs, UnparkPcs, SharedPcs, TransferPcs
  <2>10. ASSUME CancelledNodes' = CancelledNodes PROVE NodeSound(t)'
    BY <2>1, <2>2, <2>7, <2>8, <2>10 DEF NodeSound, ThisLive, Fresh, Awaiting, Leaving, GivenUp,
       LinkedPcs, At, Call, Me, Pcs, LivePcs, FirstPcs, RetiredPcs, CancelledPcs, AwaitPcs,
       UnparkPcs, SharedPcs, TransferPcs
  <2>11. ~Claiming(t)' /\ (Awaiting(t) /\ Me(t) \notin Range(order) => Awaiting(t)')
    BY <2>1, <2>2, <2>7, <2>8 DEF Claiming, Awaiting, At, Call, Me, Pcs, LivePcs, FirstPcs,
       RetiredPcs, CancelledPcs, AwaitPcs, UnparkPcs, SharedPcs, TransferPcs
  <2>12. Proceeds(t)
    BY ONLY <2>3, <2>5, <2>6, <2>7, <2>9, <2>10, <2>11, Zenon DEF Proceeds
  <2>13. QuietNodes
    BY <1>2, <2>1, <2>2, StatusChanged DEF UnparkClear
  <2>14. state' \in Nat /\ permit' \in [Threads -> BOOLEAN] /\ intr' \in [Threads -> BOOLEAN]
    BY <1>2, <2>1, <2>2 DEF UnparkClear, sync, parking
  <2> QED BY <2>8, <2>12, <2>14, <2>13, LocalStep
<1>3. CASE UnparkNext(t)
  <2>1. th[t].pc = "unpark_next"
    BY ONLY <1>3 DEF UnparkNext, At
  <2>2. th[t].h \in Nodes
    BY <2>1 DEF LocalsSound
  <2> DEFINE s == node[th[t].h].next
             pc == IF node[th[t].h].next = NULL THEN "unpark_tail" ELSE "unpark_next_ws"
  <2> DEFINE L == [th[t] EXCEPT !.s = s, !.pc = pc]
  <2>3. th' = [th EXCEPT ![t] = L]
    BY <1>3, <2>1, <2>2, Zenon DEF UnparkNext, Goto
  <2>4. /\ th[t] \in Thread
        /\ s \in Nodes \cup {NULL}
        /\ pc \in Pcs
    BY <1>3, <2>1, <2>2 DEF Pcs, LivePcs, FirstPcs, RetiredPcs, CancelledPcs, AwaitPcs, UnparkPcs,
       SharedPcs, TransferPcs, Rets
  <2>5. L \in Thread
    <3> HIDE DEF s, pc
    <3> QED BY ONLY <2>4, Zenon DEF Thread, Rets
  <2>6. th'[t] = L
    BY ONLY <1>0, <2>3
  <2>7. /\ th'[t].pc = pc /\ th'[t].i = th[t].i /\ th'[t].was = th[t].was /\ th'[t].pred = th[t].pred
        /\ th'[t].predNext = th[t].predNext /\ th'[t].ws = th[t].ws /\ th'[t].s = s
        /\ th'[t].q = th[t].q /\ th'[t].h = th[t].h /\ th'[t].u = th[t].u /\ th'[t].ret = th[t].ret
        /\ th'[t].ret2 = th[t].ret2 /\ th'[t].n = th[t].n /\ th'[t].mode = th[t].mode
    BY ONLY <2>6, <2>4 DEF Thread
  <2>8. order' = order /\ program' = program /\ head' = head /\ tail' = tail /\ node' = node
    BY ONLY program' = program, <1>3 DEF UnparkNext, sync
  <2>9. LocalsSound(t)'
    BY <2>1, <2>2, <2>4, <2>7, <2>8 DEF LocalsSound, PredPcs, LinkedPcs, Leaving, At, Call, Pcs,
       LivePcs, FirstPcs, RetiredPcs, CancelledPcs, AwaitPcs, UnparkPcs, SharedPcs, TransferPcs
  <2>10. ASSUME CancelledNodes' = CancelledNodes PROVE NodeSound(t)'
    BY <2>1, <2>2, <2>7, <2>8, <2>10 DEF NodeSound, ThisLive, Fresh, Awaiting, Leaving, GivenUp,
       LinkedPcs, At, Call, Me, Pcs, LivePcs, FirstPcs, RetiredPcs, CancelledPcs, AwaitPcs,
       UnparkPcs, SharedPcs, TransferPcs
  <2>11. ~Claiming(t)' /\ (Awaiting(t) /\ Me(t) \notin Range(order) => Awaiting(t)')
    BY <2>1, <2>2, <2>7, <2>8 DEF Claiming, Awaiting, At, Call, Me, Pcs, LivePcs, FirstPcs,
       RetiredPcs, CancelledPcs, AwaitPcs, UnparkPcs, SharedPcs, TransferPcs
  <2>12. Proceeds(t)
    BY ONLY <2>3, <2>5, <2>6, <2>7, <2>9, <2>10, <2>11, Zenon DEF Proceeds
  <2> QED BY <1>3, <2>12, MoveStep DEF UnparkNext
<1>4. CASE UnparkNextWs(t)
  <2>1. th[t].pc = "unpark_next_ws"
    BY ONLY <1>4 DEF UnparkNextWs, At
  <2> DEFINE pc == IF node[th[t].s].ws > 0 THEN "unpark_tail" ELSE "unpark_thread"
  <2> DEFINE L == [th[t] EXCEPT !.pc = pc]
  <2>2. th' = [th EXCEPT ![t] = L]
    BY <1>4, <2>1 DEF UnparkNextWs, Goto
  <2>3. /\ th[t] \in Thread
        /\ pc \in Pcs
    BY <1>4, <2>1 DEF Pcs, LivePcs, FirstPcs, RetiredPcs, CancelledPcs, AwaitPcs, UnparkPcs,
       SharedPcs, TransferPcs, Rets
  <2>4. L \in Thread
    <3> HIDE DEF pc
    <3> QED BY ONLY <2>3 DEF Thread, Rets
  <2>5. th'[t] = L
    BY ONLY <1>0, <2>2
  <2>6. /\ th'[t].pc = pc /\ th'[t].i = th[t].i /\ th'[t].was = th[t].was /\ th'[t].pred = th[t].pred
        /\ th'[t].predNext = th[t].predNext /\ th'[t].ws = th[t].ws /\ th'[t].s = th[t].s
        /\ th'[t].q = th[t].q /\ th'[t].h = th[t].h /\ th'[t].u = th[t].u /\ th'[t].ret = th[t].ret
        /\ th'[t].ret2 = th[t].ret2 /\ th'[t].n = th[t].n /\ th'[t].mode = th[t].mode
    BY ONLY <2>5, <2>3 DEF Thread
  <2>7. order' = order /\ program' = program /\ head' = head /\ tail' = tail /\ node' = node
    BY ONLY program' = program, <1>4 DEF UnparkNextWs, sync
  <2>8. LocalsSound(t)'
    BY <2>1, <2>3, <2>6, <2>7 DEF LocalsSound, PredPcs, LinkedPcs, Leaving, At, Call, Pcs, LivePcs,
       FirstPcs, RetiredPcs, CancelledPcs, AwaitPcs, UnparkPcs, SharedPcs, TransferPcs
  <2>9. ASSUME CancelledNodes' = CancelledNodes PROVE NodeSound(t)'
    BY <2>1, <2>6, <2>7, <2>9 DEF NodeSound, ThisLive, Fresh, Awaiting, Leaving, GivenUp, LinkedPcs,
       At, Call, Me, Pcs, LivePcs, FirstPcs, RetiredPcs, CancelledPcs, AwaitPcs, UnparkPcs,
       SharedPcs, TransferPcs
  <2>10. ~Claiming(t)' /\ (Awaiting(t) /\ Me(t) \notin Range(order) => Awaiting(t)')
    BY <2>1, <2>6, <2>7 DEF Claiming, Awaiting, At, Call, Me, Pcs, LivePcs, FirstPcs, RetiredPcs,
       CancelledPcs, AwaitPcs, UnparkPcs, SharedPcs, TransferPcs
  <2>11. Proceeds(t)
    BY ONLY <2>2, <2>4, <2>5, <2>6, <2>8, <2>9, <2>10, Zenon DEF Proceeds
  <2> QED BY <1>4, <2>11, MoveStep DEF UnparkNextWs
<1>5. CASE UnparkTail(t)
  <2>1. th[t].pc = "unpark_tail"
    BY ONLY <1>5 DEF UnparkTail, At
  <2> DEFINE L == [th[t] EXCEPT !.pc = "scan", !.s = NULL, !.q = tail]
  <2>2. th' = [th EXCEPT ![t] = L]
    BY <1>5, <2>1, Zenon DEF UnparkTail, Goto
  <2>3. /\ th[t] \in Thread
        /\ "scan" \in Pcs
        /\ NULL \in Nodes \cup {NULL}
        /\ tail \in Nodes \cup {NULL}
    BY <1>5, <2>1 DEF Pcs, LivePcs, FirstPcs, RetiredPcs, CancelledPcs, AwaitPcs, UnparkPcs,
       SharedPcs, TransferPcs, Rets
  <2>4. L \in Thread
    BY ONLY <2>3, Zenon DEF Thread, Rets
  <2>5. th'[t] = L
    BY ONLY <1>0, <2>2
  <2>6. /\ th'[t].pc = "scan" /\ th'[t].i = th[t].i /\ th'[t].was = th[t].was
        /\ th'[t].pred = th[t].pred /\ th'[t].predNext = th[t].predNext /\ th'[t].ws = th[t].ws
        /\ th'[t].s = NULL /\ th'[t].q = tail /\ th'[t].h = th[t].h /\ th'[t].u = th[t].u
        /\ th'[t].ret = th[t].ret /\ th'[t].ret2 = th[t].ret2 /\ th'[t].n = th[t].n
        /\ th'[t].mode = th[t].mode
    BY ONLY <2>5, <2>3 DEF Thread
  <2>7. order' = order /\ program' = program /\ head' = head /\ tail' = tail /\ node' = node
    BY ONLY program' = program, <1>5 DEF UnparkTail, sync
  <2>8. LocalsSound(t)'
    BY <2>1, <2>3, <2>6, <2>7 DEF LocalsSound, PredPcs, LinkedPcs, Leaving, At, Call, Pcs, LivePcs,
       FirstPcs, RetiredPcs, CancelledPcs, AwaitPcs, UnparkPcs, SharedPcs, TransferPcs
  <2>9. ASSUME CancelledNodes' = CancelledNodes PROVE NodeSound(t)'
    BY <2>1, <2>6, <2>7, <2>9 DEF NodeSound, ThisLive, Fresh, Awaiting, Leaving, GivenUp, LinkedPcs,
       At, Call, Me, Pcs, LivePcs, FirstPcs, RetiredPcs, CancelledPcs, AwaitPcs, UnparkPcs,
       SharedPcs, TransferPcs
  <2>10. ~Claiming(t)' /\ (Awaiting(t) /\ Me(t) \notin Range(order) => Awaiting(t)')
    BY <2>1, <2>6, <2>7 DEF Claiming, Awaiting, At, Call, Me, Pcs, LivePcs, FirstPcs, RetiredPcs,
       CancelledPcs, AwaitPcs, UnparkPcs, SharedPcs, TransferPcs
  <2>11. Proceeds(t)
    BY ONLY <2>2, <2>4, <2>5, <2>6, <2>8, <2>9, <2>10, Zenon DEF Proceeds
  <2> QED BY <1>5, <2>11, MoveStep DEF UnparkTail
<1>6. CASE Scan(t) /\ (th[t].q = NULL \/ th[t].q = th[t].h)
  <2>1. th[t].pc = "scan"
    BY ONLY <1>6 DEF Scan, At
  <2>2. th[t].ret \in {"return", "cancel_self", "dcheck"}
    BY <2>1 DEF LocalsSound, UnparkPcs, TransferPcs
  <2> DEFINE pc == IF th[t].s = NULL THEN th[t].ret ELSE "unpark_thread"
  <2> DEFINE L == [th[t] EXCEPT !.q = NULL, !.pc = pc]
  <2>3. th' = [th EXCEPT ![t].q = NULL, ![t].pc = pc]
    BY ONLY <1>6 DEF Scan
  <2>4. th' = [th EXCEPT ![t] = L]
    <3> HIDE DEF pc
    <3> QED BY ONLY <2>3, Zenon
  <2>5. /\ th[t] \in Thread
        /\ NULL \in Nodes \cup {NULL}
        /\ pc \in Pcs
    BY <1>6, <2>1, <2>2 DEF Pcs, LivePcs, FirstPcs, RetiredPcs, CancelledPcs, AwaitPcs, UnparkPcs,
       SharedPcs, TransferPcs, Rets
  <2>6. L \in Thread
    <3> HIDE DEF pc
    <3> QED BY ONLY <2>5, Zenon DEF Thread, Rets
  <2>7. th'[t] = L
    BY ONLY <1>0, <2>4
  <2>8. /\ th'[t].pc = pc /\ th'[t].i = th[t].i /\ th'[t].was = th[t].was /\ th'[t].pred = th[t].pred
        /\ th'[t].predNext = th[t].predNext /\ th'[t].ws = th[t].ws /\ th'[t].s = th[t].s
        /\ th'[t].q = NULL /\ th'[t].h = th[t].h /\ th'[t].u = th[t].u /\ th'[t].ret = th[t].ret
        /\ th'[t].ret2 = th[t].ret2 /\ th'[t].n = th[t].n /\ th'[t].mode = th[t].mode
    BY ONLY <2>7, <2>5 DEF Thread
  <2>9. order' = order /\ program' = program /\ head' = head /\ tail' = tail /\ node' = node
    BY ONLY program' = program, <1>6 DEF Scan, sync
  <2>10. LocalsSound(t)'
    BY <2>1, <2>2, <2>5, <2>8, <2>9 DEF LocalsSound, PredPcs, LinkedPcs, Leaving, At, Call, Pcs,
       LivePcs, FirstPcs, RetiredPcs, CancelledPcs, AwaitPcs, UnparkPcs, SharedPcs, TransferPcs
  <2>11. ASSUME CancelledNodes' = CancelledNodes PROVE NodeSound(t)'
    BY <2>1, <2>2, <2>8, <2>9, <2>11 DEF NodeSound, ThisLive, Fresh, Awaiting, Leaving, GivenUp,
       LinkedPcs, At, Call, Me, Pcs, LivePcs, FirstPcs, RetiredPcs, CancelledPcs, AwaitPcs,
       UnparkPcs, SharedPcs, TransferPcs
  <2>12. ~Claiming(t)' /\ (Awaiting(t) /\ Me(t) \notin Range(order) => Awaiting(t)')
    BY <2>1, <2>2, <2>8, <2>9 DEF Claiming, Awaiting, At, Call, Me, Pcs, LivePcs, FirstPcs,
       RetiredPcs, CancelledPcs, AwaitPcs, UnparkPcs, SharedPcs, TransferPcs
  <2>13. Proceeds(t)
    BY ONLY <2>4, <2>6, <2>7, <2>8, <2>10, <2>11, <2>12, Zenon DEF Proceeds
  <2> QED BY <1>6, <2>13, MoveStep DEF Scan
<1>7. CASE Scan(t) /\ ~(th[t].q = NULL \/ th[t].q = th[t].h)
  <2>1. th[t].pc = "scan"
    BY ONLY <1>7 DEF Scan, At
  <2>2. th[t].q \in Nodes /\ th[t].s \in Nodes \cup {NULL} /\ th[t].q # NULL
    BY <1>7 DEF Thread
  <2> DEFINE s == IF node[th[t].q].ws <= 0 THEN th[t].q ELSE th[t].s
  <2> DEFINE L == [th[t] EXCEPT !.s = s, !.pc = "scan_prev"]
  <2>3. th' = [th EXCEPT ![t].pc = "scan_prev", ![t].s = s]
    BY ONLY <1>7 DEF Scan
  <2>4. th' = [th EXCEPT ![t] = L]
    <3> HIDE DEF s
    <3> QED BY ONLY <2>3, Zenon
  <2>5. /\ th[t] \in Thread
        /\ s \in Nodes \cup {NULL}
        /\ "scan_prev" \in Pcs
    BY <1>7, <2>1, <2>2 DEF Pcs, LivePcs, FirstPcs, RetiredPcs, CancelledPcs, AwaitPcs, UnparkPcs,
       SharedPcs, TransferPcs, Rets
  <2>6. L \in Thread
    <3> HIDE DEF s
    <3> QED BY ONLY <2>5, Zenon DEF Thread, Rets
  <2>7. th'[t] = L
    BY ONLY <1>0, <2>4
  <2>8. /\ th'[t].pc = "scan_prev" /\ th'[t].i = th[t].i /\ th'[t].was = th[t].was
        /\ th'[t].pred = th[t].pred /\ th'[t].predNext = th[t].predNext /\ th'[t].ws = th[t].ws
        /\ th'[t].s = s /\ th'[t].q = th[t].q /\ th'[t].h = th[t].h /\ th'[t].u = th[t].u
        /\ th'[t].ret = th[t].ret /\ th'[t].ret2 = th[t].ret2 /\ th'[t].n = th[t].n
        /\ th'[t].mode = th[t].mode
    BY ONLY <2>7, <2>5 DEF Thread
  <2>9. order' = order /\ program' = program /\ head' = head /\ tail' = tail /\ node' = node
    BY ONLY program' = program, <1>7 DEF Scan, sync
  <2>10. LocalsSound(t)'
    BY <2>1, <2>2, <2>5, <2>8, <2>9 DEF LocalsSound, PredPcs, LinkedPcs, Leaving, At, Call, Pcs,
       LivePcs, FirstPcs, RetiredPcs, CancelledPcs, AwaitPcs, UnparkPcs, SharedPcs, TransferPcs
  <2>11. ASSUME CancelledNodes' = CancelledNodes PROVE NodeSound(t)'
    BY <2>1, <2>2, <2>8, <2>9, <2>11 DEF NodeSound, ThisLive, Fresh, Awaiting, Leaving, GivenUp,
       LinkedPcs, At, Call, Me, Pcs, LivePcs, FirstPcs, RetiredPcs, CancelledPcs, AwaitPcs,
       UnparkPcs, SharedPcs, TransferPcs
  <2>12. ~Claiming(t)' /\ (Awaiting(t) /\ Me(t) \notin Range(order) => Awaiting(t)')
    BY <2>1, <2>2, <2>8, <2>9 DEF Claiming, Awaiting, At, Call, Me, Pcs, LivePcs, FirstPcs,
       RetiredPcs, CancelledPcs, AwaitPcs, UnparkPcs, SharedPcs, TransferPcs
  <2>13. Proceeds(t)
    BY ONLY <2>4, <2>6, <2>7, <2>8, <2>10, <2>11, <2>12, Zenon DEF Proceeds
  <2> QED BY <1>7, <2>13, MoveStep DEF Scan
<1>8. CASE ScanPrev(t)
  <2>1. th[t].pc = "scan_prev"
    BY ONLY <1>8 DEF ScanPrev, At
  <2>2. th[t].q \in Nodes
    BY <2>1 DEF LocalsSound, At, Thread
  <2> DEFINE q == node[th[t].q].prev
  <2> DEFINE L == [th[t] EXCEPT !.pc = "scan", !.q = q]
  <2>3. th' = [th EXCEPT ![t] = L]
    BY <1>8, <2>1, <2>2, Zenon DEF ScanPrev, Goto
  <2>4. /\ th[t] \in Thread
        /\ "scan" \in Pcs
        /\ q \in Nodes \cup {NULL}
    BY <1>8, <2>1, <2>2 DEF Pcs, LivePcs, FirstPcs, RetiredPcs, CancelledPcs, AwaitPcs, UnparkPcs,
       SharedPcs, TransferPcs, Rets
  <2>5. L \in Thread
    <3> HIDE DEF q
    <3> QED BY ONLY <2>4, Zenon DEF Thread, Rets
  <2>6. th'[t] = L
    BY ONLY <1>0, <2>3
  <2>7. /\ th'[t].pc = "scan" /\ th'[t].i = th[t].i /\ th'[t].was = th[t].was
        /\ th'[t].pred = th[t].pred /\ th'[t].predNext = th[t].predNext /\ th'[t].ws = th[t].ws
        /\ th'[t].s = th[t].s /\ th'[t].q = q /\ th'[t].h = th[t].h /\ th'[t].u = th[t].u
        /\ th'[t].ret = th[t].ret /\ th'[t].ret2 = th[t].ret2 /\ th'[t].n = th[t].n
        /\ th'[t].mode = th[t].mode
    BY ONLY <2>6, <2>4 DEF Thread
  <2>8. order' = order /\ program' = program /\ head' = head /\ tail' = tail /\ node' = node
    BY ONLY program' = program, <1>8 DEF ScanPrev, sync
  <2>9. LocalsSound(t)'
    BY <2>1, <2>2, <2>4, <2>7, <2>8 DEF LocalsSound, PredPcs, LinkedPcs, Leaving, At, Call, Pcs,
       LivePcs, FirstPcs, RetiredPcs, CancelledPcs, AwaitPcs, UnparkPcs, SharedPcs, TransferPcs
  <2>10. ASSUME CancelledNodes' = CancelledNodes PROVE NodeSound(t)'
    BY <2>1, <2>2, <2>7, <2>8, <2>10 DEF NodeSound, ThisLive, Fresh, Awaiting, Leaving, GivenUp,
       LinkedPcs, At, Call, Me, Pcs, LivePcs, FirstPcs, RetiredPcs, CancelledPcs, AwaitPcs,
       UnparkPcs, SharedPcs, TransferPcs
  <2>11. ~Claiming(t)' /\ (Awaiting(t) /\ Me(t) \notin Range(order) => Awaiting(t)')
    BY <2>1, <2>2, <2>7, <2>8 DEF Claiming, Awaiting, At, Call, Me, Pcs, LivePcs, FirstPcs,
       RetiredPcs, CancelledPcs, AwaitPcs, UnparkPcs, SharedPcs, TransferPcs
  <2>12. Proceeds(t)
    BY ONLY <2>3, <2>5, <2>6, <2>7, <2>9, <2>10, <2>11, Zenon DEF Proceeds
  <2> QED BY <1>8, <2>12, MoveStep DEF ScanPrev
<1>9. CASE UnparkThread(t)
  <2>1. th[t].pc = "unpark_thread"
    BY ONLY <1>9 DEF UnparkThread, At
  <2>2. th[t].s \in Nodes
    BY <2>1 DEF LocalsSound, At, Thread
  <2>3. th[t].ret \in {"return", "cancel_self", "dcheck", "transferred"}
    BY <2>1 DEF LocalsSound, UnparkPcs
  <2> DEFINE u == node[th[t].s].thread
             pc == IF node[th[t].s].thread = NULL THEN th[t].ret ELSE "unpark_permit"
  <2> DEFINE L == [th[t] EXCEPT !.s = NULL, !.u = u, !.pc = pc]
  <2>4. th' = [th EXCEPT ![t] = L]
    BY <1>9, <2>1, <2>2, <2>3, Zenon DEF UnparkThread, Goto
  <2>5. /\ th[t] \in Thread
        /\ NULL \in Nodes \cup {NULL}
        /\ u \in Threads \cup {NULL}
        /\ pc \in Pcs
    BY <1>9, <2>1, <2>2, <2>3 DEF Pcs, LivePcs, FirstPcs, RetiredPcs, CancelledPcs, AwaitPcs,
       UnparkPcs, SharedPcs, TransferPcs, Rets
  <2>6. L \in Thread
    <3> HIDE DEF u, pc
    <3> QED BY ONLY <2>5, Zenon DEF Thread, Rets
  <2>7. th'[t] = L
    BY ONLY <1>0, <2>4
  <2>8. /\ th'[t].pc = pc /\ th'[t].i = th[t].i /\ th'[t].was = th[t].was /\ th'[t].pred = th[t].pred
        /\ th'[t].predNext = th[t].predNext /\ th'[t].ws = th[t].ws /\ th'[t].s = NULL
        /\ th'[t].q = th[t].q /\ th'[t].h = th[t].h /\ th'[t].u = u /\ th'[t].ret = th[t].ret
        /\ th'[t].ret2 = th[t].ret2 /\ th'[t].n = th[t].n /\ th'[t].mode = th[t].mode
    BY ONLY <2>7, <2>5 DEF Thread
  <2>9. order' = order /\ program' = program /\ head' = head /\ tail' = tail /\ node' = node
    BY ONLY program' = program, <1>9 DEF UnparkThread, sync
  <2>10. LocalsSound(t)'
    BY <2>1, <2>2, <2>3, <2>5, <2>8, <2>9 DEF LocalsSound, PredPcs, LinkedPcs, Leaving, At, Call,
       Pcs, LivePcs, FirstPcs, RetiredPcs, CancelledPcs, AwaitPcs, UnparkPcs, SharedPcs, TransferPcs
  <2>11. ASSUME CancelledNodes' = CancelledNodes PROVE NodeSound(t)'
    BY <2>1, <2>2, <2>3, <2>8, <2>9, <2>11 DEF NodeSound, ThisLive, Fresh, Awaiting, Leaving,
       GivenUp, LinkedPcs, At, Call, Me, Pcs, LivePcs, FirstPcs, RetiredPcs, CancelledPcs, AwaitPcs,
       UnparkPcs, SharedPcs, TransferPcs
  <2>12. ~Claiming(t)' /\ (Awaiting(t) /\ Me(t) \notin Range(order) => Awaiting(t)')
    BY <2>1, <2>2, <2>3, <2>8, <2>9 DEF Claiming, Awaiting, At, Call, Me, Pcs, LivePcs, FirstPcs,
       RetiredPcs, CancelledPcs, AwaitPcs, UnparkPcs, SharedPcs, TransferPcs
  <2>13. Proceeds(t)
    BY ONLY <2>4, <2>6, <2>7, <2>8, <2>10, <2>11, <2>12, Zenon DEF Proceeds
  <2> QED BY <1>9, <2>13, MoveStep DEF UnparkThread
<1>10. CASE UnparkPermit(t)
  <2>1. th[t].pc = "unpark_permit"
    BY ONLY <1>10 DEF UnparkPermit, At
  <2>2. th[t].u \in Threads
    BY <2>1 DEF LocalsSound, At, Thread
  <2>3. th[t].ret \in {"return", "cancel_self", "dcheck", "transferred"}
    BY <2>1 DEF LocalsSound, UnparkPcs
  <2> DEFINE L == [th[t] EXCEPT !.u = NULL, !.pc = th[t].ret]
  <2>4. th' = [th EXCEPT ![t] = L]
    BY <1>10, <2>1, <2>2, <2>3, Zenon DEF UnparkPermit, Goto
  <2>5. /\ th[t] \in Thread
        /\ NULL \in Threads \cup {NULL}
        /\ th[t].ret \in Pcs
    BY <1>10, <2>1, <2>2, <2>3 DEF Pcs, LivePcs, FirstPcs, RetiredPcs, CancelledPcs, AwaitPcs,
       UnparkPcs, SharedPcs, TransferPcs, Rets, Thread
  <2>6. L \in Thread
    BY ONLY <2>5, Zenon DEF Thread, Rets
  <2>7. th'[t] = L
    BY ONLY <1>0, <2>4
  <2>8. /\ th'[t].pc = th[t].ret /\ th'[t].i = th[t].i /\ th'[t].was = th[t].was
        /\ th'[t].pred = th[t].pred /\ th'[t].predNext = th[t].predNext /\ th'[t].ws = th[t].ws
        /\ th'[t].s = th[t].s /\ th'[t].q = th[t].q /\ th'[t].h = th[t].h /\ th'[t].u = NULL
        /\ th'[t].ret = th[t].ret /\ th'[t].ret2 = th[t].ret2 /\ th'[t].n = th[t].n
        /\ th'[t].mode = th[t].mode
    BY ONLY <2>7, <2>5 DEF Thread
  <2>9. order' = order /\ program' = program /\ head' = head /\ tail' = tail /\ node' = node
    BY ONLY program' = program, <1>10 DEF UnparkPermit, sync
  <2>10. LocalsSound(t)'
    BY <2>1, <2>2, <2>3, <2>5, <2>8, <2>9 DEF LocalsSound, PredPcs, LinkedPcs, Leaving, At, Call,
       Pcs, LivePcs, FirstPcs, RetiredPcs, CancelledPcs, AwaitPcs, UnparkPcs, SharedPcs, TransferPcs
  <2>11. ASSUME CancelledNodes' = CancelledNodes PROVE NodeSound(t)'
    BY <2>1, <2>2, <2>3, <2>8, <2>9, <2>11 DEF NodeSound, ThisLive, Fresh, Awaiting, Leaving,
       GivenUp, LinkedPcs, At, Call, Me, Pcs, LivePcs, FirstPcs, RetiredPcs, CancelledPcs, AwaitPcs,
       UnparkPcs, SharedPcs, TransferPcs
  <2>12. ~Claiming(t)' /\ (Awaiting(t) /\ Me(t) \notin Range(order) => Awaiting(t)')
    BY <2>1, <2>2, <2>3, <2>8, <2>9 DEF Claiming, Awaiting, At, Call, Me, Pcs, LivePcs, FirstPcs,
       RetiredPcs, CancelledPcs, AwaitPcs, UnparkPcs, SharedPcs, TransferPcs
  <2>13. Proceeds(t)
    BY ONLY <2>4, <2>6, <2>7, <2>8, <2>10, <2>11, <2>12, Zenon DEF Proceeds
  <2>14. state' \in Nat /\ permit' \in [Threads -> BOOLEAN] /\ intr' \in [Threads -> BOOLEAN]
    BY <1>10, <2>1, <2>2, <2>3 DEF UnparkPermit, sync, parking
  <2> QED BY <2>9, <2>13, <2>14, SameNodes, LocalStep
<1> QED BY <1>1, <1>2, <1>3, <1>4, <1>5, <1>6, <1>7, <1>8, <1>9, <1>10

\* release and releaseShared
LEMMA ReleaseSteps ==
    ASSUME IInv, NEW t \in Threads, program' = program,
           Release(t) \/ ReleaseHead(t) \/ ReleaseWs(t) \/ Return(t) \/ SharedHead(t)
           \/ SharedTail(t) \/ SharedWs(t) \/ SharedSignal(t) \/ SharedPropagate(t)
           \/ SharedCheck(t)
    PROVE  IInv'
<1> USE Locals, NodeForm, NoReturn
<1>0. th \in [Threads -> Thread] /\ t \in Threads
  OBVIOUS
<1>1. CASE Release(t)
  <2>1. th[t].pc = "start" /\ Call(t).call = "release"
    BY ONLY <1>1 DEF Release, At
  <2> DEFINE pc == IF Call(t).shared THEN "dhead" ELSE "rhead"
  <2> DEFINE L == [th[t] EXCEPT !.pc = pc, !.ret2 = "return"]
  <2>2. th' = [th EXCEPT ![t] = L]
    BY <1>1, <2>1, Zenon DEF Release, Goto
  <2>3. /\ th[t] \in Thread
        /\ pc \in Pcs
    BY <1>1, <2>1 DEF Pcs, LivePcs, FirstPcs, RetiredPcs, CancelledPcs, AwaitPcs, UnparkPcs,
       SharedPcs, TransferPcs, Rets
  <2>4. L \in Thread
    <3> HIDE DEF pc
    <3> QED BY ONLY <2>3, Zenon DEF Thread, Rets
  <2>5. th'[t] = L
    BY ONLY <1>0, <2>2
  <2>6. /\ th'[t].pc = pc /\ th'[t].i = th[t].i /\ th'[t].was = th[t].was /\ th'[t].pred = th[t].pred
        /\ th'[t].predNext = th[t].predNext /\ th'[t].ws = th[t].ws /\ th'[t].s = th[t].s
        /\ th'[t].q = th[t].q /\ th'[t].h = th[t].h /\ th'[t].u = th[t].u /\ th'[t].ret = th[t].ret
        /\ th'[t].ret2 = "return" /\ th'[t].n = th[t].n /\ th'[t].mode = th[t].mode
    BY ONLY <2>5, <2>3 DEF Thread
  <2>7. order' = order /\ program' = program /\ head' = head /\ tail' = tail /\ node' = node
    BY ONLY program' = program, <1>1 DEF Release, sync
  <2>8. LocalsSound(t)'
    BY <2>1, <2>3, <2>6, <2>7 DEF LocalsSound, PredPcs, LinkedPcs, Leaving, At, Call, Pcs, LivePcs,
       FirstPcs, RetiredPcs, CancelledPcs, AwaitPcs, UnparkPcs, SharedPcs, TransferPcs
  <2>9. ASSUME CancelledNodes' = CancelledNodes PROVE NodeSound(t)'
    BY <2>1, <2>6, <2>7, <2>9 DEF NodeSound, ThisLive, Fresh, Awaiting, Leaving, GivenUp, LinkedPcs,
       At, Call, Me, Pcs, LivePcs, FirstPcs, RetiredPcs, CancelledPcs, AwaitPcs, UnparkPcs,
       SharedPcs, TransferPcs
  <2>10. ~Claiming(t)' /\ (Awaiting(t) /\ Me(t) \notin Range(order) => Awaiting(t)')
    BY <2>1, <2>6, <2>7 DEF Claiming, Awaiting, At, Call, Me, Pcs, LivePcs, FirstPcs, RetiredPcs,
       CancelledPcs, AwaitPcs, UnparkPcs, SharedPcs, TransferPcs
  <2>11. Proceeds(t)
    BY ONLY <2>2, <2>4, <2>5, <2>6, <2>8, <2>9, <2>10, Zenon DEF Proceeds
  <2>12. state' \in Nat /\ permit' \in [Threads -> BOOLEAN] /\ intr' \in [Threads -> BOOLEAN]
    BY <1>1, <2>1 DEF Release, sync, parking, tryRelease, Kind
  <2> QED BY <2>7, <2>11, <2>12, SameNodes, LocalStep
<1>2. CASE ReleaseHead(t)
  <2>1. th[t].pc = "rhead"
    BY ONLY <1>2 DEF ReleaseHead, At
  <2>2. head \in Queued(order) \cup {NULL} /\ (head # NULL => head \in Nodes)
    BY HeadQueued
  <2> DEFINE pc == IF head = NULL THEN "return" ELSE "rws"
  <2> DEFINE L == [th[t] EXCEPT !.h = head, !.pc = pc]
  <2>3. th' = [th EXCEPT ![t] = L]
    BY <1>2, <2>1, <2>2, Zenon DEF ReleaseHead, Goto
  <2>4. /\ th[t] \in Thread
        /\ head \in Nodes \cup {NULL}
        /\ pc \in Pcs
    BY <1>2, <2>1, <2>2 DEF Pcs, LivePcs, FirstPcs, RetiredPcs, CancelledPcs, AwaitPcs, UnparkPcs,
       SharedPcs, TransferPcs, Rets
  <2>5. L \in Thread
    <3> HIDE DEF pc
    <3> QED BY ONLY <2>4, Zenon DEF Thread, Rets
  <2>6. th'[t] = L
    BY ONLY <1>0, <2>3
  <2>7. /\ th'[t].pc = pc /\ th'[t].i = th[t].i /\ th'[t].was = th[t].was /\ th'[t].pred = th[t].pred
        /\ th'[t].predNext = th[t].predNext /\ th'[t].ws = th[t].ws /\ th'[t].s = th[t].s
        /\ th'[t].q = th[t].q /\ th'[t].h = head /\ th'[t].u = th[t].u /\ th'[t].ret = th[t].ret
        /\ th'[t].ret2 = th[t].ret2 /\ th'[t].n = th[t].n /\ th'[t].mode = th[t].mode
    BY ONLY <2>6, <2>4 DEF Thread
  <2>8. order' = order /\ program' = program /\ head' = head /\ tail' = tail /\ node' = node
    BY ONLY program' = program, <1>2 DEF ReleaseHead, sync
  <2>9. LocalsSound(t)'
    BY <2>1, <2>2, <2>4, <2>7, <2>8 DEF LocalsSound, PredPcs, LinkedPcs, Leaving, At, Call, Pcs,
       LivePcs, FirstPcs, RetiredPcs, CancelledPcs, AwaitPcs, UnparkPcs, SharedPcs, TransferPcs
  <2>10. ASSUME CancelledNodes' = CancelledNodes PROVE NodeSound(t)'
    BY <2>1, <2>2, <2>7, <2>8, <2>10 DEF NodeSound, ThisLive, Fresh, Awaiting, Leaving, GivenUp,
       LinkedPcs, At, Call, Me, Pcs, LivePcs, FirstPcs, RetiredPcs, CancelledPcs, AwaitPcs,
       UnparkPcs, SharedPcs, TransferPcs
  <2>11. ~Claiming(t)' /\ (Awaiting(t) /\ Me(t) \notin Range(order) => Awaiting(t)')
    BY <2>1, <2>2, <2>7, <2>8 DEF Claiming, Awaiting, At, Call, Me, Pcs, LivePcs, FirstPcs,
       RetiredPcs, CancelledPcs, AwaitPcs, UnparkPcs, SharedPcs, TransferPcs
  <2>12. Proceeds(t)
    BY ONLY <2>3, <2>5, <2>6, <2>7, <2>9, <2>10, <2>11, Zenon DEF Proceeds
  <2> QED BY <1>2, <2>12, MoveStep DEF ReleaseHead
<1>3. CASE ReleaseWs(t)
  <2>1. th[t].pc = "rws"
    BY ONLY <1>3 DEF ReleaseWs, At
  <2>2. th[t].h \in Nodes
    BY <2>1 DEF LocalsSound
  <2>3. th[t].ret2 # "pnext"
    BY <2>1 DEF LocalsSound, Pcs, LivePcs, FirstPcs, RetiredPcs, CancelledPcs, AwaitPcs, UnparkPcs,
       SharedPcs, TransferPcs
  <2> DEFINE pc == IF node[th[t].h].ws # 0 THEN "unpark" ELSE "return"
  <2> DEFINE L == [th[t] EXCEPT !.ret = "return", !.pc = pc]
  <2>4. th' = [th EXCEPT ![t] = L]
    BY <1>3, <2>1, <2>2, <2>3, Zenon DEF ReleaseWs, Goto
  <2>5. /\ th[t] \in Thread
        /\ pc \in Pcs
    BY <1>3, <2>1, <2>2, <2>3 DEF Pcs, LivePcs, FirstPcs, RetiredPcs, CancelledPcs, AwaitPcs,
       UnparkPcs, SharedPcs, TransferPcs, Rets
  <2>6. L \in Thread
    <3> HIDE DEF pc
    <3> QED BY ONLY <2>5, Zenon DEF Thread, Rets
  <2>7. th'[t] = L
    BY ONLY <1>0, <2>4
  <2>8. /\ th'[t].pc = pc /\ th'[t].i = th[t].i /\ th'[t].was = th[t].was /\ th'[t].pred = th[t].pred
        /\ th'[t].predNext = th[t].predNext /\ th'[t].ws = th[t].ws /\ th'[t].s = th[t].s
        /\ th'[t].q = th[t].q /\ th'[t].h = th[t].h /\ th'[t].u = th[t].u /\ th'[t].ret = "return"
        /\ th'[t].ret2 = th[t].ret2 /\ th'[t].n = th[t].n /\ th'[t].mode = th[t].mode
    BY ONLY <2>7, <2>5 DEF Thread
  <2>9. order' = order /\ program' = program /\ head' = head /\ tail' = tail /\ node' = node
    BY ONLY program' = program, <1>3 DEF ReleaseWs, sync
  <2>10. LocalsSound(t)'
    BY <2>1, <2>2, <2>3, <2>5, <2>8, <2>9 DEF LocalsSound, PredPcs, LinkedPcs, Leaving, At, Call,
       Pcs, LivePcs, FirstPcs, RetiredPcs, CancelledPcs, AwaitPcs, UnparkPcs, SharedPcs, TransferPcs
  <2>11. ASSUME CancelledNodes' = CancelledNodes PROVE NodeSound(t)'
    BY <2>1, <2>2, <2>3, <2>8, <2>9, <2>11 DEF NodeSound, ThisLive, Fresh, Awaiting, Leaving,
       GivenUp, LinkedPcs, At, Call, Me, Pcs, LivePcs, FirstPcs, RetiredPcs, CancelledPcs, AwaitPcs,
       UnparkPcs, SharedPcs, TransferPcs
  <2>12. ~Claiming(t)' /\ (Awaiting(t) /\ Me(t) \notin Range(order) => Awaiting(t)')
    BY <2>1, <2>2, <2>3, <2>8, <2>9 DEF Claiming, Awaiting, At, Call, Me, Pcs, LivePcs, FirstPcs,
       RetiredPcs, CancelledPcs, AwaitPcs, UnparkPcs, SharedPcs, TransferPcs
  <2>13. Proceeds(t)
    BY ONLY <2>4, <2>6, <2>7, <2>8, <2>10, <2>11, <2>12, Zenon DEF Proceeds
  <2> QED BY <1>3, <2>13, MoveStep DEF ReleaseWs
<1>4. CASE Return(t) /\ Call(t).call = "await"
  <2>1. th[t].pc = "return" /\ Call(t).call = "await"
    BY ONLY <1>4 DEF Return, At
  <2> DEFINE L == FreshAt("onqueue", th[t].i, th[t].was, th[t].mode, NULL, NULL, NoRet)
  <2>2. th' = [th EXCEPT ![t] = L]
    BY <1>4, <2>1, Continuations, Zenon DEF Return, Goto
  <2>3. /\ th[t] \in Thread
        /\ "onqueue" \in Pcs
        /\ th[t].i \in Nat \ {0}
        /\ th[t].was \in BOOLEAN
        /\ th[t].mode \in {"none", "THROW_IE", "REINTERRUPT"}
        /\ NULL \in Nodes \cup {NULL}
        /\ NULL \in Nodes \cup {NULL}
        /\ NoRet \in Rets
    BY <1>4, <2>1 DEF Pcs, LivePcs, FirstPcs, RetiredPcs, CancelledPcs, AwaitPcs, UnparkPcs,
       SharedPcs, TransferPcs, Rets, Thread
  <2>4. /\ L \in Thread
        /\ L.pc = "onqueue" /\ L.i = th[t].i /\ L.was = th[t].was /\ L.pred = NULL /\ L.predNext = NULL
        /\ L.ws = 0 /\ L.s = NULL /\ L.q = NULL /\ L.h = NULL /\ L.u = NULL /\ L.ret = NoRet
        /\ L.ret2 = NoRet /\ L.n = NULL /\ L.mode = th[t].mode
    <3>1. L = [pc |-> "onqueue", i |-> th[t].i, was |-> th[t].was, pred |-> NULL,
              predNext |-> NULL, ws |-> 0, s |-> NULL, q |-> NULL, h |-> NULL, u |-> NULL,
              ret |-> NoRet, ret2 |-> NoRet, n |-> NULL, mode |-> th[t].mode]
      BY ONLY DEF FreshAt
    <3> HIDE DEF L
    <3>2. L \in Thread
      BY ONLY <3>1, <2>3 DEF Thread
    <3> QED BY ONLY <3>1, <3>2
  <2> HIDE DEF L
  <2>5. th'[t] = L
    BY ONLY <1>0, <2>2
  <2>6. /\ th'[t].pc = "onqueue" /\ th'[t].i = th[t].i /\ th'[t].was = th[t].was /\ th'[t].pred = NULL
        /\ th'[t].predNext = NULL /\ th'[t].ws = 0 /\ th'[t].s = NULL /\ th'[t].q = NULL
        /\ th'[t].h = NULL /\ th'[t].u = NULL /\ th'[t].ret = NoRet /\ th'[t].ret2 = NoRet
        /\ th'[t].n = NULL /\ th'[t].mode = th[t].mode
    BY ONLY <2>5, <2>4
  <2>7. order' = order /\ program' = program /\ head' = head /\ tail' = tail /\ node' = node
    BY ONLY program' = program, <1>4 DEF Return, sync
  <2>8. LocalsSound(t)'
    BY <2>1, <2>3, <2>6, <2>7 DEF LocalsSound, PredPcs, LinkedPcs, Leaving, At, Call, Pcs, LivePcs,
       FirstPcs, RetiredPcs, CancelledPcs, AwaitPcs, UnparkPcs, SharedPcs, TransferPcs
  <2>9. ASSUME CancelledNodes' = CancelledNodes PROVE NodeSound(t)'
    BY <2>1, <2>6, <2>7, <2>9 DEF NodeSound, ThisLive, Fresh, Awaiting, Leaving, GivenUp, LinkedPcs,
       At, Call, Me, Pcs, LivePcs, FirstPcs, RetiredPcs, CancelledPcs, AwaitPcs, UnparkPcs,
       SharedPcs, TransferPcs
  <2>10. ~Claiming(t)' /\ (Awaiting(t) /\ Me(t) \notin Range(order) => Awaiting(t)')
    BY <2>1, <2>6, <2>7 DEF Claiming, Awaiting, At, Call, Me, Pcs, LivePcs, FirstPcs, RetiredPcs,
       CancelledPcs, AwaitPcs, UnparkPcs, SharedPcs, TransferPcs
  <2>11. Proceeds(t)
    BY ONLY <2>2, <2>4, <2>5, <2>6, <2>8, <2>9, <2>10, Zenon DEF Proceeds
  <2> QED BY <1>4, <2>11, MoveStep DEF Return
<1>5. CASE Return(t) /\ Call(t).call # "await"
  <2>1. th[t].pc = "return" /\ Call(t).call # "await"
    BY ONLY <1>5 DEF Return, At
  <2>2. /\ th[t].i + 1 \in Nat \ {0} /\ <<t, th[t].i + 1>> \notin Range(order)
        /\ th[t].i # Len(program[t]) => th[t].i + 1 \in DOMAIN program[t]
    BY <2>1, NextCall
  <2> DEFINE pc == IF th[t].i = Len(program[t]) THEN "done" ELSE "start"
  <2> DEFINE L == FreshAt(pc, th[t].i + 1, FALSE, "none", NULL, NULL, NoRet)
  <2>3. th' = [th EXCEPT ![t] = L]
    BY <1>5, <2>1, <2>2, Continuations, Zenon DEF Return, Goto
  <2>4. /\ th[t] \in Thread
        /\ pc \in Pcs
        /\ th[t].i + 1 \in Nat \ {0}
        /\ FALSE \in BOOLEAN
        /\ "none" \in {"none", "THROW_IE", "REINTERRUPT"}
        /\ NULL \in Nodes \cup {NULL}
        /\ NULL \in Nodes \cup {NULL}
        /\ NoRet \in Rets
    BY <1>5, <2>1, <2>2 DEF Pcs, LivePcs, FirstPcs, RetiredPcs, CancelledPcs, AwaitPcs, UnparkPcs,
       SharedPcs, TransferPcs, Rets, Thread
  <2>5. /\ L \in Thread
        /\ L.pc = pc /\ L.i = th[t].i + 1 /\ L.was = FALSE /\ L.pred = NULL /\ L.predNext = NULL
        /\ L.ws = 0 /\ L.s = NULL /\ L.q = NULL /\ L.h = NULL /\ L.u = NULL /\ L.ret = NoRet
        /\ L.ret2 = NoRet /\ L.n = NULL /\ L.mode = "none"
    <3>1. L = [pc |-> pc, i |-> th[t].i + 1, was |-> FALSE, pred |-> NULL, predNext |-> NULL,
              ws |-> 0, s |-> NULL, q |-> NULL, h |-> NULL, u |-> NULL, ret |-> NoRet,
              ret2 |-> NoRet, n |-> NULL, mode |-> "none"]
      BY ONLY DEF FreshAt
    <3> HIDE DEF L, pc
    <3>2. L \in Thread
      BY ONLY <3>1, <2>4 DEF Thread
    <3> QED BY ONLY <3>1, <3>2
  <2> HIDE DEF L
  <2>6. th'[t] = L
    BY ONLY <1>0, <2>3
  <2>7. /\ th'[t].pc = pc /\ th'[t].i = th[t].i + 1 /\ th'[t].was = FALSE /\ th'[t].pred = NULL
        /\ th'[t].predNext = NULL /\ th'[t].ws = 0 /\ th'[t].s = NULL /\ th'[t].q = NULL
        /\ th'[t].h = NULL /\ th'[t].u = NULL /\ th'[t].ret = NoRet /\ th'[t].ret2 = NoRet
        /\ th'[t].n = NULL /\ th'[t].mode = "none"
    BY ONLY <2>6, <2>5
  <2>8. order' = order /\ program' = program /\ head' = head /\ tail' = tail /\ node' = node
    BY ONLY program' = program, <1>5 DEF Return, sync
  <2>9. LocalsSound(t)'
    BY <2>1, <2>2, <2>4, <2>7, <2>8 DEF LocalsSound, PredPcs, LinkedPcs, Leaving, At, Call, Pcs,
       LivePcs, FirstPcs, RetiredPcs, CancelledPcs, AwaitPcs, UnparkPcs, SharedPcs, TransferPcs
  <2>10. ASSUME CancelledNodes' = CancelledNodes PROVE NodeSound(t)'
    <3>1. th'[t].pc \in {"start", "done"}
      BY <2>7
    <3>2. th'[t].i = th[t].i + 1 /\ order' = order /\ <<t, th[t].i + 1>> \notin Range(order)
      BY ONLY <2>2, <2>7, <2>8
    <3>3. <<t, th'[t].i>> \notin Range(order')
      BY ONLY <3>2
    <3> QED BY <3>1, <3>3, <2>7, IdleSound
  <2>11. ~Claiming(t)' /\ ~(Awaiting(t) /\ Me(t) \notin Range(order))
    BY <2>1, <2>2, <2>7, <2>8 DEF Claiming, Awaiting, At, Call, Me, Pcs, LivePcs, FirstPcs,
       RetiredPcs, CancelledPcs, AwaitPcs, UnparkPcs, SharedPcs, TransferPcs
  <2>12. Proceeds(t)
    BY ONLY <2>3, <2>5, <2>6, <2>7, <2>9, <2>10, <2>11, Zenon DEF Proceeds
  <2> QED BY <1>5, <2>12, MoveStep DEF Return
<1>6. CASE SharedHead(t)
  <2>1. th[t].pc = "dhead"
    BY ONLY <1>6 DEF SharedHead, At
  <2>2. head \in Queued(order) \cup {NULL} /\ (head # NULL => head \in Nodes)
    BY HeadQueued
  <2> DEFINE pc == IF head = NULL THEN "dcheck" ELSE "dtail"
  <2> DEFINE L == [th[t] EXCEPT !.h = head, !.ret = "dcheck", !.pc = pc]
  <2>3. th' = [th EXCEPT ![t] = L]
    BY <1>6, <2>1, <2>2, Zenon DEF SharedHead, Goto
  <2>4. /\ th[t] \in Thread
        /\ head \in Nodes \cup {NULL}
        /\ pc \in Pcs
    BY <1>6, <2>1, <2>2 DEF Pcs, LivePcs, FirstPcs, RetiredPcs, CancelledPcs, AwaitPcs, UnparkPcs,
       SharedPcs, TransferPcs, Rets
  <2>5. L \in Thread
    <3> HIDE DEF pc
    <3> QED BY ONLY <2>4, Zenon DEF Thread, Rets
  <2>6. th'[t] = L
    BY ONLY <1>0, <2>3
  <2>7. /\ th'[t].pc = pc /\ th'[t].i = th[t].i /\ th'[t].was = th[t].was /\ th'[t].pred = th[t].pred
        /\ th'[t].predNext = th[t].predNext /\ th'[t].ws = th[t].ws /\ th'[t].s = th[t].s
        /\ th'[t].q = th[t].q /\ th'[t].h = head /\ th'[t].u = th[t].u /\ th'[t].ret = "dcheck"
        /\ th'[t].ret2 = th[t].ret2 /\ th'[t].n = th[t].n /\ th'[t].mode = th[t].mode
    BY ONLY <2>6, <2>4 DEF Thread
  <2>8. order' = order /\ program' = program /\ head' = head /\ tail' = tail /\ node' = node
    BY ONLY program' = program, <1>6 DEF SharedHead, sync
  <2>9. LocalsSound(t)'
    BY <2>1, <2>2, <2>4, <2>7, <2>8 DEF LocalsSound, PredPcs, LinkedPcs, Leaving, At, Call, Pcs,
       LivePcs, FirstPcs, RetiredPcs, CancelledPcs, AwaitPcs, UnparkPcs, SharedPcs, TransferPcs
  <2>10. ASSUME CancelledNodes' = CancelledNodes PROVE NodeSound(t)'
    BY <2>1, <2>2, <2>7, <2>8, <2>10 DEF NodeSound, ThisLive, Fresh, Awaiting, Leaving, GivenUp,
       LinkedPcs, At, Call, Me, Pcs, LivePcs, FirstPcs, RetiredPcs, CancelledPcs, AwaitPcs,
       UnparkPcs, SharedPcs, TransferPcs
  <2>11. ~Claiming(t)' /\ (Awaiting(t) /\ Me(t) \notin Range(order) => Awaiting(t)')
    BY <2>1, <2>2, <2>7, <2>8 DEF Claiming, Awaiting, At, Call, Me, Pcs, LivePcs, FirstPcs,
       RetiredPcs, CancelledPcs, AwaitPcs, UnparkPcs, SharedPcs, TransferPcs
  <2>12. Proceeds(t)
    BY ONLY <2>3, <2>5, <2>6, <2>7, <2>9, <2>10, <2>11, Zenon DEF Proceeds
  <2> QED BY <1>6, <2>12, MoveStep DEF SharedHead
<1>7. CASE SharedTail(t)
  <2>1. th[t].pc = "dtail"
    BY ONLY <1>7 DEF SharedTail, At
  <2> DEFINE pc == IF th[t].h = tail THEN "dcheck" ELSE "dws"
  <2> DEFINE L == [th[t] EXCEPT !.pc = pc]
  <2>2. th' = [th EXCEPT ![t] = L]
    BY <1>7, <2>1 DEF SharedTail, Goto
  <2>3. /\ th[t] \in Thread
        /\ pc \in Pcs
    BY <1>7, <2>1 DEF Pcs, LivePcs, FirstPcs, RetiredPcs, CancelledPcs, AwaitPcs, UnparkPcs,
       SharedPcs, TransferPcs, Rets
  <2>4. L \in Thread
    <3> HIDE DEF pc
    <3> QED BY ONLY <2>3 DEF Thread, Rets
  <2>5. th'[t] = L
    BY ONLY <1>0, <2>2
  <2>6. /\ th'[t].pc = pc /\ th'[t].i = th[t].i /\ th'[t].was = th[t].was /\ th'[t].pred = th[t].pred
        /\ th'[t].predNext = th[t].predNext /\ th'[t].ws = th[t].ws /\ th'[t].s = th[t].s
        /\ th'[t].q = th[t].q /\ th'[t].h = th[t].h /\ th'[t].u = th[t].u /\ th'[t].ret = th[t].ret
        /\ th'[t].ret2 = th[t].ret2 /\ th'[t].n = th[t].n /\ th'[t].mode = th[t].mode
    BY ONLY <2>5, <2>3 DEF Thread
  <2>7. order' = order /\ program' = program /\ head' = head /\ tail' = tail /\ node' = node
    BY ONLY program' = program, <1>7 DEF SharedTail, sync
  <2>8. LocalsSound(t)'
    BY <2>1, <2>3, <2>6, <2>7 DEF LocalsSound, PredPcs, LinkedPcs, Leaving, At, Call, Pcs, LivePcs,
       FirstPcs, RetiredPcs, CancelledPcs, AwaitPcs, UnparkPcs, SharedPcs, TransferPcs
  <2>9. ASSUME CancelledNodes' = CancelledNodes PROVE NodeSound(t)'
    BY <2>1, <2>6, <2>7, <2>9 DEF NodeSound, ThisLive, Fresh, Awaiting, Leaving, GivenUp, LinkedPcs,
       At, Call, Me, Pcs, LivePcs, FirstPcs, RetiredPcs, CancelledPcs, AwaitPcs, UnparkPcs,
       SharedPcs, TransferPcs
  <2>10. ~Claiming(t)' /\ (Awaiting(t) /\ Me(t) \notin Range(order) => Awaiting(t)')
    BY <2>1, <2>6, <2>7 DEF Claiming, Awaiting, At, Call, Me, Pcs, LivePcs, FirstPcs, RetiredPcs,
       CancelledPcs, AwaitPcs, UnparkPcs, SharedPcs, TransferPcs
  <2>11. Proceeds(t)
    BY ONLY <2>2, <2>4, <2>5, <2>6, <2>8, <2>9, <2>10, Zenon DEF Proceeds
  <2> QED BY <1>7, <2>11, MoveStep DEF SharedTail
<1>8. CASE SharedWs(t)
  <2>1. th[t].pc = "dws"
    BY ONLY <1>8 DEF SharedWs, At
  <2> DEFINE pc == IF node[th[t].h].ws = SIGNAL THEN "dsignal"
                   ELSE IF node[th[t].h].ws = 0 THEN "dpropagate" ELSE "dcheck"
  <2> DEFINE L == [th[t] EXCEPT !.pc = pc]
  <2>2. th' = [th EXCEPT ![t] = L]
    BY <1>8, <2>1 DEF SharedWs, Goto
  <2>3. /\ th[t] \in Thread
        /\ pc \in Pcs
    BY <1>8, <2>1 DEF Pcs, LivePcs, FirstPcs, RetiredPcs, CancelledPcs, AwaitPcs, UnparkPcs,
       SharedPcs, TransferPcs, Rets
  <2>4. L \in Thread
    <3> HIDE DEF pc
    <3> QED BY ONLY <2>3 DEF Thread, Rets
  <2>5. th'[t] = L
    BY ONLY <1>0, <2>2
  <2>6. /\ th'[t].pc = pc /\ th'[t].i = th[t].i /\ th'[t].was = th[t].was /\ th'[t].pred = th[t].pred
        /\ th'[t].predNext = th[t].predNext /\ th'[t].ws = th[t].ws /\ th'[t].s = th[t].s
        /\ th'[t].q = th[t].q /\ th'[t].h = th[t].h /\ th'[t].u = th[t].u /\ th'[t].ret = th[t].ret
        /\ th'[t].ret2 = th[t].ret2 /\ th'[t].n = th[t].n /\ th'[t].mode = th[t].mode
    BY ONLY <2>5, <2>3 DEF Thread
  <2>7. order' = order /\ program' = program /\ head' = head /\ tail' = tail /\ node' = node
    BY ONLY program' = program, <1>8 DEF SharedWs, sync
  <2>8. LocalsSound(t)'
    BY <2>1, <2>3, <2>6, <2>7 DEF LocalsSound, PredPcs, LinkedPcs, Leaving, At, Call, Pcs, LivePcs,
       FirstPcs, RetiredPcs, CancelledPcs, AwaitPcs, UnparkPcs, SharedPcs, TransferPcs
  <2>9. ASSUME CancelledNodes' = CancelledNodes PROVE NodeSound(t)'
    BY <2>1, <2>6, <2>7, <2>9 DEF NodeSound, ThisLive, Fresh, Awaiting, Leaving, GivenUp, LinkedPcs,
       At, Call, Me, Pcs, LivePcs, FirstPcs, RetiredPcs, CancelledPcs, AwaitPcs, UnparkPcs,
       SharedPcs, TransferPcs
  <2>10. ~Claiming(t)' /\ (Awaiting(t) /\ Me(t) \notin Range(order) => Awaiting(t)')
    BY <2>1, <2>6, <2>7 DEF Claiming, Awaiting, At, Call, Me, Pcs, LivePcs, FirstPcs, RetiredPcs,
       CancelledPcs, AwaitPcs, UnparkPcs, SharedPcs, TransferPcs
  <2>11. Proceeds(t)
    BY ONLY <2>2, <2>4, <2>5, <2>6, <2>8, <2>9, <2>10, Zenon DEF Proceeds
  <2> QED BY <1>8, <2>11, MoveStep DEF SharedWs
<1>9. CASE SharedSignal(t)
  <2>1. th[t].pc = "dsignal"
    BY ONLY <1>9 DEF SharedSignal, At
  <2>2. th[t].h \in Queued(order)
    BY <2>1 DEF LocalsSound
  <2>3. th[t].ret = "dcheck"
    BY <2>1 DEF LocalsSound
  <2> DEFINE pc == IF node[th[t].h].ws = SIGNAL THEN "unpark" ELSE "dhead"
  <2> DEFINE L == [th[t] EXCEPT !.pc = pc]
  <2>4. th' = [th EXCEPT ![t] = L]
    BY <1>9, <2>1, <2>2, <2>3 DEF SharedSignal, Goto
  <2>5. /\ th[t] \in Thread
        /\ pc \in Pcs
    BY <1>9, <2>1, <2>2, <2>3 DEF Pcs, LivePcs, FirstPcs, RetiredPcs, CancelledPcs, AwaitPcs,
       UnparkPcs, SharedPcs, TransferPcs, Rets
  <2>6. L \in Thread
    <3> HIDE DEF pc
    <3> QED BY ONLY <2>5 DEF Thread, Rets
  <2>7. th'[t] = L
    BY ONLY <1>0, <2>4
  <2>8. /\ th'[t].pc = pc /\ th'[t].i = th[t].i /\ th'[t].was = th[t].was /\ th'[t].pred = th[t].pred
        /\ th'[t].predNext = th[t].predNext /\ th'[t].ws = th[t].ws /\ th'[t].s = th[t].s
        /\ th'[t].q = th[t].q /\ th'[t].h = th[t].h /\ th'[t].u = th[t].u /\ th'[t].ret = th[t].ret
        /\ th'[t].ret2 = th[t].ret2 /\ th'[t].n = th[t].n /\ th'[t].mode = th[t].mode
    BY ONLY <2>7, <2>5 DEF Thread
  <2>9. order' = order /\ program' = program /\ head' = head /\ tail' = tail
    BY ONLY program' = program, <1>9 DEF SharedSignal, sync
  <2>10. LocalsSound(t)'
    BY <2>1, <2>2, <2>3, <2>5, <2>8, <2>9 DEF LocalsSound, PredPcs, LinkedPcs, Leaving, At, Call,
       Pcs, LivePcs, FirstPcs, RetiredPcs, CancelledPcs, AwaitPcs, UnparkPcs, SharedPcs, TransferPcs
  <2>11. ASSUME CancelledNodes' = CancelledNodes PROVE NodeSound(t)'
    BY <2>1, <2>2, <2>3, <2>8, <2>9, <2>11 DEF NodeSound, ThisLive, Fresh, Awaiting, Leaving,
       GivenUp, LinkedPcs, At, Call, Me, Pcs, LivePcs, FirstPcs, RetiredPcs, CancelledPcs, AwaitPcs,
       UnparkPcs, SharedPcs, TransferPcs
  <2>12. ~Claiming(t)' /\ (Awaiting(t) /\ Me(t) \notin Range(order) => Awaiting(t)')
    BY <2>1, <2>2, <2>3, <2>8, <2>9 DEF Claiming, Awaiting, At, Call, Me, Pcs, LivePcs, FirstPcs,
       RetiredPcs, CancelledPcs, AwaitPcs, UnparkPcs, SharedPcs, TransferPcs
  <2>13. Proceeds(t)
    BY ONLY <2>4, <2>6, <2>7, <2>8, <2>10, <2>11, <2>12, Zenon DEF Proceeds
  <2>14. QuietNodes
    BY <1>9, <2>1, <2>2, <2>3, StatusChanged DEF SharedSignal, SIGNAL
  <2>15. state' \in Nat /\ permit' \in [Threads -> BOOLEAN] /\ intr' \in [Threads -> BOOLEAN]
    BY <1>9, <2>1, <2>2, <2>3 DEF SharedSignal, sync, parking
  <2> QED BY <2>9, <2>13, <2>15, <2>14, LocalStep
<1>10. CASE SharedPropagate(t)
  <2>1. th[t].pc = "dpropagate"
    BY ONLY <1>10 DEF SharedPropagate, At
  <2>2. th[t].h \in Queued(order)
    BY <2>1 DEF LocalsSound
  <2> DEFINE pc == IF node[th[t].h].ws = 0 THEN "dcheck" ELSE "dhead"
  <2> DEFINE L == [th[t] EXCEPT !.pc = pc]
  <2>3. th' = [th EXCEPT ![t] = L]
    BY <1>10, <2>1, <2>2 DEF SharedPropagate, Goto
  <2>4. /\ th[t] \in Thread
        /\ pc \in Pcs
    BY <1>10, <2>1, <2>2 DEF Pcs, LivePcs, FirstPcs, RetiredPcs, CancelledPcs, AwaitPcs, UnparkPcs,
       SharedPcs, TransferPcs, Rets
  <2>5. L \in Thread
    <3> HIDE DEF pc
    <3> QED BY ONLY <2>4 DEF Thread, Rets
  <2>6. th'[t] = L
    BY ONLY <1>0, <2>3
  <2>7. /\ th'[t].pc = pc /\ th'[t].i = th[t].i /\ th'[t].was = th[t].was /\ th'[t].pred = th[t].pred
        /\ th'[t].predNext = th[t].predNext /\ th'[t].ws = th[t].ws /\ th'[t].s = th[t].s
        /\ th'[t].q = th[t].q /\ th'[t].h = th[t].h /\ th'[t].u = th[t].u /\ th'[t].ret = th[t].ret
        /\ th'[t].ret2 = th[t].ret2 /\ th'[t].n = th[t].n /\ th'[t].mode = th[t].mode
    BY ONLY <2>6, <2>4 DEF Thread
  <2>8. order' = order /\ program' = program /\ head' = head /\ tail' = tail
    BY ONLY program' = program, <1>10 DEF SharedPropagate, sync
  <2>9. LocalsSound(t)'
    BY <2>1, <2>2, <2>4, <2>7, <2>8 DEF LocalsSound, PredPcs, LinkedPcs, Leaving, At, Call, Pcs,
       LivePcs, FirstPcs, RetiredPcs, CancelledPcs, AwaitPcs, UnparkPcs, SharedPcs, TransferPcs
  <2>10. ASSUME CancelledNodes' = CancelledNodes PROVE NodeSound(t)'
    BY <2>1, <2>2, <2>7, <2>8, <2>10 DEF NodeSound, ThisLive, Fresh, Awaiting, Leaving, GivenUp,
       LinkedPcs, At, Call, Me, Pcs, LivePcs, FirstPcs, RetiredPcs, CancelledPcs, AwaitPcs,
       UnparkPcs, SharedPcs, TransferPcs
  <2>11. ~Claiming(t)' /\ (Awaiting(t) /\ Me(t) \notin Range(order) => Awaiting(t)')
    BY <2>1, <2>2, <2>7, <2>8 DEF Claiming, Awaiting, At, Call, Me, Pcs, LivePcs, FirstPcs,
       RetiredPcs, CancelledPcs, AwaitPcs, UnparkPcs, SharedPcs, TransferPcs
  <2>12. Proceeds(t)
    BY ONLY <2>3, <2>5, <2>6, <2>7, <2>9, <2>10, <2>11, Zenon DEF Proceeds
  <2>13. QuietNodes
    BY <1>10, <2>1, <2>2, StatusChanged DEF SharedPropagate
  <2>14. state' \in Nat /\ permit' \in [Threads -> BOOLEAN] /\ intr' \in [Threads -> BOOLEAN]
    BY <1>10, <2>1, <2>2 DEF SharedPropagate, sync, parking
  <2> QED BY <2>8, <2>12, <2>14, <2>13, LocalStep
<1>11. CASE SharedCheck(t) /\ th[t].h = head
  <2>1. th[t].pc = "dcheck"
    BY ONLY <1>11, Zenon DEF SharedCheck, At
  <2>2. th[t].ret2 \in {"pnext", "return"} /\ (th[t].ret2 = "return" => Call(t).call = "release")
    BY <2>1 DEF LocalsSound, SharedPcs
  <2> DEFINE L == [th[t] EXCEPT !.h = NULL, !.ret = NoRet, !.ret2 = NoRet, !.pc = th[t].ret2]
  <2>3. PICK e : e = ""
    BY Zenon
  <2>4. th' = [th EXCEPT ![t].h = NULL, ![t].ret = e, ![t].ret2 = e, ![t].pc = th[t].ret2]
    BY <1>11, <2>3, Zenon DEF SharedCheck
  <2>5. e = NoRet
    BY <1>11, <2>1, <2>2, <2>3, <2>4, Zenon DEF NoRet
  <2>6. th' = [th EXCEPT ![t] = L]
    BY <1>11, <2>1, <2>2, <2>3, <2>4, <2>5, Zenon DEF SharedCheck, Goto
  <2>7. /\ th[t] \in Thread
        /\ NULL \in Nodes \cup {NULL}
        /\ NoRet \in Rets
        /\ NoRet \in {NoRet, "return", "pnext"}
        /\ th[t].ret2 \in Pcs
    BY <1>11, <2>1, <2>2 DEF Pcs, LivePcs, FirstPcs, RetiredPcs, CancelledPcs, AwaitPcs, UnparkPcs,
       SharedPcs, TransferPcs, Rets, Thread
  <2>8. L \in Thread
    BY ONLY <2>7, Zenon DEF Thread, Rets
  <2>9. th'[t] = L
    BY ONLY <1>0, <2>6
  <2>10. /\ th'[t].pc = th[t].ret2 /\ th'[t].i = th[t].i /\ th'[t].was = th[t].was
         /\ th'[t].pred = th[t].pred /\ th'[t].predNext = th[t].predNext /\ th'[t].ws = th[t].ws
         /\ th'[t].s = th[t].s /\ th'[t].q = th[t].q /\ th'[t].h = NULL /\ th'[t].u = th[t].u
         /\ th'[t].ret = NoRet /\ th'[t].ret2 = NoRet /\ th'[t].n = th[t].n /\ th'[t].mode = th[t].mode
    BY ONLY <2>9, <2>7 DEF Thread
  <2>11. order' = order /\ program' = program /\ head' = head /\ tail' = tail /\ node' = node
    BY ONLY program' = program, <1>11, Zenon DEF SharedCheck, sync
  <2>12. LocalsSound(t)'
    BY <2>1, <2>2, <2>7, <2>10, <2>11 DEF LocalsSound, PredPcs, LinkedPcs, Leaving, At, Call, Pcs,
       LivePcs, FirstPcs, RetiredPcs, CancelledPcs, AwaitPcs, UnparkPcs, SharedPcs, TransferPcs
  <2>13. ASSUME CancelledNodes' = CancelledNodes PROVE NodeSound(t)'
    BY <2>1, <2>2, <2>10, <2>11, <2>13 DEF NodeSound, ThisLive, Fresh, Awaiting, Leaving, GivenUp,
       LinkedPcs, At, Call, Me, Pcs, LivePcs, FirstPcs, RetiredPcs, CancelledPcs, AwaitPcs,
       UnparkPcs, SharedPcs, TransferPcs
  <2>14. ~Claiming(t)' /\ (Awaiting(t) /\ Me(t) \notin Range(order) => Awaiting(t)')
    BY <2>1, <2>2, <2>10, <2>11 DEF Claiming, Awaiting, At, Call, Me, Pcs, LivePcs, FirstPcs,
       RetiredPcs, CancelledPcs, AwaitPcs, UnparkPcs, SharedPcs, TransferPcs
  <2>15. Proceeds(t)
    BY ONLY <2>6, <2>8, <2>9, <2>10, <2>12, <2>13, <2>14, Zenon DEF Proceeds
  <2> QED BY <1>11, <2>15, MoveStep, Zenon DEF SharedCheck
<1>12. CASE SharedCheck(t) /\ th[t].h # head
  <2>1. th[t].pc = "dcheck"
    BY ONLY <1>12 DEF SharedCheck, At
  <2> DEFINE L == [th[t] EXCEPT !.h = NULL, !.pc = "dhead"]
  <2>2. th' = [th EXCEPT ![t] = L]
    BY <1>12, <2>1, Zenon DEF SharedCheck, Goto
  <2>3. /\ th[t] \in Thread
        /\ NULL \in Nodes \cup {NULL}
        /\ "dhead" \in Pcs
    BY <1>12, <2>1 DEF Pcs, LivePcs, FirstPcs, RetiredPcs, CancelledPcs, AwaitPcs, UnparkPcs,
       SharedPcs, TransferPcs, Rets
  <2>4. L \in Thread
    BY ONLY <2>3, Zenon DEF Thread, Rets
  <2>5. th'[t] = L
    BY ONLY <1>0, <2>2
  <2>6. /\ th'[t].pc = "dhead" /\ th'[t].i = th[t].i /\ th'[t].was = th[t].was
        /\ th'[t].pred = th[t].pred /\ th'[t].predNext = th[t].predNext /\ th'[t].ws = th[t].ws
        /\ th'[t].s = th[t].s /\ th'[t].q = th[t].q /\ th'[t].h = NULL /\ th'[t].u = th[t].u
        /\ th'[t].ret = th[t].ret /\ th'[t].ret2 = th[t].ret2 /\ th'[t].n = th[t].n
        /\ th'[t].mode = th[t].mode
    BY ONLY <2>5, <2>3 DEF Thread
  <2>7. order' = order /\ program' = program /\ head' = head /\ tail' = tail /\ node' = node
    BY ONLY program' = program, <1>12 DEF SharedCheck, sync
  <2>8. LocalsSound(t)'
    BY <2>1, <2>3, <2>6, <2>7 DEF LocalsSound, PredPcs, LinkedPcs, Leaving, At, Call, Pcs, LivePcs,
       FirstPcs, RetiredPcs, CancelledPcs, AwaitPcs, UnparkPcs, SharedPcs, TransferPcs
  <2>9. ASSUME CancelledNodes' = CancelledNodes PROVE NodeSound(t)'
    BY <2>1, <2>6, <2>7, <2>9 DEF NodeSound, ThisLive, Fresh, Awaiting, Leaving, GivenUp, LinkedPcs,
       At, Call, Me, Pcs, LivePcs, FirstPcs, RetiredPcs, CancelledPcs, AwaitPcs, UnparkPcs,
       SharedPcs, TransferPcs
  <2>10. ~Claiming(t)' /\ (Awaiting(t) /\ Me(t) \notin Range(order) => Awaiting(t)')
    BY <2>1, <2>6, <2>7 DEF Claiming, Awaiting, At, Call, Me, Pcs, LivePcs, FirstPcs, RetiredPcs,
       CancelledPcs, AwaitPcs, UnparkPcs, SharedPcs, TransferPcs
  <2>11. Proceeds(t)
    BY ONLY <2>2, <2>4, <2>5, <2>6, <2>8, <2>9, <2>10, Zenon DEF Proceeds
  <2> QED BY <1>12, <2>11, MoveStep DEF SharedCheck
<1> QED BY <1>1, <1>2, <1>3, <1>4, <1>5, <1>6, <1>7, <1>8, <1>9, <1>10, <1>11, <1>12

\* The acquiring loops, but for the links past cancelled predecessors
LEMMA AcquireQueuedSteps ==
    ASSUME IInv, NEW t \in Threads, program' = program,
           Loop(t) \/ Try(t) \/ ShouldPark(t) \/ SkipNext(t) \/ SetSignal(t) \/ Park(t)
           \/ SpuriousWakeup(t) \/ Interrupted(t)
    PROVE  IInv'
<1> USE Locals, NodeForm, NoReturn
<1>0. th \in [Threads -> Thread] /\ t \in Threads
  OBVIOUS
<1>1. CASE Loop(t)
  <2>1. th[t].pc = "loop"
    BY ONLY <1>1 DEF Loop, AfterFailed, At
  <2>2. /\ ThisLive(Me(t)) /\ Me(t) \in Range(order) /\ Me(t) \in Nodes
        /\ node[Me(t)].prev \in Queued(order) /\ node[Me(t)].prev # NULL
    BY <2>1, LiveBack DEF NodeSound, LivePcs, FirstPcs
  <2>3. PICK pc \in {"try", "should", "cancel"} :
             /\ pc = "try" => node[Me(t)].prev = head
             /\ th' = [th EXCEPT ![t].pc = pc, ![t].pred = node[Me(t)].prev]
    BY <1>1, <2>1, <2>2, Zenon DEF Loop, AfterFailed
  <2> DEFINE L == [th[t] EXCEPT !.pc = pc, !.pred = node[Me(t)].prev]
  <2>4. th' = [th EXCEPT ![t] = L]
    BY <1>1, <2>1, <2>2, <2>3, Zenon DEF Loop, AfterFailed, Goto
  <2>5. /\ th[t] \in Thread
        /\ pc \in Pcs
        /\ node[Me(t)].prev \in Nodes \cup {NULL}
    BY <1>1, <2>1, <2>2, <2>3 DEF Pcs, LivePcs, FirstPcs, RetiredPcs, CancelledPcs, AwaitPcs,
       UnparkPcs, SharedPcs, TransferPcs, Rets
  <2>6. L \in Thread
    BY ONLY <2>5, Zenon DEF Thread, Rets
  <2>7. th'[t] = L
    BY ONLY <1>0, <2>4
  <2>8. /\ th'[t].pc = pc /\ th'[t].i = th[t].i /\ th'[t].was = th[t].was
        /\ th'[t].pred = node[Me(t)].prev /\ th'[t].predNext = th[t].predNext /\ th'[t].ws = th[t].ws
        /\ th'[t].s = th[t].s /\ th'[t].q = th[t].q /\ th'[t].h = th[t].h /\ th'[t].u = th[t].u
        /\ th'[t].ret = th[t].ret /\ th'[t].ret2 = th[t].ret2 /\ th'[t].n = th[t].n
        /\ th'[t].mode = th[t].mode
    BY ONLY <2>7, <2>5 DEF Thread
  <2>9. order' = order /\ program' = program /\ head' = head /\ tail' = tail /\ node' = node
    BY ONLY program' = program, <1>1 DEF Loop, AfterFailed, sync
  <2>10. LocalsSound(t)'
    BY <2>1, <2>2, <2>3, <2>5, <2>8, <2>9 DEF LocalsSound, PredPcs, LinkedPcs, Leaving, At, Call,
       Pcs, LivePcs, FirstPcs, RetiredPcs, CancelledPcs, AwaitPcs, UnparkPcs, SharedPcs, TransferPcs
  <2>11. ASSUME CancelledNodes' = CancelledNodes PROVE NodeSound(t)'
    BY <2>1, <2>2, <2>3, <2>8, <2>9, <2>11 DEF NodeSound, ThisLive, Fresh, Awaiting, Leaving,
       GivenUp, LinkedPcs, At, Call, Me, Pcs, LivePcs, FirstPcs, RetiredPcs, CancelledPcs, AwaitPcs,
       UnparkPcs, SharedPcs, TransferPcs
  <2>12. ~Claiming(t)' /\ (Awaiting(t) /\ Me(t) \notin Range(order) => Awaiting(t)')
    BY <2>1, <2>2, <2>3, <2>8, <2>9 DEF Claiming, Awaiting, At, Call, Me, Pcs, LivePcs, FirstPcs,
       RetiredPcs, CancelledPcs, AwaitPcs, UnparkPcs, SharedPcs, TransferPcs
  <2>13. Proceeds(t)
    BY ONLY <2>4, <2>6, <2>7, <2>8, <2>10, <2>11, <2>12, Zenon DEF Proceeds
  <2> QED BY <1>1, <2>13, MoveStep DEF Loop
<1>2. CASE At(t, "try") /\ tryAcquire >= 0 /\ state' = AfterAcquire
          /\ th' = [th EXCEPT ![t].pc = IF Call(t).shared THEN "oldhead" ELSE "sethead",
                              ![t].ws = tryAcquire]
          /\ UNCHANGED <<head, tail, node, parking, order>>
  <2>1. th[t].pc = "try"
    BY ONLY <1>2 DEF At, At
  <2>2. tryAcquire \in Int
    BY DEF tryAcquire, Kind
  <2>3. AfterAcquire \in Nat
    BY <1>2 DEF tryAcquire, AfterAcquire, Kind
  <2> DEFINE pc == IF Call(t).shared THEN "oldhead" ELSE "sethead"
  <2> DEFINE L == [th[t] EXCEPT !.pc = pc, !.ws = tryAcquire]
  <2>4. th' = [th EXCEPT ![t] = L]
    BY <1>2, <2>1, <2>2, <2>3, Zenon DEF At, Goto
  <2>5. /\ th[t] \in Thread
        /\ pc \in Pcs
        /\ tryAcquire \in Int
    BY <1>2, <2>1, <2>2, <2>3 DEF Pcs, LivePcs, FirstPcs, RetiredPcs, CancelledPcs, AwaitPcs,
       UnparkPcs, SharedPcs, TransferPcs, Rets
  <2>6. L \in Thread
    <3> HIDE DEF pc
    <3> QED BY ONLY <2>5, Zenon DEF Thread, Rets
  <2>7. th'[t] = L
    BY ONLY <1>0, <2>4
  <2>8. /\ th'[t].pc = pc /\ th'[t].i = th[t].i /\ th'[t].was = th[t].was /\ th'[t].pred = th[t].pred
        /\ th'[t].predNext = th[t].predNext /\ th'[t].ws = tryAcquire /\ th'[t].s = th[t].s
        /\ th'[t].q = th[t].q /\ th'[t].h = th[t].h /\ th'[t].u = th[t].u /\ th'[t].ret = th[t].ret
        /\ th'[t].ret2 = th[t].ret2 /\ th'[t].n = th[t].n /\ th'[t].mode = th[t].mode
    BY ONLY <2>7, <2>5 DEF Thread
  <2>9. order' = order /\ program' = program /\ head' = head /\ tail' = tail /\ node' = node
    BY ONLY program' = program, <1>2 DEF At, sync
  <2>10. LocalsSound(t)'
    BY <2>1, <2>2, <2>3, <2>5, <2>8, <2>9 DEF LocalsSound, PredPcs, LinkedPcs, Leaving, At, Call,
       Pcs, LivePcs, FirstPcs, RetiredPcs, CancelledPcs, AwaitPcs, UnparkPcs, SharedPcs, TransferPcs
  <2>11. ASSUME CancelledNodes' = CancelledNodes PROVE NodeSound(t)'
    BY <2>1, <2>2, <2>3, <2>8, <2>9, <2>11 DEF NodeSound, ThisLive, Fresh, Awaiting, Leaving,
       GivenUp, LinkedPcs, At, Call, Me, Pcs, LivePcs, FirstPcs, RetiredPcs, CancelledPcs, AwaitPcs,
       UnparkPcs, SharedPcs, TransferPcs
  <2>12. ~Claiming(t)' /\ (Awaiting(t) /\ Me(t) \notin Range(order) => Awaiting(t)')
    BY <2>1, <2>2, <2>3, <2>8, <2>9 DEF Claiming, Awaiting, At, Call, Me, Pcs, LivePcs, FirstPcs,
       RetiredPcs, CancelledPcs, AwaitPcs, UnparkPcs, SharedPcs, TransferPcs
  <2>13. Proceeds(t)
    BY ONLY <2>4, <2>6, <2>7, <2>8, <2>10, <2>11, <2>12, Zenon DEF Proceeds
  <2>14. state' \in Nat /\ permit' \in [Threads -> BOOLEAN] /\ intr' \in [Threads -> BOOLEAN]
    BY <1>2, <2>1, <2>2, <2>3 DEF At, sync, parking
  <2> QED BY <2>9, <2>13, <2>14, SameNodes, LocalStep
<1>3. CASE /\ At(t, "try") /\ \E pc \in AfterFailed(t) : Goto(t, pc)
          /\ UNCHANGED <<sync, node, parking, order>>
  <2>1. th[t].pc = "try"
    BY ONLY <1>3 DEF AfterFailed, Goto, At
  <2>2. PICK pc \in {"should", "cancel"} :
             th' = [th EXCEPT ![t].pc = pc]
    BY <1>3, <2>1, Zenon DEF AfterFailed, Goto
  <2> DEFINE L == [th[t] EXCEPT !.pc = pc]
  <2>3. th' = [th EXCEPT ![t] = L]
    BY <1>3, <2>1, <2>2, Zenon DEF AfterFailed, Goto, Goto
  <2>4. /\ th[t] \in Thread
        /\ pc \in Pcs
    BY <1>3, <2>1, <2>2 DEF Pcs, LivePcs, FirstPcs, RetiredPcs, CancelledPcs, AwaitPcs, UnparkPcs,
       SharedPcs, TransferPcs, Rets
  <2>5. L \in Thread
    BY ONLY <2>4 DEF Thread, Rets
  <2>6. th'[t] = L
    BY ONLY <1>0, <2>3
  <2>7. /\ th'[t].pc = pc /\ th'[t].i = th[t].i /\ th'[t].was = th[t].was /\ th'[t].pred = th[t].pred
        /\ th'[t].predNext = th[t].predNext /\ th'[t].ws = th[t].ws /\ th'[t].s = th[t].s
        /\ th'[t].q = th[t].q /\ th'[t].h = th[t].h /\ th'[t].u = th[t].u /\ th'[t].ret = th[t].ret
        /\ th'[t].ret2 = th[t].ret2 /\ th'[t].n = th[t].n /\ th'[t].mode = th[t].mode
    BY ONLY <2>6, <2>4 DEF Thread
  <2>8. order' = order /\ program' = program /\ head' = head /\ tail' = tail /\ node' = node
    BY ONLY program' = program, <1>3 DEF AfterFailed, Goto, sync
  <2>9. LocalsSound(t)'
    BY <2>1, <2>2, <2>4, <2>7, <2>8 DEF LocalsSound, PredPcs, LinkedPcs, Leaving, At, Call, Pcs,
       LivePcs, FirstPcs, RetiredPcs, CancelledPcs, AwaitPcs, UnparkPcs, SharedPcs, TransferPcs
  <2>10. ASSUME CancelledNodes' = CancelledNodes PROVE NodeSound(t)'
    BY <2>1, <2>2, <2>7, <2>8, <2>10 DEF NodeSound, ThisLive, Fresh, Awaiting, Leaving, GivenUp,
       LinkedPcs, At, Call, Me, Pcs, LivePcs, FirstPcs, RetiredPcs, CancelledPcs, AwaitPcs,
       UnparkPcs, SharedPcs, TransferPcs
  <2>11. ~Claiming(t)' /\ (Awaiting(t) /\ Me(t) \notin Range(order) => Awaiting(t)')
    BY <2>1, <2>2, <2>7, <2>8 DEF Claiming, Awaiting, At, Call, Me, Pcs, LivePcs, FirstPcs,
       RetiredPcs, CancelledPcs, AwaitPcs, UnparkPcs, SharedPcs, TransferPcs
  <2>12. Proceeds(t)
    BY ONLY <2>3, <2>5, <2>6, <2>7, <2>9, <2>10, <2>11, Zenon DEF Proceeds
  <2> QED BY <1>3, <2>12, MoveStep DEF Try
<1>4. CASE ShouldPark(t)
  <2>1. th[t].pc = "should"
    BY ONLY <1>4 DEF ShouldPark, At
  <2>2. th[t].pred \in Nodes /\ th[t].pred \in Queued(order)
    BY <2>1 DEF LocalsSound, Pcs, LivePcs, FirstPcs, RetiredPcs, CancelledPcs, AwaitPcs, UnparkPcs,
       SharedPcs, TransferPcs, PredPcs, LinkedPcs, Leaving
  <2>3. node[th[t].pred].ws > 0 => th[t].pred \in CancelledNodes
    BY <2>2 DEF CancelledNodes, CANCELLED, SIGNAL, CONDITION, PROPAGATE
  <2> DEFINE ws == IF node[th[t].pred].ws <= 0 /\ node[th[t].pred].ws # SIGNAL THEN node[th[t].pred].ws ELSE 0
             pc == IF node[th[t].pred].ws = SIGNAL THEN "park" ELSE IF node[th[t].pred].ws > 0 THEN "skip" ELSE "setsignal"
  <2> DEFINE L == [th[t] EXCEPT !.ws = ws, !.pc = pc]
  <2>4. th' = [th EXCEPT ![t] = L]
    BY <1>4, <2>1, <2>2, <2>3, Zenon DEF ShouldPark, Goto
  <2>5. /\ th[t] \in Thread
        /\ ws \in Int
        /\ pc \in Pcs
    BY <1>4, <2>1, <2>2, <2>3 DEF Pcs, LivePcs, FirstPcs, RetiredPcs, CancelledPcs, AwaitPcs,
       UnparkPcs, SharedPcs, TransferPcs, Rets, CANCELLED, SIGNAL, CONDITION, PROPAGATE
  <2>6. L \in Thread
    <3> HIDE DEF ws, pc
    <3> QED BY ONLY <2>5, Zenon DEF Thread, Rets
  <2>7. th'[t] = L
    BY ONLY <1>0, <2>4
  <2>8. /\ th'[t].pc = pc /\ th'[t].i = th[t].i /\ th'[t].was = th[t].was /\ th'[t].pred = th[t].pred
        /\ th'[t].predNext = th[t].predNext /\ th'[t].ws = ws /\ th'[t].s = th[t].s
        /\ th'[t].q = th[t].q /\ th'[t].h = th[t].h /\ th'[t].u = th[t].u /\ th'[t].ret = th[t].ret
        /\ th'[t].ret2 = th[t].ret2 /\ th'[t].n = th[t].n /\ th'[t].mode = th[t].mode
    BY ONLY <2>7, <2>5 DEF Thread
  <2>9. order' = order /\ program' = program /\ head' = head /\ tail' = tail /\ node' = node
    BY ONLY program' = program, <1>4 DEF ShouldPark, sync
  <2>10. LocalsSound(t)'
    BY <2>1, <2>2, <2>3, <2>5, <2>8, <2>9 DEF LocalsSound, PredPcs, LinkedPcs, Leaving, At, Call,
       Pcs, LivePcs, FirstPcs, RetiredPcs, CancelledPcs, AwaitPcs, UnparkPcs, SharedPcs, TransferPcs
  <2>11. ASSUME CancelledNodes' = CancelledNodes PROVE NodeSound(t)'
    BY <2>1, <2>2, <2>3, <2>8, <2>9, <2>11 DEF NodeSound, ThisLive, Fresh, Awaiting, Leaving,
       GivenUp, LinkedPcs, At, Call, Me, Pcs, LivePcs, FirstPcs, RetiredPcs, CancelledPcs, AwaitPcs,
       UnparkPcs, SharedPcs, TransferPcs
  <2>12. ~Claiming(t)' /\ (Awaiting(t) /\ Me(t) \notin Range(order) => Awaiting(t)')
    BY <2>1, <2>2, <2>3, <2>8, <2>9 DEF Claiming, Awaiting, At, Call, Me, Pcs, LivePcs, FirstPcs,
       RetiredPcs, CancelledPcs, AwaitPcs, UnparkPcs, SharedPcs, TransferPcs
  <2>13. Proceeds(t)
    BY ONLY <2>4, <2>6, <2>7, <2>8, <2>10, <2>11, <2>12, Zenon DEF Proceeds
  <2> QED BY <1>4, <2>13, MoveStep DEF ShouldPark
<1>5. CASE SkipNext(t)
  <2>1. th[t].pc = "skipnext"
    BY ONLY <1>5 DEF SkipNext, At
  <2>2. th[t].pred \in Nodes /\ th[t].pred \in Queued(order)
    BY <2>1 DEF LocalsSound, Pcs, LivePcs, FirstPcs, RetiredPcs, CancelledPcs, AwaitPcs, UnparkPcs,
       SharedPcs, TransferPcs, PredPcs, LinkedPcs, Leaving
  <2>3. NextIteration(t) \in {"interrupted", "loop"}
    BY DEF NextIteration
  <2>4. ThisLive(Me(t)) /\ Me(t) \in Nodes
    BY <2>1, LiveBack DEF NodeSound, LivePcs, FirstPcs
  <2> DEFINE pc == NextIteration(t)
  <2> DEFINE L == FreshAt(pc, th[t].i, th[t].was, th[t].mode, NULL, NULL, NoRet)
  <2>5. th' = [th EXCEPT ![t] = L]
    BY <1>5, <2>1, <2>2, <2>3, <2>4, Continuations, Zenon DEF SkipNext, Goto
  <2>6. /\ th[t] \in Thread
        /\ pc \in Pcs
        /\ th[t].i \in Nat \ {0}
        /\ th[t].was \in BOOLEAN
        /\ th[t].mode \in {"none", "THROW_IE", "REINTERRUPT"}
        /\ NULL \in Nodes \cup {NULL}
        /\ NULL \in Nodes \cup {NULL}
        /\ NoRet \in Rets
    BY <1>5, <2>1, <2>2, <2>3, <2>4 DEF Pcs, LivePcs, FirstPcs, RetiredPcs, CancelledPcs, AwaitPcs,
       UnparkPcs, SharedPcs, TransferPcs, Rets, NextIteration, Thread
  <2>7. /\ L \in Thread
        /\ L.pc = pc /\ L.i = th[t].i /\ L.was = th[t].was /\ L.pred = NULL /\ L.predNext = NULL
        /\ L.ws = 0 /\ L.s = NULL /\ L.q = NULL /\ L.h = NULL /\ L.u = NULL /\ L.ret = NoRet
        /\ L.ret2 = NoRet /\ L.n = NULL /\ L.mode = th[t].mode
    <3>1. L = [pc |-> pc, i |-> th[t].i, was |-> th[t].was, pred |-> NULL, predNext |-> NULL,
              ws |-> 0, s |-> NULL, q |-> NULL, h |-> NULL, u |-> NULL, ret |-> NoRet,
              ret2 |-> NoRet, n |-> NULL, mode |-> th[t].mode]
      BY ONLY DEF FreshAt
    <3> HIDE DEF L, pc
    <3>2. L \in Thread
      BY ONLY <3>1, <2>6 DEF Thread
    <3> QED BY ONLY <3>1, <3>2
  <2> HIDE DEF L
  <2>8. th'[t] = L
    BY ONLY <1>0, <2>5
  <2>9. /\ th'[t].pc = pc /\ th'[t].i = th[t].i /\ th'[t].was = th[t].was /\ th'[t].pred = NULL
        /\ th'[t].predNext = NULL /\ th'[t].ws = 0 /\ th'[t].s = NULL /\ th'[t].q = NULL
        /\ th'[t].h = NULL /\ th'[t].u = NULL /\ th'[t].ret = NoRet /\ th'[t].ret2 = NoRet
        /\ th'[t].n = NULL /\ th'[t].mode = th[t].mode
    BY ONLY <2>8, <2>7
  <2>10. order' = order /\ program' = program /\ head' = head /\ tail' = tail
    BY ONLY program' = program, <1>5 DEF SkipNext, sync
  <2>11. LocalsSound(t)'
    BY <2>1, <2>2, <2>3, <2>4, <2>6, <2>9, <2>10 DEF LocalsSound, PredPcs, LinkedPcs, Leaving, At,
       Call, Pcs, LivePcs, FirstPcs, RetiredPcs, CancelledPcs, AwaitPcs, UnparkPcs, SharedPcs,
       TransferPcs
  <2>12. ASSUME CancelledNodes' = CancelledNodes PROVE NodeSound(t)'
    BY <2>1, <2>2, <2>3, <2>4, <2>9, <2>10, <2>12 DEF NodeSound, ThisLive, Fresh, Awaiting, Leaving,
       GivenUp, LinkedPcs, At, Call, Me, Pcs, LivePcs, FirstPcs, RetiredPcs, CancelledPcs, AwaitPcs,
       UnparkPcs, SharedPcs, TransferPcs
  <2>13. ~Claiming(t)' /\ (Awaiting(t) /\ Me(t) \notin Range(order) => Awaiting(t)')
    BY <2>1, <2>2, <2>3, <2>4, <2>9, <2>10 DEF Claiming, Awaiting, At, Call, Me, Pcs, LivePcs,
       FirstPcs, RetiredPcs, CancelledPcs, AwaitPcs, UnparkPcs, SharedPcs, TransferPcs
  <2>14. Proceeds(t)
    BY ONLY <2>5, <2>7, <2>8, <2>9, <2>11, <2>12, <2>13, Zenon DEF Proceeds
  <2>15. QuietNodes
    BY <1>5, <2>1, <2>2, <2>3, <2>4, NextChanged, Zenon DEF SkipNext
  <2>16. state' \in Nat /\ permit' \in [Threads -> BOOLEAN] /\ intr' \in [Threads -> BOOLEAN]
    BY <1>5, <2>1, <2>2, <2>3, <2>4 DEF SkipNext, sync, parking
  <2> QED BY <2>10, <2>14, <2>16, <2>15, LocalStep
<1>6. CASE SetSignal(t)
  <2>1. th[t].pc = "setsignal"
    BY ONLY <1>6 DEF SetSignal, At
  <2>2. th[t].pred \in Nodes /\ th[t].pred \in Queued(order)
    BY <2>1 DEF LocalsSound, Pcs, LivePcs, FirstPcs, RetiredPcs, CancelledPcs, AwaitPcs, UnparkPcs,
       SharedPcs, TransferPcs, PredPcs, LinkedPcs, Leaving
  <2>3. NextIteration(t) \in {"interrupted", "loop"}
    BY DEF NextIteration
  <2>4. th[t].ws <= 0
    BY <2>1 DEF LocalsSound
  <2> DEFINE pc == NextIteration(t)
  <2> DEFINE L == FreshAt(pc, th[t].i, th[t].was, th[t].mode, NULL, NULL, NoRet)
  <2>5. th' = [th EXCEPT ![t] = L]
    BY <1>6, <2>1, <2>2, <2>3, <2>4, Continuations, Zenon DEF SetSignal, Goto
  <2>6. /\ th[t] \in Thread
        /\ pc \in Pcs
        /\ th[t].i \in Nat \ {0}
        /\ th[t].was \in BOOLEAN
        /\ th[t].mode \in {"none", "THROW_IE", "REINTERRUPT"}
        /\ NULL \in Nodes \cup {NULL}
        /\ NULL \in Nodes \cup {NULL}
        /\ NoRet \in Rets
    BY <1>6, <2>1, <2>2, <2>3, <2>4 DEF Pcs, LivePcs, FirstPcs, RetiredPcs, CancelledPcs, AwaitPcs,
       UnparkPcs, SharedPcs, TransferPcs, Rets, NextIteration, Thread
  <2>7. /\ L \in Thread
        /\ L.pc = pc /\ L.i = th[t].i /\ L.was = th[t].was /\ L.pred = NULL /\ L.predNext = NULL
        /\ L.ws = 0 /\ L.s = NULL /\ L.q = NULL /\ L.h = NULL /\ L.u = NULL /\ L.ret = NoRet
        /\ L.ret2 = NoRet /\ L.n = NULL /\ L.mode = th[t].mode
    <3>1. L = [pc |-> pc, i |-> th[t].i, was |-> th[t].was, pred |-> NULL, predNext |-> NULL,
              ws |-> 0, s |-> NULL, q |-> NULL, h |-> NULL, u |-> NULL, ret |-> NoRet,
              ret2 |-> NoRet, n |-> NULL, mode |-> th[t].mode]
      BY ONLY DEF FreshAt
    <3> HIDE DEF L, pc
    <3>2. L \in Thread
      BY ONLY <3>1, <2>6 DEF Thread
    <3> QED BY ONLY <3>1, <3>2
  <2> HIDE DEF L
  <2>8. th'[t] = L
    BY ONLY <1>0, <2>5
  <2>9. /\ th'[t].pc = pc /\ th'[t].i = th[t].i /\ th'[t].was = th[t].was /\ th'[t].pred = NULL
        /\ th'[t].predNext = NULL /\ th'[t].ws = 0 /\ th'[t].s = NULL /\ th'[t].q = NULL
        /\ th'[t].h = NULL /\ th'[t].u = NULL /\ th'[t].ret = NoRet /\ th'[t].ret2 = NoRet
        /\ th'[t].n = NULL /\ th'[t].mode = th[t].mode
    BY ONLY <2>8, <2>7
  <2>10. order' = order /\ program' = program /\ head' = head /\ tail' = tail
    BY ONLY program' = program, <1>6 DEF SetSignal, sync
  <2>11. LocalsSound(t)'
    BY <2>1, <2>2, <2>3, <2>4, <2>6, <2>9, <2>10 DEF LocalsSound, PredPcs, LinkedPcs, Leaving, At,
       Call, Pcs, LivePcs, FirstPcs, RetiredPcs, CancelledPcs, AwaitPcs, UnparkPcs, SharedPcs,
       TransferPcs
  <2>12. ASSUME CancelledNodes' = CancelledNodes PROVE NodeSound(t)'
    BY <2>1, <2>2, <2>3, <2>4, <2>9, <2>10, <2>12 DEF NodeSound, ThisLive, Fresh, Awaiting, Leaving,
       GivenUp, LinkedPcs, At, Call, Me, Pcs, LivePcs, FirstPcs, RetiredPcs, CancelledPcs, AwaitPcs,
       UnparkPcs, SharedPcs, TransferPcs
  <2>13. ~Claiming(t)' /\ (Awaiting(t) /\ Me(t) \notin Range(order) => Awaiting(t)')
    BY <2>1, <2>2, <2>3, <2>4, <2>9, <2>10 DEF Claiming, Awaiting, At, Call, Me, Pcs, LivePcs,
       FirstPcs, RetiredPcs, CancelledPcs, AwaitPcs, UnparkPcs, SharedPcs, TransferPcs
  <2>14. Proceeds(t)
    BY ONLY <2>5, <2>7, <2>8, <2>9, <2>11, <2>12, <2>13, Zenon DEF Proceeds
  <2>15. QuietNodes
    BY <1>6, <2>1, <2>2, <2>3, <2>4, StatusChanged DEF SetSignal
  <2>16. state' \in Nat /\ permit' \in [Threads -> BOOLEAN] /\ intr' \in [Threads -> BOOLEAN]
    BY <1>6, <2>1, <2>2, <2>3, <2>4 DEF SetSignal, sync, parking
  <2> QED BY <2>10, <2>14, <2>16, <2>15, LocalStep
<1>7. CASE Park(t)
  <2>1. th[t].pc = "park"
    BY ONLY <1>7 DEF Park, park, At
  <2> DEFINE L == FreshAt("interrupted", th[t].i, th[t].was, th[t].mode, NULL, NULL, NoRet)
  <2>2. th' = [th EXCEPT ![t] = L]
    BY <1>7, <2>1, Continuations, Zenon DEF Park, park, Goto
  <2>3. /\ th[t] \in Thread
        /\ "interrupted" \in Pcs
        /\ th[t].i \in Nat \ {0}
        /\ th[t].was \in BOOLEAN
        /\ th[t].mode \in {"none", "THROW_IE", "REINTERRUPT"}
        /\ NULL \in Nodes \cup {NULL}
        /\ NULL \in Nodes \cup {NULL}
        /\ NoRet \in Rets
    BY <1>7, <2>1 DEF Pcs, LivePcs, FirstPcs, RetiredPcs, CancelledPcs, AwaitPcs, UnparkPcs,
       SharedPcs, TransferPcs, Rets, Thread
  <2>4. /\ L \in Thread
        /\ L.pc = "interrupted" /\ L.i = th[t].i /\ L.was = th[t].was /\ L.pred = NULL
        /\ L.predNext = NULL /\ L.ws = 0 /\ L.s = NULL /\ L.q = NULL /\ L.h = NULL /\ L.u = NULL
        /\ L.ret = NoRet /\ L.ret2 = NoRet /\ L.n = NULL /\ L.mode = th[t].mode
    <3>1. L = [pc |-> "interrupted", i |-> th[t].i, was |-> th[t].was, pred |-> NULL,
              predNext |-> NULL, ws |-> 0, s |-> NULL, q |-> NULL, h |-> NULL, u |-> NULL,
              ret |-> NoRet, ret2 |-> NoRet, n |-> NULL, mode |-> th[t].mode]
      BY ONLY DEF FreshAt
    <3> HIDE DEF L
    <3>2. L \in Thread
      BY ONLY <3>1, <2>3 DEF Thread
    <3> QED BY ONLY <3>1, <3>2
  <2> HIDE DEF L
  <2>5. th'[t] = L
    BY ONLY <1>0, <2>2
  <2>6. /\ th'[t].pc = "interrupted" /\ th'[t].i = th[t].i /\ th'[t].was = th[t].was
        /\ th'[t].pred = NULL /\ th'[t].predNext = NULL /\ th'[t].ws = 0 /\ th'[t].s = NULL
        /\ th'[t].q = NULL /\ th'[t].h = NULL /\ th'[t].u = NULL /\ th'[t].ret = NoRet
        /\ th'[t].ret2 = NoRet /\ th'[t].n = NULL /\ th'[t].mode = th[t].mode
    BY ONLY <2>5, <2>4
  <2>7. order' = order /\ program' = program /\ head' = head /\ tail' = tail /\ node' = node
    BY ONLY program' = program, <1>7 DEF Park, park, sync
  <2>8. LocalsSound(t)'
    BY <2>1, <2>3, <2>6, <2>7 DEF LocalsSound, PredPcs, LinkedPcs, Leaving, At, Call, Pcs, LivePcs,
       FirstPcs, RetiredPcs, CancelledPcs, AwaitPcs, UnparkPcs, SharedPcs, TransferPcs
  <2>9. ASSUME CancelledNodes' = CancelledNodes PROVE NodeSound(t)'
    BY <2>1, <2>6, <2>7, <2>9 DEF NodeSound, ThisLive, Fresh, Awaiting, Leaving, GivenUp, LinkedPcs,
       At, Call, Me, Pcs, LivePcs, FirstPcs, RetiredPcs, CancelledPcs, AwaitPcs, UnparkPcs,
       SharedPcs, TransferPcs
  <2>10. ~Claiming(t)' /\ (Awaiting(t) /\ Me(t) \notin Range(order) => Awaiting(t)')
    BY <2>1, <2>6, <2>7 DEF Claiming, Awaiting, At, Call, Me, Pcs, LivePcs, FirstPcs, RetiredPcs,
       CancelledPcs, AwaitPcs, UnparkPcs, SharedPcs, TransferPcs
  <2>11. Proceeds(t)
    BY ONLY <2>2, <2>4, <2>5, <2>6, <2>8, <2>9, <2>10, Zenon DEF Proceeds
  <2>12. state' \in Nat /\ permit' \in [Threads -> BOOLEAN] /\ intr' \in [Threads -> BOOLEAN]
    BY <1>7, <2>1, Zenon DEF Park, park, sync, parking
  <2> QED BY <2>7, <2>11, <2>12, SameNodes, LocalStep
<1>8. CASE SpuriousWakeup(t)
  <2>1. th[t].pc = "park"
    BY ONLY <1>8 DEF SpuriousWakeup, At
  <2> DEFINE L == FreshAt("interrupted", th[t].i, th[t].was, th[t].mode, NULL, NULL, NoRet)
  <2>2. th' = [th EXCEPT ![t] = L]
    BY <1>8, <2>1, Continuations, Zenon DEF SpuriousWakeup, Goto
  <2>3. /\ th[t] \in Thread
        /\ "interrupted" \in Pcs
        /\ th[t].i \in Nat \ {0}
        /\ th[t].was \in BOOLEAN
        /\ th[t].mode \in {"none", "THROW_IE", "REINTERRUPT"}
        /\ NULL \in Nodes \cup {NULL}
        /\ NULL \in Nodes \cup {NULL}
        /\ NoRet \in Rets
    BY <1>8, <2>1 DEF Pcs, LivePcs, FirstPcs, RetiredPcs, CancelledPcs, AwaitPcs, UnparkPcs,
       SharedPcs, TransferPcs, Rets, Thread
  <2>4. /\ L \in Thread
        /\ L.pc = "interrupted" /\ L.i = th[t].i /\ L.was = th[t].was /\ L.pred = NULL
        /\ L.predNext = NULL /\ L.ws = 0 /\ L.s = NULL /\ L.q = NULL /\ L.h = NULL /\ L.u = NULL
        /\ L.ret = NoRet /\ L.ret2 = NoRet /\ L.n = NULL /\ L.mode = th[t].mode
    <3>1. L = [pc |-> "interrupted", i |-> th[t].i, was |-> th[t].was, pred |-> NULL,
              predNext |-> NULL, ws |-> 0, s |-> NULL, q |-> NULL, h |-> NULL, u |-> NULL,
              ret |-> NoRet, ret2 |-> NoRet, n |-> NULL, mode |-> th[t].mode]
      BY ONLY DEF FreshAt
    <3> HIDE DEF L
    <3>2. L \in Thread
      BY ONLY <3>1, <2>3 DEF Thread
    <3> QED BY ONLY <3>1, <3>2
  <2> HIDE DEF L
  <2>5. th'[t] = L
    BY ONLY <1>0, <2>2
  <2>6. /\ th'[t].pc = "interrupted" /\ th'[t].i = th[t].i /\ th'[t].was = th[t].was
        /\ th'[t].pred = NULL /\ th'[t].predNext = NULL /\ th'[t].ws = 0 /\ th'[t].s = NULL
        /\ th'[t].q = NULL /\ th'[t].h = NULL /\ th'[t].u = NULL /\ th'[t].ret = NoRet
        /\ th'[t].ret2 = NoRet /\ th'[t].n = NULL /\ th'[t].mode = th[t].mode
    BY ONLY <2>5, <2>4
  <2>7. order' = order /\ program' = program /\ head' = head /\ tail' = tail /\ node' = node
    BY ONLY program' = program, <1>8 DEF SpuriousWakeup, sync
  <2>8. LocalsSound(t)'
    BY <2>1, <2>3, <2>6, <2>7 DEF LocalsSound, PredPcs, LinkedPcs, Leaving, At, Call, Pcs, LivePcs,
       FirstPcs, RetiredPcs, CancelledPcs, AwaitPcs, UnparkPcs, SharedPcs, TransferPcs
  <2>9. ASSUME CancelledNodes' = CancelledNodes PROVE NodeSound(t)'
    BY <2>1, <2>6, <2>7, <2>9 DEF NodeSound, ThisLive, Fresh, Awaiting, Leaving, GivenUp, LinkedPcs,
       At, Call, Me, Pcs, LivePcs, FirstPcs, RetiredPcs, CancelledPcs, AwaitPcs, UnparkPcs,
       SharedPcs, TransferPcs
  <2>10. ~Claiming(t)' /\ (Awaiting(t) /\ Me(t) \notin Range(order) => Awaiting(t)')
    BY <2>1, <2>6, <2>7 DEF Claiming, Awaiting, At, Call, Me, Pcs, LivePcs, FirstPcs, RetiredPcs,
       CancelledPcs, AwaitPcs, UnparkPcs, SharedPcs, TransferPcs
  <2>11. Proceeds(t)
    BY ONLY <2>2, <2>4, <2>5, <2>6, <2>8, <2>9, <2>10, Zenon DEF Proceeds
  <2> QED BY <1>8, <2>11, MoveStep DEF SpuriousWakeup
<1>9. CASE Interrupted(t)
  <2>1. th[t].pc = "interrupted"
    BY ONLY <1>9 DEF Interrupted, At
  <2> DEFINE was == How(t) = "plain" /\ (th[t].was \/ intr[t])
             pc == IF intr[t] /\ How(t) # "plain" THEN "cancel" ELSE "loop"
  <2> DEFINE L == [th[t] EXCEPT !.was = was, !.pc = pc]
  <2>2. th' = [th EXCEPT ![t] = L]
    BY <1>9, <2>1, Zenon DEF Interrupted, Goto
  <2>3. /\ th[t] \in Thread
        /\ was \in BOOLEAN
        /\ pc \in Pcs
    BY <1>9, <2>1 DEF Pcs, LivePcs, FirstPcs, RetiredPcs, CancelledPcs, AwaitPcs, UnparkPcs,
       SharedPcs, TransferPcs, Rets
  <2>4. L \in Thread
    <3> HIDE DEF was, pc
    <3> QED BY ONLY <2>3, Zenon DEF Thread, Rets
  <2>5. th'[t] = L
    BY ONLY <1>0, <2>2
  <2>6. /\ th'[t].pc = pc /\ th'[t].i = th[t].i /\ th'[t].was = was /\ th'[t].pred = th[t].pred
        /\ th'[t].predNext = th[t].predNext /\ th'[t].ws = th[t].ws /\ th'[t].s = th[t].s
        /\ th'[t].q = th[t].q /\ th'[t].h = th[t].h /\ th'[t].u = th[t].u /\ th'[t].ret = th[t].ret
        /\ th'[t].ret2 = th[t].ret2 /\ th'[t].n = th[t].n /\ th'[t].mode = th[t].mode
    BY ONLY <2>5, <2>3 DEF Thread
  <2>7. order' = order /\ program' = program /\ head' = head /\ tail' = tail /\ node' = node
    BY ONLY program' = program, <1>9 DEF Interrupted, sync
  <2>8. LocalsSound(t)'
    BY <2>1, <2>3, <2>6, <2>7 DEF LocalsSound, PredPcs, LinkedPcs, Leaving, At, Call, Pcs, LivePcs,
       FirstPcs, RetiredPcs, CancelledPcs, AwaitPcs, UnparkPcs, SharedPcs, TransferPcs
  <2>9. ASSUME CancelledNodes' = CancelledNodes PROVE NodeSound(t)'
    BY <2>1, <2>6, <2>7, <2>9 DEF NodeSound, ThisLive, Fresh, Awaiting, Leaving, GivenUp, LinkedPcs,
       At, Call, Me, Pcs, LivePcs, FirstPcs, RetiredPcs, CancelledPcs, AwaitPcs, UnparkPcs,
       SharedPcs, TransferPcs
  <2>10. ~Claiming(t)' /\ (Awaiting(t) /\ Me(t) \notin Range(order) => Awaiting(t)')
    BY <2>1, <2>6, <2>7 DEF Claiming, Awaiting, At, Call, Me, Pcs, LivePcs, FirstPcs, RetiredPcs,
       CancelledPcs, AwaitPcs, UnparkPcs, SharedPcs, TransferPcs
  <2>11. Proceeds(t)
    BY ONLY <2>2, <2>4, <2>5, <2>6, <2>8, <2>9, <2>10, Zenon DEF Proceeds
  <2>12. state' \in Nat /\ permit' \in [Threads -> BOOLEAN] /\ intr' \in [Threads -> BOOLEAN]
    BY <1>9, <2>1 DEF Interrupted, sync, parking
  <2> QED BY <2>7, <2>11, <2>12, SameNodes, LocalStep
<1> QED BY <1>1, <1>2, <1>3, <1>4, <1>5, <1>6, <1>7, <1>8, <1>9 DEF Try, sync

\* setHead and setHeadAndPropagate, but for the head and the prev link
LEMMA DequeueSteps ==
    ASSUME IInv, NEW t \in Threads, program' = program,
           OldHead(t) \/ SetHeadThread(t) \/ Propagate(t) \/ Propagate2(t) \/ Propagate3(t)
           \/ Successor(t) \/ PNext(t)
    PROVE  IInv'
<1> USE Locals, NodeForm, NoReturn
<1>0. th \in [Threads -> Thread] /\ t \in Threads
  OBVIOUS
<1>1. CASE OldHead(t)
  <2>1. th[t].pc = "oldhead"
    BY ONLY <1>1 DEF OldHead, At
  <2>2. head \in Queued(order) \cup {NULL} /\ (head # NULL => head \in Nodes)
    BY HeadQueued
  <2> DEFINE L == [th[t] EXCEPT !.pc = "sethead", !.h = head]
  <2>3. th' = [th EXCEPT ![t] = L]
    BY <1>1, <2>1, <2>2, Zenon DEF OldHead, Goto
  <2>4. /\ th[t] \in Thread
        /\ "sethead" \in Pcs
        /\ head \in Nodes \cup {NULL}
    BY <1>1, <2>1, <2>2 DEF Pcs, LivePcs, FirstPcs, RetiredPcs, CancelledPcs, AwaitPcs, UnparkPcs,
       SharedPcs, TransferPcs, Rets
  <2>5. L \in Thread
    BY ONLY <2>4, Zenon DEF Thread, Rets
  <2>6. th'[t] = L
    BY ONLY <1>0, <2>3
  <2>7. /\ th'[t].pc = "sethead" /\ th'[t].i = th[t].i /\ th'[t].was = th[t].was
        /\ th'[t].pred = th[t].pred /\ th'[t].predNext = th[t].predNext /\ th'[t].ws = th[t].ws
        /\ th'[t].s = th[t].s /\ th'[t].q = th[t].q /\ th'[t].h = head /\ th'[t].u = th[t].u
        /\ th'[t].ret = th[t].ret /\ th'[t].ret2 = th[t].ret2 /\ th'[t].n = th[t].n
        /\ th'[t].mode = th[t].mode
    BY ONLY <2>6, <2>4 DEF Thread
  <2>8. order' = order /\ program' = program /\ head' = head /\ tail' = tail /\ node' = node
    BY ONLY program' = program, <1>1 DEF OldHead, sync
  <2>9. LocalsSound(t)'
    BY <2>1, <2>2, <2>4, <2>7, <2>8 DEF LocalsSound, PredPcs, LinkedPcs, Leaving, At, Call, Pcs,
       LivePcs, FirstPcs, RetiredPcs, CancelledPcs, AwaitPcs, UnparkPcs, SharedPcs, TransferPcs
  <2>10. ASSUME CancelledNodes' = CancelledNodes PROVE NodeSound(t)'
    BY <2>1, <2>2, <2>7, <2>8, <2>10 DEF NodeSound, ThisLive, Fresh, Awaiting, Leaving, GivenUp,
       LinkedPcs, At, Call, Me, Pcs, LivePcs, FirstPcs, RetiredPcs, CancelledPcs, AwaitPcs,
       UnparkPcs, SharedPcs, TransferPcs
  <2>11. ~Claiming(t)' /\ (Awaiting(t) /\ Me(t) \notin Range(order) => Awaiting(t)')
    BY <2>1, <2>2, <2>7, <2>8 DEF Claiming, Awaiting, At, Call, Me, Pcs, LivePcs, FirstPcs,
       RetiredPcs, CancelledPcs, AwaitPcs, UnparkPcs, SharedPcs, TransferPcs
  <2>12. Proceeds(t)
    BY ONLY <2>3, <2>5, <2>6, <2>7, <2>9, <2>10, <2>11, Zenon DEF Proceeds
  <2> QED BY <1>1, <2>12, MoveStep DEF OldHead
<1>2. CASE SetHeadThread(t)
  <2>1. th[t].pc = "sethead_thread"
    BY ONLY <1>2 DEF SetHeadThread, At
  <2>2. Me(t) \in Nodes
    BY <2>1 DEF NodeSound, Leaving, RetiredPcs, Retired
  <2> DEFINE L == [th[t] EXCEPT !.pc = "sethead_prev"]
  <2>3. th' = [th EXCEPT ![t] = L]
    BY <1>2, <2>1, <2>2 DEF SetHeadThread, Goto
  <2>4. /\ th[t] \in Thread
        /\ "sethead_prev" \in Pcs
    BY <1>2, <2>1, <2>2 DEF Pcs, LivePcs, FirstPcs, RetiredPcs, CancelledPcs, AwaitPcs, UnparkPcs,
       SharedPcs, TransferPcs, Rets
  <2>5. L \in Thread
    BY ONLY <2>4 DEF Thread, Rets
  <2>6. th'[t] = L
    BY ONLY <1>0, <2>3
  <2>7. /\ th'[t].pc = "sethead_prev" /\ th'[t].i = th[t].i /\ th'[t].was = th[t].was
        /\ th'[t].pred = th[t].pred /\ th'[t].predNext = th[t].predNext /\ th'[t].ws = th[t].ws
        /\ th'[t].s = th[t].s /\ th'[t].q = th[t].q /\ th'[t].h = th[t].h /\ th'[t].u = th[t].u
        /\ th'[t].ret = th[t].ret /\ th'[t].ret2 = th[t].ret2 /\ th'[t].n = th[t].n
        /\ th'[t].mode = th[t].mode
    BY ONLY <2>6, <2>4 DEF Thread
  <2>8. order' = order /\ program' = program /\ head' = head /\ tail' = tail
    BY ONLY program' = program, <1>2 DEF SetHeadThread, sync
  <2>9. LocalsSound(t)'
    BY <2>1, <2>2, <2>4, <2>7, <2>8 DEF LocalsSound, PredPcs, LinkedPcs, Leaving, At, Call, Pcs,
       LivePcs, FirstPcs, RetiredPcs, CancelledPcs, AwaitPcs, UnparkPcs, SharedPcs, TransferPcs
  <2>10. ASSUME CancelledNodes' = CancelledNodes PROVE NodeSound(t)'
    BY <2>1, <2>2, <2>7, <2>8, <2>10 DEF NodeSound, ThisLive, Fresh, Awaiting, Leaving, GivenUp,
       LinkedPcs, At, Call, Me, Pcs, LivePcs, FirstPcs, RetiredPcs, CancelledPcs, AwaitPcs,
       UnparkPcs, SharedPcs, TransferPcs
  <2>11. ~Claiming(t)' /\ (Awaiting(t) /\ Me(t) \notin Range(order) => Awaiting(t)')
    BY <2>1, <2>2, <2>7, <2>8 DEF Claiming, Awaiting, At, Call, Me, Pcs, LivePcs, FirstPcs,
       RetiredPcs, CancelledPcs, AwaitPcs, UnparkPcs, SharedPcs, TransferPcs
  <2>12. Proceeds(t)
    BY ONLY <2>3, <2>5, <2>6, <2>7, <2>9, <2>10, <2>11, Zenon DEF Proceeds
  <2>13. QuietNodes
    BY <1>2, <2>1, <2>2, ThreadChanged, Zenon DEF SetHeadThread
  <2>14. state' \in Nat /\ permit' \in [Threads -> BOOLEAN] /\ intr' \in [Threads -> BOOLEAN]
    BY <1>2, <2>1, <2>2 DEF SetHeadThread, sync, parking
  <2> QED BY <2>8, <2>12, <2>14, <2>13, LocalStep
<1>3. CASE Propagate(t)
  <2>1. th[t].pc = "propagate"
    BY ONLY <1>3 DEF Propagate, At
  <2> DEFINE pc == IF th[t].ws > 0 \/ th[t].h = NULL \/ node[th[t].h].ws < 0 THEN "successor" ELSE "propagate2"
  <2> DEFINE L == [th[t] EXCEPT !.pc = pc]
  <2>2. th' = [th EXCEPT ![t] = L]
    BY <1>3, <2>1 DEF Propagate, Goto
  <2>3. /\ th[t] \in Thread
        /\ pc \in Pcs
    BY <1>3, <2>1 DEF Pcs, LivePcs, FirstPcs, RetiredPcs, CancelledPcs, AwaitPcs, UnparkPcs,
       SharedPcs, TransferPcs, Rets
  <2>4. L \in Thread
    <3> HIDE DEF pc
    <3> QED BY ONLY <2>3 DEF Thread, Rets
  <2>5. th'[t] = L
    BY ONLY <1>0, <2>2
  <2>6. /\ th'[t].pc = pc /\ th'[t].i = th[t].i /\ th'[t].was = th[t].was /\ th'[t].pred = th[t].pred
        /\ th'[t].predNext = th[t].predNext /\ th'[t].ws = th[t].ws /\ th'[t].s = th[t].s
        /\ th'[t].q = th[t].q /\ th'[t].h = th[t].h /\ th'[t].u = th[t].u /\ th'[t].ret = th[t].ret
        /\ th'[t].ret2 = th[t].ret2 /\ th'[t].n = th[t].n /\ th'[t].mode = th[t].mode
    BY ONLY <2>5, <2>3 DEF Thread
  <2>7. order' = order /\ program' = program /\ head' = head /\ tail' = tail /\ node' = node
    BY ONLY program' = program, <1>3 DEF Propagate, sync
  <2>8. LocalsSound(t)'
    BY <2>1, <2>3, <2>6, <2>7 DEF LocalsSound, PredPcs, LinkedPcs, Leaving, At, Call, Pcs, LivePcs,
       FirstPcs, RetiredPcs, CancelledPcs, AwaitPcs, UnparkPcs, SharedPcs, TransferPcs
  <2>9. ASSUME CancelledNodes' = CancelledNodes PROVE NodeSound(t)'
    BY <2>1, <2>6, <2>7, <2>9 DEF NodeSound, ThisLive, Fresh, Awaiting, Leaving, GivenUp, LinkedPcs,
       At, Call, Me, Pcs, LivePcs, FirstPcs, RetiredPcs, CancelledPcs, AwaitPcs, UnparkPcs,
       SharedPcs, TransferPcs
  <2>10. ~Claiming(t)' /\ (Awaiting(t) /\ Me(t) \notin Range(order) => Awaiting(t)')
    BY <2>1, <2>6, <2>7 DEF Claiming, Awaiting, At, Call, Me, Pcs, LivePcs, FirstPcs, RetiredPcs,
       CancelledPcs, AwaitPcs, UnparkPcs, SharedPcs, TransferPcs
  <2>11. Proceeds(t)
    BY ONLY <2>2, <2>4, <2>5, <2>6, <2>8, <2>9, <2>10, Zenon DEF Proceeds
  <2> QED BY <1>3, <2>11, MoveStep DEF Propagate
<1>4. CASE Propagate2(t)
  <2>1. th[t].pc = "propagate2"
    BY ONLY <1>4 DEF Propagate2, At
  <2>2. head \in Queued(order) \cup {NULL} /\ (head # NULL => head \in Nodes)
    BY HeadQueued
  <2> DEFINE pc == IF head = NULL THEN "successor" ELSE "propagate3"
  <2> DEFINE L == [th[t] EXCEPT !.pc = pc, !.h = head]
  <2>3. th' = [th EXCEPT ![t] = L]
    BY <1>4, <2>1, <2>2, Zenon DEF Propagate2, Goto
  <2>4. /\ th[t] \in Thread
        /\ pc \in Pcs
        /\ head \in Nodes \cup {NULL}
    BY <1>4, <2>1, <2>2 DEF Pcs, LivePcs, FirstPcs, RetiredPcs, CancelledPcs, AwaitPcs, UnparkPcs,
       SharedPcs, TransferPcs, Rets
  <2>5. L \in Thread
    <3> HIDE DEF pc
    <3> QED BY ONLY <2>4, Zenon DEF Thread, Rets
  <2>6. th'[t] = L
    BY ONLY <1>0, <2>3
  <2>7. /\ th'[t].pc = pc /\ th'[t].i = th[t].i /\ th'[t].was = th[t].was
        /\ th'[t].pred = th[t].pred /\ th'[t].predNext = th[t].predNext /\ th'[t].ws = th[t].ws
        /\ th'[t].s = th[t].s /\ th'[t].q = th[t].q /\ th'[t].h = head /\ th'[t].u = th[t].u
        /\ th'[t].ret = th[t].ret /\ th'[t].ret2 = th[t].ret2 /\ th'[t].n = th[t].n
        /\ th'[t].mode = th[t].mode
    BY ONLY <2>6, <2>4 DEF Thread
  <2>8. order' = order /\ program' = program /\ head' = head /\ tail' = tail /\ node' = node
    BY ONLY program' = program, <1>4 DEF Propagate2, sync
  <2>9. LocalsSound(t)'
    BY <2>1, <2>2, <2>4, <2>7, <2>8 DEF LocalsSound, PredPcs, LinkedPcs, Leaving, At, Call, Pcs,
       LivePcs, FirstPcs, RetiredPcs, CancelledPcs, AwaitPcs, UnparkPcs, SharedPcs, TransferPcs
  <2>10. ASSUME CancelledNodes' = CancelledNodes PROVE NodeSound(t)'
    BY <2>1, <2>2, <2>7, <2>8, <2>10 DEF NodeSound, ThisLive, Fresh, Awaiting, Leaving, GivenUp,
       LinkedPcs, At, Call, Me, Pcs, LivePcs, FirstPcs, RetiredPcs, CancelledPcs, AwaitPcs,
       UnparkPcs, SharedPcs, TransferPcs
  <2>11. ~Claiming(t)' /\ (Awaiting(t) /\ Me(t) \notin Range(order) => Awaiting(t)')
    BY <2>1, <2>2, <2>7, <2>8 DEF Claiming, Awaiting, At, Call, Me, Pcs, LivePcs, FirstPcs,
       RetiredPcs, CancelledPcs, AwaitPcs, UnparkPcs, SharedPcs, TransferPcs
  <2>12. Proceeds(t)
    BY ONLY <2>3, <2>5, <2>6, <2>7, <2>9, <2>10, <2>11, Zenon DEF Proceeds
  <2> QED BY <1>4, <2>12, MoveStep DEF Propagate2
<1>5. CASE Propagate3(t)
  <2>1. th[t].pc = "propagate3"
    BY ONLY <1>5 DEF Propagate3, At
  <2> DEFINE pc == IF node[th[t].h].ws < 0 THEN "successor" ELSE "pnext"
  <2> DEFINE L == [th[t] EXCEPT !.pc = pc]
  <2>2. th' = [th EXCEPT ![t] = L]
    BY <1>5, <2>1 DEF Propagate3, Goto
  <2>3. /\ th[t] \in Thread
        /\ pc \in Pcs
    BY <1>5, <2>1 DEF Pcs, LivePcs, FirstPcs, RetiredPcs, CancelledPcs, AwaitPcs, UnparkPcs,
       SharedPcs, TransferPcs, Rets
  <2>4. L \in Thread
    <3> HIDE DEF pc
    <3> QED BY ONLY <2>3 DEF Thread, Rets
  <2>5. th'[t] = L
    BY ONLY <1>0, <2>2
  <2>6. /\ th'[t].pc = pc /\ th'[t].i = th[t].i /\ th'[t].was = th[t].was /\ th'[t].pred = th[t].pred
        /\ th'[t].predNext = th[t].predNext /\ th'[t].ws = th[t].ws /\ th'[t].s = th[t].s
        /\ th'[t].q = th[t].q /\ th'[t].h = th[t].h /\ th'[t].u = th[t].u /\ th'[t].ret = th[t].ret
        /\ th'[t].ret2 = th[t].ret2 /\ th'[t].n = th[t].n /\ th'[t].mode = th[t].mode
    BY ONLY <2>5, <2>3 DEF Thread
  <2>7. order' = order /\ program' = program /\ head' = head /\ tail' = tail /\ node' = node
    BY ONLY program' = program, <1>5 DEF Propagate3, sync
  <2>8. LocalsSound(t)'
    BY <2>1, <2>3, <2>6, <2>7 DEF LocalsSound, PredPcs, LinkedPcs, Leaving, At, Call, Pcs, LivePcs,
       FirstPcs, RetiredPcs, CancelledPcs, AwaitPcs, UnparkPcs, SharedPcs, TransferPcs
  <2>9. ASSUME CancelledNodes' = CancelledNodes PROVE NodeSound(t)'
    BY <2>1, <2>6, <2>7, <2>9 DEF NodeSound, ThisLive, Fresh, Awaiting, Leaving, GivenUp, LinkedPcs,
       At, Call, Me, Pcs, LivePcs, FirstPcs, RetiredPcs, CancelledPcs, AwaitPcs, UnparkPcs,
       SharedPcs, TransferPcs
  <2>10. ~Claiming(t)' /\ (Awaiting(t) /\ Me(t) \notin Range(order) => Awaiting(t)')
    BY <2>1, <2>6, <2>7 DEF Claiming, Awaiting, At, Call, Me, Pcs, LivePcs, FirstPcs, RetiredPcs,
       CancelledPcs, AwaitPcs, UnparkPcs, SharedPcs, TransferPcs
  <2>11. Proceeds(t)
    BY ONLY <2>2, <2>4, <2>5, <2>6, <2>8, <2>9, <2>10, Zenon DEF Proceeds
  <2> QED BY <1>5, <2>11, MoveStep DEF Propagate3
<1>6. CASE Successor(t) /\ (node[Me(t)].next = NULL \/ isShared(node[Me(t)].next))
  <2>1. th[t].pc = "successor"
    BY ONLY <1>6 DEF Successor, At
  <2> DEFINE L == [th[t] EXCEPT !.pc = "dhead", !.ret2 = "pnext", !.ws = 0]
  <2>2. th' = [th EXCEPT ![t] = L]
    BY <1>6, <2>1, Zenon DEF Successor, Goto
  <2>3. /\ th[t] \in Thread
        /\ "dhead" \in Pcs
        /\ 0 \in Int
    BY <1>6, <2>1 DEF Pcs, LivePcs, FirstPcs, RetiredPcs, CancelledPcs, AwaitPcs, UnparkPcs,
       SharedPcs, TransferPcs, Rets
  <2>4. L \in Thread
    BY ONLY <2>3, Zenon DEF Thread, Rets
  <2>5. th'[t] = L
    BY ONLY <1>0, <2>2
  <2>6. /\ th'[t].pc = "dhead" /\ th'[t].i = th[t].i /\ th'[t].was = th[t].was
        /\ th'[t].pred = th[t].pred /\ th'[t].predNext = th[t].predNext /\ th'[t].ws = 0
        /\ th'[t].s = th[t].s /\ th'[t].q = th[t].q /\ th'[t].h = th[t].h /\ th'[t].u = th[t].u
        /\ th'[t].ret = th[t].ret /\ th'[t].ret2 = "pnext" /\ th'[t].n = th[t].n
        /\ th'[t].mode = th[t].mode
    BY ONLY <2>5, <2>3 DEF Thread
  <2>7. order' = order /\ program' = program /\ head' = head /\ tail' = tail /\ node' = node
    BY ONLY program' = program, <1>6 DEF Successor, sync
  <2>8. LocalsSound(t)'
    BY <2>1, <2>3, <2>6, <2>7 DEF LocalsSound, PredPcs, LinkedPcs, Leaving, At, Call, Pcs, LivePcs,
       FirstPcs, RetiredPcs, CancelledPcs, AwaitPcs, UnparkPcs, SharedPcs, TransferPcs
  <2>9. ASSUME CancelledNodes' = CancelledNodes PROVE NodeSound(t)'
    BY <2>1, <2>6, <2>7, <2>9 DEF NodeSound, ThisLive, Fresh, Awaiting, Leaving, GivenUp, LinkedPcs,
       At, Call, Me, Pcs, LivePcs, FirstPcs, RetiredPcs, CancelledPcs, AwaitPcs, UnparkPcs,
       SharedPcs, TransferPcs
  <2>10. ~Claiming(t)' /\ (Awaiting(t) /\ Me(t) \notin Range(order) => Awaiting(t)')
    BY <2>1, <2>6, <2>7 DEF Claiming, Awaiting, At, Call, Me, Pcs, LivePcs, FirstPcs, RetiredPcs,
       CancelledPcs, AwaitPcs, UnparkPcs, SharedPcs, TransferPcs
  <2>11. Proceeds(t)
    BY ONLY <2>2, <2>4, <2>5, <2>6, <2>8, <2>9, <2>10, Zenon DEF Proceeds
  <2> QED BY <1>6, <2>11, MoveStep DEF Successor
<1>7. CASE Successor(t) /\ ~(node[Me(t)].next = NULL \/ isShared(node[Me(t)].next))
  <2>1. th[t].pc = "successor"
    BY ONLY <1>7 DEF Successor, At
  <2> DEFINE L == [th[t] EXCEPT !.pc = "pnext"]
  <2>2. th' = [th EXCEPT ![t] = L]
    BY <1>7, <2>1 DEF Successor, Goto
  <2>3. /\ th[t] \in Thread
        /\ "pnext" \in Pcs
    BY <1>7, <2>1 DEF Pcs, LivePcs, FirstPcs, RetiredPcs, CancelledPcs, AwaitPcs, UnparkPcs,
       SharedPcs, TransferPcs, Rets
  <2>4. L \in Thread
    BY ONLY <2>3 DEF Thread, Rets
  <2>5. th'[t] = L
    BY ONLY <1>0, <2>2
  <2>6. /\ th'[t].pc = "pnext" /\ th'[t].i = th[t].i /\ th'[t].was = th[t].was
        /\ th'[t].pred = th[t].pred /\ th'[t].predNext = th[t].predNext /\ th'[t].ws = th[t].ws
        /\ th'[t].s = th[t].s /\ th'[t].q = th[t].q /\ th'[t].h = th[t].h /\ th'[t].u = th[t].u
        /\ th'[t].ret = th[t].ret /\ th'[t].ret2 = th[t].ret2 /\ th'[t].n = th[t].n
        /\ th'[t].mode = th[t].mode
    BY ONLY <2>5, <2>3 DEF Thread
  <2>7. order' = order /\ program' = program /\ head' = head /\ tail' = tail /\ node' = node
    BY ONLY program' = program, <1>7 DEF Successor, sync
  <2>8. LocalsSound(t)'
    BY <2>1, <2>3, <2>6, <2>7 DEF LocalsSound, PredPcs, LinkedPcs, Leaving, At, Call, Pcs, LivePcs,
       FirstPcs, RetiredPcs, CancelledPcs, AwaitPcs, UnparkPcs, SharedPcs, TransferPcs
  <2>9. ASSUME CancelledNodes' = CancelledNodes PROVE NodeSound(t)'
    BY <2>1, <2>6, <2>7, <2>9 DEF NodeSound, ThisLive, Fresh, Awaiting, Leaving, GivenUp, LinkedPcs,
       At, Call, Me, Pcs, LivePcs, FirstPcs, RetiredPcs, CancelledPcs, AwaitPcs, UnparkPcs,
       SharedPcs, TransferPcs
  <2>10. ~Claiming(t)' /\ (Awaiting(t) /\ Me(t) \notin Range(order) => Awaiting(t)')
    BY <2>1, <2>6, <2>7 DEF Claiming, Awaiting, At, Call, Me, Pcs, LivePcs, FirstPcs, RetiredPcs,
       CancelledPcs, AwaitPcs, UnparkPcs, SharedPcs, TransferPcs
  <2>11. Proceeds(t)
    BY ONLY <2>2, <2>4, <2>5, <2>6, <2>8, <2>9, <2>10, Zenon DEF Proceeds
  <2> QED BY <1>7, <2>11, MoveStep DEF Successor
<1>8. CASE PNext(t) /\ Call(t).call = "acquire"
  <2>1. th[t].pc = "pnext" /\ Call(t).call = "acquire"
    BY ONLY <1>8 DEF PNext, At
  <2>2. /\ th[t].i + 1 \in Nat \ {0} /\ <<t, th[t].i + 1>> \notin Range(order)
        /\ th[t].i # Len(program[t]) => th[t].i + 1 \in DOMAIN program[t]
    BY <2>1, NextCall
  <2>3. th[t].pred \in Nodes /\ th[t].pred \in Queued(order)
    BY <2>1 DEF LocalsSound, Pcs, LivePcs, FirstPcs, RetiredPcs, CancelledPcs, AwaitPcs, UnparkPcs,
       SharedPcs, TransferPcs, PredPcs, LinkedPcs, Leaving
  <2> DEFINE pc == IF th[t].i = Len(program[t]) THEN "done" ELSE "start"
  <2> DEFINE L == FreshAt(pc, th[t].i + 1, FALSE, "none", NULL, NULL, NoRet)
  <2>4. th' = [th EXCEPT ![t] = L]
    BY <1>8, <2>1, <2>2, <2>3, Continuations, Zenon DEF PNext, Goto
  <2>5. /\ th[t] \in Thread
        /\ pc \in Pcs
        /\ th[t].i + 1 \in Nat \ {0}
        /\ FALSE \in BOOLEAN
        /\ "none" \in {"none", "THROW_IE", "REINTERRUPT"}
        /\ NULL \in Nodes \cup {NULL}
        /\ NULL \in Nodes \cup {NULL}
        /\ NoRet \in Rets
    BY <1>8, <2>1, <2>2, <2>3 DEF Pcs, LivePcs, FirstPcs, RetiredPcs, CancelledPcs, AwaitPcs,
       UnparkPcs, SharedPcs, TransferPcs, Rets, Thread
  <2>6. /\ L \in Thread
        /\ L.pc = pc /\ L.i = th[t].i + 1 /\ L.was = FALSE /\ L.pred = NULL /\ L.predNext = NULL
        /\ L.ws = 0 /\ L.s = NULL /\ L.q = NULL /\ L.h = NULL /\ L.u = NULL /\ L.ret = NoRet
        /\ L.ret2 = NoRet /\ L.n = NULL /\ L.mode = "none"
    <3>1. L = [pc |-> pc, i |-> th[t].i + 1, was |-> FALSE, pred |-> NULL, predNext |-> NULL,
              ws |-> 0, s |-> NULL, q |-> NULL, h |-> NULL, u |-> NULL, ret |-> NoRet,
              ret2 |-> NoRet, n |-> NULL, mode |-> "none"]
      BY ONLY DEF FreshAt
    <3> HIDE DEF L, pc
    <3>2. L \in Thread
      BY ONLY <3>1, <2>5 DEF Thread
    <3> QED BY ONLY <3>1, <3>2
  <2> HIDE DEF L
  <2>7. th'[t] = L
    BY ONLY <1>0, <2>4
  <2>8. /\ th'[t].pc = pc /\ th'[t].i = th[t].i + 1 /\ th'[t].was = FALSE /\ th'[t].pred = NULL
        /\ th'[t].predNext = NULL /\ th'[t].ws = 0 /\ th'[t].s = NULL /\ th'[t].q = NULL
        /\ th'[t].h = NULL /\ th'[t].u = NULL /\ th'[t].ret = NoRet /\ th'[t].ret2 = NoRet
        /\ th'[t].n = NULL /\ th'[t].mode = "none"
    BY ONLY <2>7, <2>6
  <2>9. order' = order /\ program' = program /\ head' = head /\ tail' = tail
    BY ONLY program' = program, <1>8 DEF PNext, sync
  <2>10. LocalsSound(t)'
    BY <2>1, <2>2, <2>3, <2>5, <2>8, <2>9 DEF LocalsSound, PredPcs, LinkedPcs, Leaving, At, Call,
       Pcs, LivePcs, FirstPcs, RetiredPcs, CancelledPcs, AwaitPcs, UnparkPcs, SharedPcs, TransferPcs
  <2>11. ASSUME CancelledNodes' = CancelledNodes PROVE NodeSound(t)'
    <3>1. th'[t].pc \in {"start", "done"}
      BY <2>8
    <3>2. th'[t].i = th[t].i + 1 /\ order' = order /\ <<t, th[t].i + 1>> \notin Range(order)
      BY ONLY <2>2, <2>8, <2>9
    <3>3. <<t, th'[t].i>> \notin Range(order')
      BY ONLY <3>2
    <3> QED BY <3>1, <3>3, <2>8, IdleSound
  <2>12. ~Claiming(t)' /\ ~(Awaiting(t) /\ Me(t) \notin Range(order))
    BY <2>1, <2>2, <2>3, <2>8, <2>9 DEF Claiming, Awaiting, At, Call, Me, Pcs, LivePcs, FirstPcs,
       RetiredPcs, CancelledPcs, AwaitPcs, UnparkPcs, SharedPcs, TransferPcs
  <2>13. Proceeds(t)
    BY ONLY <2>4, <2>6, <2>7, <2>8, <2>10, <2>11, <2>12, Zenon DEF Proceeds
  <2>14. QuietNodes
    BY <1>8, <2>1, <2>2, <2>3, NextChanged, Zenon DEF PNext
  <2>15. state' \in Nat /\ permit' \in [Threads -> BOOLEAN] /\ intr' \in [Threads -> BOOLEAN]
    BY <1>8, <2>1, <2>2, <2>3, Zenon DEF PNext, sync, parking
  <2> QED BY <2>9, <2>13, <2>15, <2>14, LocalStep
<1>9. CASE PNext(t) /\ Call(t).call # "acquire"
  <2>1. th[t].pc = "pnext" /\ Call(t).call # "acquire"
    BY ONLY <1>9 DEF PNext, At
  <2>2. th[t].pred \in Nodes /\ th[t].pred \in Queued(order)
    BY <2>1 DEF LocalsSound, Pcs, LivePcs, FirstPcs, RetiredPcs, CancelledPcs, AwaitPcs, UnparkPcs,
       SharedPcs, TransferPcs, PredPcs, LinkedPcs, Leaving
  <2> DEFINE L == FreshAt("reacquired", th[t].i, th[t].was, th[t].mode, NULL, NULL, NoRet)
  <2>3. th' = [th EXCEPT ![t] = L]
    BY <1>9, <2>1, <2>2, Continuations, Zenon DEF PNext, Goto
  <2>4. /\ th[t] \in Thread
        /\ "reacquired" \in Pcs
        /\ th[t].i \in Nat \ {0}
        /\ th[t].was \in BOOLEAN
        /\ th[t].mode \in {"none", "THROW_IE", "REINTERRUPT"}
        /\ NULL \in Nodes \cup {NULL}
        /\ NULL \in Nodes \cup {NULL}
        /\ NoRet \in Rets
    BY <1>9, <2>1, <2>2 DEF Pcs, LivePcs, FirstPcs, RetiredPcs, CancelledPcs, AwaitPcs, UnparkPcs,
       SharedPcs, TransferPcs, Rets, Thread
  <2>5. /\ L \in Thread
        /\ L.pc = "reacquired" /\ L.i = th[t].i /\ L.was = th[t].was /\ L.pred = NULL
        /\ L.predNext = NULL /\ L.ws = 0 /\ L.s = NULL /\ L.q = NULL /\ L.h = NULL /\ L.u = NULL
        /\ L.ret = NoRet /\ L.ret2 = NoRet /\ L.n = NULL /\ L.mode = th[t].mode
    <3>1. L = [pc |-> "reacquired", i |-> th[t].i, was |-> th[t].was, pred |-> NULL,
              predNext |-> NULL, ws |-> 0, s |-> NULL, q |-> NULL, h |-> NULL, u |-> NULL,
              ret |-> NoRet, ret2 |-> NoRet, n |-> NULL, mode |-> th[t].mode]
      BY ONLY DEF FreshAt
    <3> HIDE DEF L
    <3>2. L \in Thread
      BY ONLY <3>1, <2>4 DEF Thread
    <3> QED BY ONLY <3>1, <3>2
  <2> HIDE DEF L
  <2>6. th'[t] = L
    BY ONLY <1>0, <2>3
  <2>7. /\ th'[t].pc = "reacquired" /\ th'[t].i = th[t].i /\ th'[t].was = th[t].was
        /\ th'[t].pred = NULL /\ th'[t].predNext = NULL /\ th'[t].ws = 0 /\ th'[t].s = NULL
        /\ th'[t].q = NULL /\ th'[t].h = NULL /\ th'[t].u = NULL /\ th'[t].ret = NoRet
        /\ th'[t].ret2 = NoRet /\ th'[t].n = NULL /\ th'[t].mode = th[t].mode
    BY ONLY <2>6, <2>5
  <2>8. order' = order /\ program' = program /\ head' = head /\ tail' = tail
    BY ONLY program' = program, <1>9 DEF PNext, sync
  <2>9. LocalsSound(t)'
    BY <2>1, <2>2, <2>4, <2>7, <2>8 DEF LocalsSound, PredPcs, LinkedPcs, Leaving, At, Call, Pcs,
       LivePcs, FirstPcs, RetiredPcs, CancelledPcs, AwaitPcs, UnparkPcs, SharedPcs, TransferPcs
  <2>10. ASSUME CancelledNodes' = CancelledNodes PROVE NodeSound(t)'
    BY <2>1, <2>2, <2>7, <2>8, <2>10 DEF NodeSound, ThisLive, Fresh, Awaiting, Leaving, GivenUp,
       LinkedPcs, At, Call, Me, Pcs, LivePcs, FirstPcs, RetiredPcs, CancelledPcs, AwaitPcs,
       UnparkPcs, SharedPcs, TransferPcs
  <2>11. ~Claiming(t)' /\ (Awaiting(t) /\ Me(t) \notin Range(order) => Awaiting(t)')
    BY <2>1, <2>2, <2>7, <2>8 DEF Claiming, Awaiting, At, Call, Me, Pcs, LivePcs, FirstPcs,
       RetiredPcs, CancelledPcs, AwaitPcs, UnparkPcs, SharedPcs, TransferPcs
  <2>12. Proceeds(t)
    BY ONLY <2>3, <2>5, <2>6, <2>7, <2>9, <2>10, <2>11, Zenon DEF Proceeds
  <2>13. QuietNodes
    BY <1>9, <2>1, <2>2, NextChanged, Zenon DEF PNext
  <2>14. state' \in Nat /\ permit' \in [Threads -> BOOLEAN] /\ intr' \in [Threads -> BOOLEAN]
    BY <1>9, <2>1, <2>2 DEF PNext, sync, parking
  <2> QED BY <2>8, <2>12, <2>14, <2>13, LocalStep
<1> QED BY <1>1, <1>2, <1>3, <1>4, <1>5, <1>6, <1>7, <1>8, <1>9

\* cancelAcquire, but for the links past cancelled predecessors, the mark and the tail
LEMMA CancelSteps ==
    ASSUME IInv, NEW t \in Threads, program' = program,
           Cancel(t) \/ CancelNext(t) \/ CancelCut(t) \/ CancelHead(t) \/ CancelWs(t)
           \/ CancelSignal(t) \/ CancelThread(t) \/ CancelSucc(t) \/ CancelSuccWs(t)
           \/ CancelSplice(t) \/ CancelSelf(t)
    PROVE  IInv'
<1> USE Locals, NodeForm, NoReturn
<1>0. th \in [Threads -> Thread] /\ t \in Threads
  OBVIOUS
<1>1. CASE Cancel(t)
  <2>1. th[t].pc = "cancel"
    BY ONLY <1>1 DEF Cancel, At
  <2>2. ThisLive(Me(t)) /\ Me(t) \in Nodes
    BY <2>1, LiveBack DEF NodeSound, LivePcs, FirstPcs
  <2> DEFINE L == FreshAt("cancel_skip", th[t].i, th[t].was, th[t].mode, NULL, NULL, NoRet)
  <2>3. th' = [th EXCEPT ![t] = L]
    BY <1>1, <2>1, <2>2, Continuations, Zenon DEF Cancel, Goto
  <2>4. /\ th[t] \in Thread
        /\ "cancel_skip" \in Pcs
        /\ th[t].i \in Nat \ {0}
        /\ th[t].was \in BOOLEAN
        /\ th[t].mode \in {"none", "THROW_IE", "REINTERRUPT"}
        /\ NULL \in Nodes \cup {NULL}
        /\ NULL \in Nodes \cup {NULL}
        /\ NoRet \in Rets
    BY <1>1, <2>1, <2>2 DEF Pcs, LivePcs, FirstPcs, RetiredPcs, CancelledPcs, AwaitPcs, UnparkPcs,
       SharedPcs, TransferPcs, Rets, Thread
  <2>5. /\ L \in Thread
        /\ L.pc = "cancel_skip" /\ L.i = th[t].i /\ L.was = th[t].was /\ L.pred = NULL
        /\ L.predNext = NULL /\ L.ws = 0 /\ L.s = NULL /\ L.q = NULL /\ L.h = NULL /\ L.u = NULL
        /\ L.ret = NoRet /\ L.ret2 = NoRet /\ L.n = NULL /\ L.mode = th[t].mode
    <3>1. L = [pc |-> "cancel_skip", i |-> th[t].i, was |-> th[t].was, pred |-> NULL,
              predNext |-> NULL, ws |-> 0, s |-> NULL, q |-> NULL, h |-> NULL, u |-> NULL,
              ret |-> NoRet, ret2 |-> NoRet, n |-> NULL, mode |-> th[t].mode]
      BY ONLY DEF FreshAt
    <3> HIDE DEF L
    <3>2. L \in Thread
      BY ONLY <3>1, <2>4 DEF Thread
    <3> QED BY ONLY <3>1, <3>2
  <2> HIDE DEF L
  <2>6. th'[t] = L
    BY ONLY <1>0, <2>3
  <2>7. /\ th'[t].pc = "cancel_skip" /\ th'[t].i = th[t].i /\ th'[t].was = th[t].was
        /\ th'[t].pred = NULL /\ th'[t].predNext = NULL /\ th'[t].ws = 0 /\ th'[t].s = NULL
        /\ th'[t].q = NULL /\ th'[t].h = NULL /\ th'[t].u = NULL /\ th'[t].ret = NoRet
        /\ th'[t].ret2 = NoRet /\ th'[t].n = NULL /\ th'[t].mode = th[t].mode
    BY ONLY <2>6, <2>5
  <2>8. order' = order /\ program' = program /\ head' = head /\ tail' = tail
    BY ONLY program' = program, <1>1 DEF Cancel, sync
  <2>9. LocalsSound(t)'
    BY <2>1, <2>2, <2>4, <2>7, <2>8 DEF LocalsSound, PredPcs, LinkedPcs, Leaving, At, Call, Pcs,
       LivePcs, FirstPcs, RetiredPcs, CancelledPcs, AwaitPcs, UnparkPcs, SharedPcs, TransferPcs
  <2>10. ASSUME CancelledNodes' = CancelledNodes PROVE NodeSound(t)'
    BY <2>1, <2>2, <2>7, <2>8, <2>10 DEF NodeSound, ThisLive, Fresh, Awaiting, Leaving, GivenUp,
       LinkedPcs, At, Call, Me, Pcs, LivePcs, FirstPcs, RetiredPcs, CancelledPcs, AwaitPcs,
       UnparkPcs, SharedPcs, TransferPcs
  <2>11. ~Claiming(t)' /\ (Awaiting(t) /\ Me(t) \notin Range(order) => Awaiting(t)')
    BY <2>1, <2>2, <2>7, <2>8 DEF Claiming, Awaiting, At, Call, Me, Pcs, LivePcs, FirstPcs,
       RetiredPcs, CancelledPcs, AwaitPcs, UnparkPcs, SharedPcs, TransferPcs
  <2>12. Proceeds(t)
    BY ONLY <2>3, <2>5, <2>6, <2>7, <2>9, <2>10, <2>11, Zenon DEF Proceeds
  <2>13. QuietNodes
    BY <1>1, <2>1, <2>2, ThreadChanged, Zenon DEF Cancel
  <2>14. state' \in Nat /\ permit' \in [Threads -> BOOLEAN] /\ intr' \in [Threads -> BOOLEAN]
    BY <1>1, <2>1, <2>2 DEF Cancel, sync, parking
  <2> QED BY <2>8, <2>12, <2>14, <2>13, LocalStep
<1>2. CASE CancelNext(t)
  <2>1. th[t].pc = "cancel_next"
    BY ONLY <1>2 DEF CancelNext, At
  <2>2. th[t].pred \in Nodes /\ th[t].pred \in Queued(order)
    BY <2>1 DEF LocalsSound, Pcs, LivePcs, FirstPcs, RetiredPcs, CancelledPcs, AwaitPcs, UnparkPcs,
       SharedPcs, TransferPcs, PredPcs, LinkedPcs, Leaving
  <2> DEFINE L == [th[t] EXCEPT !.pc = "cancel_mark", !.predNext = node[th[t].pred].next]
  <2>3. th' = [th EXCEPT ![t] = L]
    BY <1>2, <2>1, <2>2, Zenon DEF CancelNext, Goto
  <2>4. /\ th[t] \in Thread
        /\ "cancel_mark" \in Pcs
        /\ node[th[t].pred].next \in Nodes \cup {NULL}
    BY <1>2, <2>1, <2>2 DEF Pcs, LivePcs, FirstPcs, RetiredPcs, CancelledPcs, AwaitPcs, UnparkPcs,
       SharedPcs, TransferPcs, Rets
  <2>5. L \in Thread
    BY ONLY <2>4, Zenon DEF Thread, Rets
  <2>6. th'[t] = L
    BY ONLY <1>0, <2>3
  <2>7. /\ th'[t].pc = "cancel_mark" /\ th'[t].i = th[t].i /\ th'[t].was = th[t].was
        /\ th'[t].pred = th[t].pred /\ th'[t].predNext = node[th[t].pred].next /\ th'[t].ws = th[t].ws
        /\ th'[t].s = th[t].s /\ th'[t].q = th[t].q /\ th'[t].h = th[t].h /\ th'[t].u = th[t].u
        /\ th'[t].ret = th[t].ret /\ th'[t].ret2 = th[t].ret2 /\ th'[t].n = th[t].n
        /\ th'[t].mode = th[t].mode
    BY ONLY <2>6, <2>4 DEF Thread
  <2>8. order' = order /\ program' = program /\ head' = head /\ tail' = tail /\ node' = node
    BY ONLY program' = program, <1>2 DEF CancelNext, sync
  <2>9. LocalsSound(t)'
    BY <2>1, <2>2, <2>4, <2>7, <2>8 DEF LocalsSound, PredPcs, LinkedPcs, Leaving, At, Call, Pcs,
       LivePcs, FirstPcs, RetiredPcs, CancelledPcs, AwaitPcs, UnparkPcs, SharedPcs, TransferPcs
  <2>10. ASSUME CancelledNodes' = CancelledNodes PROVE NodeSound(t)'
    BY <2>1, <2>2, <2>7, <2>8, <2>10 DEF NodeSound, ThisLive, Fresh, Awaiting, Leaving, GivenUp,
       LinkedPcs, At, Call, Me, Pcs, LivePcs, FirstPcs, RetiredPcs, CancelledPcs, AwaitPcs,
       UnparkPcs, SharedPcs, TransferPcs
  <2>11. ~Claiming(t)' /\ (Awaiting(t) /\ Me(t) \notin Range(order) => Awaiting(t)')
    BY <2>1, <2>2, <2>7, <2>8 DEF Claiming, Awaiting, At, Call, Me, Pcs, LivePcs, FirstPcs,
       RetiredPcs, CancelledPcs, AwaitPcs, UnparkPcs, SharedPcs, TransferPcs
  <2>12. Proceeds(t)
    BY ONLY <2>3, <2>5, <2>6, <2>7, <2>9, <2>10, <2>11, Zenon DEF Proceeds
  <2> QED BY <1>2, <2>12, MoveStep DEF CancelNext
<1>3. CASE CancelCut(t)
  <2>1. th[t].pc = "cancel_cut"
    BY ONLY <1>3 DEF CancelCut, At
  <2>2. th[t].pred \in Nodes /\ th[t].pred \in Queued(order)
    BY <2>1 DEF LocalsSound, Pcs, LivePcs, FirstPcs, RetiredPcs, CancelledPcs, AwaitPcs, UnparkPcs,
       SharedPcs, TransferPcs, PredPcs, LinkedPcs, Leaving
  <2> DEFINE L == FreshAt("done", th[t].i, FALSE, "none", NULL, NULL, NoRet)
  <2>3. th' = [th EXCEPT ![t] = L]
    BY <1>3, <2>1, <2>2, Continuations, Zenon DEF CancelCut, Goto
  <2>4. /\ th[t] \in Thread
        /\ "done" \in Pcs
        /\ th[t].i \in Nat \ {0}
        /\ FALSE \in BOOLEAN
        /\ "none" \in {"none", "THROW_IE", "REINTERRUPT"}
        /\ NULL \in Nodes \cup {NULL}
        /\ NULL \in Nodes \cup {NULL}
        /\ NoRet \in Rets
    BY <1>3, <2>1, <2>2 DEF Pcs, LivePcs, FirstPcs, RetiredPcs, CancelledPcs, AwaitPcs, UnparkPcs,
       SharedPcs, TransferPcs, Rets, Thread
  <2>5. /\ L \in Thread
        /\ L.pc = "done" /\ L.i = th[t].i /\ L.was = FALSE /\ L.pred = NULL /\ L.predNext = NULL
        /\ L.ws = 0 /\ L.s = NULL /\ L.q = NULL /\ L.h = NULL /\ L.u = NULL /\ L.ret = NoRet
        /\ L.ret2 = NoRet /\ L.n = NULL /\ L.mode = "none"
    <3>1. L = [pc |-> "done", i |-> th[t].i, was |-> FALSE, pred |-> NULL, predNext |-> NULL,
              ws |-> 0, s |-> NULL, q |-> NULL, h |-> NULL, u |-> NULL, ret |-> NoRet,
              ret2 |-> NoRet, n |-> NULL, mode |-> "none"]
      BY ONLY DEF FreshAt
    <3> HIDE DEF L
    <3>2. L \in Thread
      BY ONLY <3>1, <2>4 DEF Thread
    <3> QED BY ONLY <3>1, <3>2
  <2> HIDE DEF L
  <2>6. th'[t] = L
    BY ONLY <1>0, <2>3
  <2>7. /\ th'[t].pc = "done" /\ th'[t].i = th[t].i /\ th'[t].was = FALSE /\ th'[t].pred = NULL
        /\ th'[t].predNext = NULL /\ th'[t].ws = 0 /\ th'[t].s = NULL /\ th'[t].q = NULL
        /\ th'[t].h = NULL /\ th'[t].u = NULL /\ th'[t].ret = NoRet /\ th'[t].ret2 = NoRet
        /\ th'[t].n = NULL /\ th'[t].mode = "none"
    BY ONLY <2>6, <2>5
  <2>8. order' = order /\ program' = program /\ head' = head /\ tail' = tail
    BY ONLY program' = program, <1>3 DEF CancelCut, sync
  <2>9. LocalsSound(t)'
    BY <2>1, <2>2, <2>4, <2>7, <2>8 DEF LocalsSound, PredPcs, LinkedPcs, Leaving, At, Call, Pcs,
       LivePcs, FirstPcs, RetiredPcs, CancelledPcs, AwaitPcs, UnparkPcs, SharedPcs, TransferPcs
  <2>10. ASSUME CancelledNodes' = CancelledNodes PROVE NodeSound(t)'
    BY <2>1, <2>2, <2>7, <2>8, <2>10 DEF NodeSound, ThisLive, Fresh, Awaiting, Leaving, GivenUp,
       LinkedPcs, At, Call, Me, Pcs, LivePcs, FirstPcs, RetiredPcs, CancelledPcs, AwaitPcs,
       UnparkPcs, SharedPcs, TransferPcs
  <2>11. ~Claiming(t)' /\ (Awaiting(t) /\ Me(t) \notin Range(order) => Awaiting(t)')
    BY <2>1, <2>2, <2>7, <2>8 DEF Claiming, Awaiting, At, Call, Me, Pcs, LivePcs, FirstPcs,
       RetiredPcs, CancelledPcs, AwaitPcs, UnparkPcs, SharedPcs, TransferPcs
  <2>12. Proceeds(t)
    BY ONLY <2>3, <2>5, <2>6, <2>7, <2>9, <2>10, <2>11, Zenon DEF Proceeds
  <2>13. QuietNodes
    BY <1>3, <2>1, <2>2, NextCompared DEF CancelCut
  <2>14. state' \in Nat /\ permit' \in [Threads -> BOOLEAN] /\ intr' \in [Threads -> BOOLEAN]
    BY <1>3, <2>1, <2>2 DEF CancelCut, sync, parking
  <2> QED BY <2>8, <2>12, <2>14, <2>13, LocalStep
<1>4. CASE CancelHead(t) /\ th[t].pred = head
  <2>1. th[t].pc = "cancel_head"
    BY ONLY <1>4 DEF CancelHead, At
  <2>2. Me(t) \in Queued(order) /\ Me(t) \in Nodes
    BY <2>1 DEF NodeSound, GivenUp, Queued, Pcs, LivePcs, FirstPcs, RetiredPcs, CancelledPcs,
       AwaitPcs, UnparkPcs, SharedPcs, TransferPcs
  <2> DEFINE L == FreshAt("unpark", th[t].i, FALSE, "none", Me(t), NULL, "cancel_self")
  <2>3. th' = [th EXCEPT ![t] = L]
    BY <1>4, <2>1, <2>2, Continuations, Zenon DEF CancelHead, Goto
  <2>4. /\ th[t] \in Thread
        /\ "unpark" \in Pcs
        /\ th[t].i \in Nat \ {0}
        /\ FALSE \in BOOLEAN
        /\ "none" \in {"none", "THROW_IE", "REINTERRUPT"}
        /\ Me(t) \in Nodes \cup {NULL}
        /\ NULL \in Nodes \cup {NULL}
        /\ "cancel_self" \in Rets
    BY <1>4, <2>1, <2>2 DEF Pcs, LivePcs, FirstPcs, RetiredPcs, CancelledPcs, AwaitPcs, UnparkPcs,
       SharedPcs, TransferPcs, Rets, Thread
  <2>5. /\ L \in Thread
        /\ L.pc = "unpark" /\ L.i = th[t].i /\ L.was = FALSE /\ L.pred = NULL /\ L.predNext = NULL
        /\ L.ws = 0 /\ L.s = NULL /\ L.q = NULL /\ L.h = Me(t) /\ L.u = NULL /\ L.ret = "cancel_self"
        /\ L.ret2 = NoRet /\ L.n = NULL /\ L.mode = "none"
    <3>1. L = [pc |-> "unpark", i |-> th[t].i, was |-> FALSE, pred |-> NULL, predNext |-> NULL,
              ws |-> 0, s |-> NULL, q |-> NULL, h |-> Me(t), u |-> NULL,
              ret |-> "cancel_self", ret2 |-> NoRet, n |-> NULL, mode |-> "none"]
      BY ONLY DEF FreshAt
    <3> HIDE DEF L
    <3>2. L \in Thread
      BY ONLY <3>1, <2>4 DEF Thread
    <3> QED BY ONLY <3>1, <3>2
  <2> HIDE DEF L
  <2>6. th'[t] = L
    BY ONLY <1>0, <2>3
  <2>7. /\ th'[t].pc = "unpark" /\ th'[t].i = th[t].i /\ th'[t].was = FALSE /\ th'[t].pred = NULL
        /\ th'[t].predNext = NULL /\ th'[t].ws = 0 /\ th'[t].s = NULL /\ th'[t].q = NULL
        /\ th'[t].h = Me(t) /\ th'[t].u = NULL /\ th'[t].ret = "cancel_self" /\ th'[t].ret2 = NoRet
        /\ th'[t].n = NULL /\ th'[t].mode = "none"
    BY ONLY <2>6, <2>5
  <2>8. order' = order /\ program' = program /\ head' = head /\ tail' = tail /\ node' = node
    BY ONLY program' = program, <1>4 DEF CancelHead, sync
  <2>9. LocalsSound(t)'
    BY <2>1, <2>2, <2>4, <2>7, <2>8 DEF LocalsSound, PredPcs, LinkedPcs, Leaving, At, Call, Pcs,
       LivePcs, FirstPcs, RetiredPcs, CancelledPcs, AwaitPcs, UnparkPcs, SharedPcs, TransferPcs
  <2>10. ASSUME CancelledNodes' = CancelledNodes PROVE NodeSound(t)'
    BY <2>1, <2>2, <2>7, <2>8, <2>10 DEF NodeSound, ThisLive, Fresh, Awaiting, Leaving, GivenUp,
       LinkedPcs, At, Call, Me, Pcs, LivePcs, FirstPcs, RetiredPcs, CancelledPcs, AwaitPcs,
       UnparkPcs, SharedPcs, TransferPcs
  <2>11. ~Claiming(t)' /\ (Awaiting(t) /\ Me(t) \notin Range(order) => Awaiting(t)')
    BY <2>1, <2>2, <2>7, <2>8 DEF Claiming, Awaiting, At, Call, Me, Pcs, LivePcs, FirstPcs,
       RetiredPcs, CancelledPcs, AwaitPcs, UnparkPcs, SharedPcs, TransferPcs
  <2>12. Proceeds(t)
    BY ONLY <2>3, <2>5, <2>6, <2>7, <2>9, <2>10, <2>11, Zenon DEF Proceeds
  <2> QED BY <1>4, <2>12, MoveStep DEF CancelHead
<1>5. CASE CancelHead(t) /\ th[t].pred # head
  <2>1. th[t].pc = "cancel_head"
    BY ONLY <1>5 DEF CancelHead, At
  <2> DEFINE L == [th[t] EXCEPT !.pc = "cancel_ws"]
  <2>2. th' = [th EXCEPT ![t] = L]
    BY <1>5, <2>1 DEF CancelHead, Goto
  <2>3. /\ th[t] \in Thread
        /\ "cancel_ws" \in Pcs
    BY <1>5, <2>1 DEF Pcs, LivePcs, FirstPcs, RetiredPcs, CancelledPcs, AwaitPcs, UnparkPcs,
       SharedPcs, TransferPcs, Rets
  <2>4. L \in Thread
    BY ONLY <2>3 DEF Thread, Rets
  <2>5. th'[t] = L
    BY ONLY <1>0, <2>2
  <2>6. /\ th'[t].pc = "cancel_ws" /\ th'[t].i = th[t].i /\ th'[t].was = th[t].was
        /\ th'[t].pred = th[t].pred /\ th'[t].predNext = th[t].predNext /\ th'[t].ws = th[t].ws
        /\ th'[t].s = th[t].s /\ th'[t].q = th[t].q /\ th'[t].h = th[t].h /\ th'[t].u = th[t].u
        /\ th'[t].ret = th[t].ret /\ th'[t].ret2 = th[t].ret2 /\ th'[t].n = th[t].n
        /\ th'[t].mode = th[t].mode
    BY ONLY <2>5, <2>3 DEF Thread
  <2>7. order' = order /\ program' = program /\ head' = head /\ tail' = tail /\ node' = node
    BY ONLY program' = program, <1>5 DEF CancelHead, sync
  <2>8. LocalsSound(t)'
    BY <2>1, <2>3, <2>6, <2>7 DEF LocalsSound, PredPcs, LinkedPcs, Leaving, At, Call, Pcs, LivePcs,
       FirstPcs, RetiredPcs, CancelledPcs, AwaitPcs, UnparkPcs, SharedPcs, TransferPcs
  <2>9. ASSUME CancelledNodes' = CancelledNodes PROVE NodeSound(t)'
    BY <2>1, <2>6, <2>7, <2>9 DEF NodeSound, ThisLive, Fresh, Awaiting, Leaving, GivenUp, LinkedPcs,
       At, Call, Me, Pcs, LivePcs, FirstPcs, RetiredPcs, CancelledPcs, AwaitPcs, UnparkPcs,
       SharedPcs, TransferPcs
  <2>10. ~Claiming(t)' /\ (Awaiting(t) /\ Me(t) \notin Range(order) => Awaiting(t)')
    BY <2>1, <2>6, <2>7 DEF Claiming, Awaiting, At, Call, Me, Pcs, LivePcs, FirstPcs, RetiredPcs,
       CancelledPcs, AwaitPcs, UnparkPcs, SharedPcs, TransferPcs
  <2>11. Proceeds(t)
    BY ONLY <2>2, <2>4, <2>5, <2>6, <2>8, <2>9, <2>10, Zenon DEF Proceeds
  <2> QED BY <1>5, <2>11, MoveStep DEF CancelHead
<1>6. CASE CancelWs(t) /\ node[th[t].pred].ws > 0
  <2>1. th[t].pc = "cancel_ws"
    BY ONLY <1>6 DEF CancelWs, At
  <2>2. Me(t) \in Queued(order) /\ Me(t) \in Nodes
    BY <2>1 DEF NodeSound, GivenUp, Queued, Pcs, LivePcs, FirstPcs, RetiredPcs, CancelledPcs,
       AwaitPcs, UnparkPcs, SharedPcs, TransferPcs
  <2> DEFINE L == FreshAt("unpark", th[t].i, FALSE, "none", Me(t), NULL, "cancel_self")
  <2>3. th' = [th EXCEPT ![t] = L]
    BY <1>6, <2>1, <2>2, Continuations, Zenon DEF CancelWs, Goto
  <2>4. /\ th[t] \in Thread
        /\ "unpark" \in Pcs
        /\ th[t].i \in Nat \ {0}
        /\ FALSE \in BOOLEAN
        /\ "none" \in {"none", "THROW_IE", "REINTERRUPT"}
        /\ Me(t) \in Nodes \cup {NULL}
        /\ NULL \in Nodes \cup {NULL}
        /\ "cancel_self" \in Rets
    BY <1>6, <2>1, <2>2 DEF Pcs, LivePcs, FirstPcs, RetiredPcs, CancelledPcs, AwaitPcs, UnparkPcs,
       SharedPcs, TransferPcs, Rets, Thread
  <2>5. /\ L \in Thread
        /\ L.pc = "unpark" /\ L.i = th[t].i /\ L.was = FALSE /\ L.pred = NULL /\ L.predNext = NULL
        /\ L.ws = 0 /\ L.s = NULL /\ L.q = NULL /\ L.h = Me(t) /\ L.u = NULL /\ L.ret = "cancel_self"
        /\ L.ret2 = NoRet /\ L.n = NULL /\ L.mode = "none"
    <3>1. L = [pc |-> "unpark", i |-> th[t].i, was |-> FALSE, pred |-> NULL, predNext |-> NULL,
              ws |-> 0, s |-> NULL, q |-> NULL, h |-> Me(t), u |-> NULL,
              ret |-> "cancel_self", ret2 |-> NoRet, n |-> NULL, mode |-> "none"]
      BY ONLY DEF FreshAt
    <3> HIDE DEF L
    <3>2. L \in Thread
      BY ONLY <3>1, <2>4 DEF Thread
    <3> QED BY ONLY <3>1, <3>2
  <2> HIDE DEF L
  <2>6. th'[t] = L
    BY ONLY <1>0, <2>3
  <2>7. /\ th'[t].pc = "unpark" /\ th'[t].i = th[t].i /\ th'[t].was = FALSE /\ th'[t].pred = NULL
        /\ th'[t].predNext = NULL /\ th'[t].ws = 0 /\ th'[t].s = NULL /\ th'[t].q = NULL
        /\ th'[t].h = Me(t) /\ th'[t].u = NULL /\ th'[t].ret = "cancel_self" /\ th'[t].ret2 = NoRet
        /\ th'[t].n = NULL /\ th'[t].mode = "none"
    BY ONLY <2>6, <2>5
  <2>8. order' = order /\ program' = program /\ head' = head /\ tail' = tail /\ node' = node
    BY ONLY program' = program, <1>6 DEF CancelWs, sync
  <2>9. LocalsSound(t)'
    BY <2>1, <2>2, <2>4, <2>7, <2>8 DEF LocalsSound, PredPcs, LinkedPcs, Leaving, At, Call, Pcs,
       LivePcs, FirstPcs, RetiredPcs, CancelledPcs, AwaitPcs, UnparkPcs, SharedPcs, TransferPcs
  <2>10. ASSUME CancelledNodes' = CancelledNodes PROVE NodeSound(t)'
    BY <2>1, <2>2, <2>7, <2>8, <2>10 DEF NodeSound, ThisLive, Fresh, Awaiting, Leaving, GivenUp,
       LinkedPcs, At, Call, Me, Pcs, LivePcs, FirstPcs, RetiredPcs, CancelledPcs, AwaitPcs,
       UnparkPcs, SharedPcs, TransferPcs
  <2>11. ~Claiming(t)' /\ (Awaiting(t) /\ Me(t) \notin Range(order) => Awaiting(t)')
    BY <2>1, <2>2, <2>7, <2>8 DEF Claiming, Awaiting, At, Call, Me, Pcs, LivePcs, FirstPcs,
       RetiredPcs, CancelledPcs, AwaitPcs, UnparkPcs, SharedPcs, TransferPcs
  <2>12. Proceeds(t)
    BY ONLY <2>3, <2>5, <2>6, <2>7, <2>9, <2>10, <2>11, Zenon DEF Proceeds
  <2> QED BY <1>6, <2>12, MoveStep DEF CancelWs
<1>7. CASE CancelWs(t) /\ ~(node[th[t].pred].ws > 0)
  <2>1. th[t].pc = "cancel_ws"
    BY ONLY <1>7 DEF CancelWs, At
  <2>2. th[t].pred \in Nodes /\ th[t].pred \in Queued(order)
    BY <2>1 DEF LocalsSound, Pcs, LivePcs, FirstPcs, RetiredPcs, CancelledPcs, AwaitPcs, UnparkPcs,
       SharedPcs, TransferPcs, PredPcs, LinkedPcs, Leaving
  <2>3. node[th[t].pred].ws \in Int /\ node[th[t].pred].ws <= 0
    BY <1>7, <2>2 DEF CANCELLED, SIGNAL, CONDITION, PROPAGATE
  <2> DEFINE ws == node[th[t].pred].ws
             pc == IF node[th[t].pred].ws = SIGNAL THEN "cancel_thread" ELSE "cancel_signal"
  <2> DEFINE L == [th[t] EXCEPT !.ws = ws, !.pc = pc]
  <2>4. th' = [th EXCEPT ![t] = L]
    BY <1>7, <2>1, <2>2, <2>3, Zenon DEF CancelWs, Goto
  <2>5. /\ th[t] \in Thread
        /\ ws \in Int
        /\ pc \in Pcs
    BY <1>7, <2>1, <2>2, <2>3 DEF Pcs, LivePcs, FirstPcs, RetiredPcs, CancelledPcs, AwaitPcs,
       UnparkPcs, SharedPcs, TransferPcs, Rets
  <2>6. L \in Thread
    <3> HIDE DEF ws, pc
    <3> QED BY ONLY <2>5, Zenon DEF Thread, Rets
  <2>7. th'[t] = L
    BY ONLY <1>0, <2>4
  <2>8. /\ th'[t].pc = pc /\ th'[t].i = th[t].i /\ th'[t].was = th[t].was /\ th'[t].pred = th[t].pred
        /\ th'[t].predNext = th[t].predNext /\ th'[t].ws = ws /\ th'[t].s = th[t].s
        /\ th'[t].q = th[t].q /\ th'[t].h = th[t].h /\ th'[t].u = th[t].u /\ th'[t].ret = th[t].ret
        /\ th'[t].ret2 = th[t].ret2 /\ th'[t].n = th[t].n /\ th'[t].mode = th[t].mode
    BY ONLY <2>7, <2>5 DEF Thread
  <2>9. order' = order /\ program' = program /\ head' = head /\ tail' = tail /\ node' = node
    BY ONLY program' = program, <1>7 DEF CancelWs, sync
  <2>10. LocalsSound(t)'
    BY <2>1, <2>2, <2>3, <2>5, <2>8, <2>9 DEF LocalsSound, PredPcs, LinkedPcs, Leaving, At, Call,
       Pcs, LivePcs, FirstPcs, RetiredPcs, CancelledPcs, AwaitPcs, UnparkPcs, SharedPcs, TransferPcs
  <2>11. ASSUME CancelledNodes' = CancelledNodes PROVE NodeSound(t)'
    BY <2>1, <2>2, <2>3, <2>8, <2>9, <2>11 DEF NodeSound, ThisLive, Fresh, Awaiting, Leaving,
       GivenUp, LinkedPcs, At, Call, Me, Pcs, LivePcs, FirstPcs, RetiredPcs, CancelledPcs, AwaitPcs,
       UnparkPcs, SharedPcs, TransferPcs
  <2>12. ~Claiming(t)' /\ (Awaiting(t) /\ Me(t) \notin Range(order) => Awaiting(t)')
    BY <2>1, <2>2, <2>3, <2>8, <2>9 DEF Claiming, Awaiting, At, Call, Me, Pcs, LivePcs, FirstPcs,
       RetiredPcs, CancelledPcs, AwaitPcs, UnparkPcs, SharedPcs, TransferPcs
  <2>13. Proceeds(t)
    BY ONLY <2>4, <2>6, <2>7, <2>8, <2>10, <2>11, <2>12, Zenon DEF Proceeds
  <2> QED BY <1>7, <2>13, MoveStep DEF CancelWs
<1>8. CASE CancelSignal(t) /\ node[th[t].pred].ws = th[t].ws
  <2>1. th[t].pc = "cancel_signal"
    BY ONLY <1>8 DEF CancelSignal, At
  <2>2. th[t].pred \in Nodes /\ th[t].pred \in Queued(order)
    BY <2>1 DEF LocalsSound, Pcs, LivePcs, FirstPcs, RetiredPcs, CancelledPcs, AwaitPcs, UnparkPcs,
       SharedPcs, TransferPcs, PredPcs, LinkedPcs, Leaving
  <2>3. th[t].ws <= 0
    BY <2>1 DEF LocalsSound
  <2> DEFINE L == [th[t] EXCEPT !.pc = "cancel_thread"]
  <2>4. th' = [th EXCEPT ![t] = L]
    BY <1>8, <2>1, <2>2, <2>3 DEF CancelSignal, Goto
  <2>5. /\ th[t] \in Thread
        /\ "cancel_thread" \in Pcs
    BY <1>8, <2>1, <2>2, <2>3 DEF Pcs, LivePcs, FirstPcs, RetiredPcs, CancelledPcs, AwaitPcs,
       UnparkPcs, SharedPcs, TransferPcs, Rets
  <2>6. L \in Thread
    BY ONLY <2>5 DEF Thread, Rets
  <2>7. th'[t] = L
    BY ONLY <1>0, <2>4
  <2>8. /\ th'[t].pc = "cancel_thread" /\ th'[t].i = th[t].i /\ th'[t].was = th[t].was
        /\ th'[t].pred = th[t].pred /\ th'[t].predNext = th[t].predNext /\ th'[t].ws = th[t].ws
        /\ th'[t].s = th[t].s /\ th'[t].q = th[t].q /\ th'[t].h = th[t].h /\ th'[t].u = th[t].u
        /\ th'[t].ret = th[t].ret /\ th'[t].ret2 = th[t].ret2 /\ th'[t].n = th[t].n
        /\ th'[t].mode = th[t].mode
    BY ONLY <2>7, <2>5 DEF Thread
  <2>9. order' = order /\ program' = program /\ head' = head /\ tail' = tail
    BY ONLY program' = program, <1>8 DEF CancelSignal, sync
  <2>10. LocalsSound(t)'
    BY <2>1, <2>2, <2>3, <2>5, <2>8, <2>9 DEF LocalsSound, PredPcs, LinkedPcs, Leaving, At, Call,
       Pcs, LivePcs, FirstPcs, RetiredPcs, CancelledPcs, AwaitPcs, UnparkPcs, SharedPcs, TransferPcs
  <2>11. ASSUME CancelledNodes' = CancelledNodes PROVE NodeSound(t)'
    BY <2>1, <2>2, <2>3, <2>8, <2>9, <2>11 DEF NodeSound, ThisLive, Fresh, Awaiting, Leaving,
       GivenUp, LinkedPcs, At, Call, Me, Pcs, LivePcs, FirstPcs, RetiredPcs, CancelledPcs, AwaitPcs,
       UnparkPcs, SharedPcs, TransferPcs
  <2>12. ~Claiming(t)' /\ (Awaiting(t) /\ Me(t) \notin Range(order) => Awaiting(t)')
    BY <2>1, <2>2, <2>3, <2>8, <2>9 DEF Claiming, Awaiting, At, Call, Me, Pcs, LivePcs, FirstPcs,
       RetiredPcs, CancelledPcs, AwaitPcs, UnparkPcs, SharedPcs, TransferPcs
  <2>13. Proceeds(t)
    BY ONLY <2>4, <2>6, <2>7, <2>8, <2>10, <2>11, <2>12, Zenon DEF Proceeds
  <2>14. QuietNodes
    BY <1>8, <2>1, <2>2, <2>3, StatusChanged DEF CancelSignal
  <2>15. state' \in Nat /\ permit' \in [Threads -> BOOLEAN] /\ intr' \in [Threads -> BOOLEAN]
    BY <1>8, <2>1, <2>2, <2>3 DEF CancelSignal, sync, parking
  <2> QED BY <2>9, <2>13, <2>15, <2>14, LocalStep
<1>9. CASE CancelSignal(t) /\ node[th[t].pred].ws # th[t].ws
  <2>1. th[t].pc = "cancel_signal"
    BY ONLY <1>9 DEF CancelSignal, At
  <2>2. Me(t) \in Queued(order) /\ Me(t) \in Nodes
    BY <2>1 DEF NodeSound, GivenUp, Queued, Pcs, LivePcs, FirstPcs, RetiredPcs, CancelledPcs,
       AwaitPcs, UnparkPcs, SharedPcs, TransferPcs
  <2>3. th[t].pred \in Nodes /\ th[t].pred \in Queued(order)
    BY <2>1 DEF LocalsSound, Pcs, LivePcs, FirstPcs, RetiredPcs, CancelledPcs, AwaitPcs, UnparkPcs,
       SharedPcs, TransferPcs, PredPcs, LinkedPcs, Leaving
  <2>4. th[t].ws <= 0
    BY <2>1 DEF LocalsSound
  <2> DEFINE L == FreshAt("unpark", th[t].i, FALSE, "none", Me(t), NULL, "cancel_self")
  <2>5. th' = [th EXCEPT ![t] = L]
    BY <1>9, <2>1, <2>2, <2>3, <2>4, Continuations, Zenon DEF CancelSignal, Goto
  <2>6. /\ th[t] \in Thread
        /\ "unpark" \in Pcs
        /\ th[t].i \in Nat \ {0}
        /\ FALSE \in BOOLEAN
        /\ "none" \in {"none", "THROW_IE", "REINTERRUPT"}
        /\ Me(t) \in Nodes \cup {NULL}
        /\ NULL \in Nodes \cup {NULL}
        /\ "cancel_self" \in Rets
    BY <1>9, <2>1, <2>2, <2>3, <2>4 DEF Pcs, LivePcs, FirstPcs, RetiredPcs, CancelledPcs, AwaitPcs,
       UnparkPcs, SharedPcs, TransferPcs, Rets, Thread
  <2>7. /\ L \in Thread
        /\ L.pc = "unpark" /\ L.i = th[t].i /\ L.was = FALSE /\ L.pred = NULL /\ L.predNext = NULL
        /\ L.ws = 0 /\ L.s = NULL /\ L.q = NULL /\ L.h = Me(t) /\ L.u = NULL /\ L.ret = "cancel_self"
        /\ L.ret2 = NoRet /\ L.n = NULL /\ L.mode = "none"
    <3>1. L = [pc |-> "unpark", i |-> th[t].i, was |-> FALSE, pred |-> NULL, predNext |-> NULL,
              ws |-> 0, s |-> NULL, q |-> NULL, h |-> Me(t), u |-> NULL,
              ret |-> "cancel_self", ret2 |-> NoRet, n |-> NULL, mode |-> "none"]
      BY ONLY DEF FreshAt
    <3> HIDE DEF L
    <3>2. L \in Thread
      BY ONLY <3>1, <2>6 DEF Thread
    <3> QED BY ONLY <3>1, <3>2
  <2> HIDE DEF L
  <2>8. th'[t] = L
    BY ONLY <1>0, <2>5
  <2>9. /\ th'[t].pc = "unpark" /\ th'[t].i = th[t].i /\ th'[t].was = FALSE /\ th'[t].pred = NULL
        /\ th'[t].predNext = NULL /\ th'[t].ws = 0 /\ th'[t].s = NULL /\ th'[t].q = NULL
        /\ th'[t].h = Me(t) /\ th'[t].u = NULL /\ th'[t].ret = "cancel_self" /\ th'[t].ret2 = NoRet
        /\ th'[t].n = NULL /\ th'[t].mode = "none"
    BY ONLY <2>8, <2>7
  <2>10. order' = order /\ program' = program /\ head' = head /\ tail' = tail
    BY ONLY program' = program, <1>9 DEF CancelSignal, sync
  <2>11. LocalsSound(t)'
    BY <2>1, <2>2, <2>3, <2>4, <2>6, <2>9, <2>10 DEF LocalsSound, PredPcs, LinkedPcs, Leaving, At,
       Call, Pcs, LivePcs, FirstPcs, RetiredPcs, CancelledPcs, AwaitPcs, UnparkPcs, SharedPcs,
       TransferPcs
  <2>12. ASSUME CancelledNodes' = CancelledNodes PROVE NodeSound(t)'
    BY <2>1, <2>2, <2>3, <2>4, <2>9, <2>10, <2>12 DEF NodeSound, ThisLive, Fresh, Awaiting, Leaving,
       GivenUp, LinkedPcs, At, Call, Me, Pcs, LivePcs, FirstPcs, RetiredPcs, CancelledPcs, AwaitPcs,
       UnparkPcs, SharedPcs, TransferPcs
  <2>13. ~Claiming(t)' /\ (Awaiting(t) /\ Me(t) \notin Range(order) => Awaiting(t)')
    BY <2>1, <2>2, <2>3, <2>4, <2>9, <2>10 DEF Claiming, Awaiting, At, Call, Me, Pcs, LivePcs,
       FirstPcs, RetiredPcs, CancelledPcs, AwaitPcs, UnparkPcs, SharedPcs, TransferPcs
  <2>14. Proceeds(t)
    BY ONLY <2>5, <2>7, <2>8, <2>9, <2>11, <2>12, <2>13, Zenon DEF Proceeds
  <2>15. QuietNodes
    BY <1>9, <2>1, <2>2, <2>3, <2>4, StatusChanged DEF CancelSignal
  <2>16. state' \in Nat /\ permit' \in [Threads -> BOOLEAN] /\ intr' \in [Threads -> BOOLEAN]
    BY <1>9, <2>1, <2>2, <2>3, <2>4 DEF CancelSignal, sync, parking
  <2> QED BY <2>10, <2>14, <2>16, <2>15, LocalStep
<1>10. CASE CancelThread(t) /\ node[th[t].pred].thread # NULL
  <2>1. th[t].pc = "cancel_thread"
    BY ONLY <1>10 DEF CancelThread, At
  <2> DEFINE L == [th[t] EXCEPT !.pc = "cancel_succ"]
  <2>2. th' = [th EXCEPT ![t] = L]
    BY <1>10, <2>1 DEF CancelThread, Goto
  <2>3. /\ th[t] \in Thread
        /\ "cancel_succ" \in Pcs
    BY <1>10, <2>1 DEF Pcs, LivePcs, FirstPcs, RetiredPcs, CancelledPcs, AwaitPcs, UnparkPcs,
       SharedPcs, TransferPcs, Rets
  <2>4. L \in Thread
    BY ONLY <2>3 DEF Thread, Rets
  <2>5. th'[t] = L
    BY ONLY <1>0, <2>2
  <2>6. /\ th'[t].pc = "cancel_succ" /\ th'[t].i = th[t].i /\ th'[t].was = th[t].was
        /\ th'[t].pred = th[t].pred /\ th'[t].predNext = th[t].predNext /\ th'[t].ws = th[t].ws
        /\ th'[t].s = th[t].s /\ th'[t].q = th[t].q /\ th'[t].h = th[t].h /\ th'[t].u = th[t].u
        /\ th'[t].ret = th[t].ret /\ th'[t].ret2 = th[t].ret2 /\ th'[t].n = th[t].n
        /\ th'[t].mode = th[t].mode
    BY ONLY <2>5, <2>3 DEF Thread
  <2>7. order' = order /\ program' = program /\ head' = head /\ tail' = tail /\ node' = node
    BY ONLY program' = program, <1>10 DEF CancelThread, sync
  <2>8. LocalsSound(t)'
    BY <2>1, <2>3, <2>6, <2>7 DEF LocalsSound, PredPcs, LinkedPcs, Leaving, At, Call, Pcs, LivePcs,
       FirstPcs, RetiredPcs, CancelledPcs, AwaitPcs, UnparkPcs, SharedPcs, TransferPcs
  <2>9. ASSUME CancelledNodes' = CancelledNodes PROVE NodeSound(t)'
    BY <2>1, <2>6, <2>7, <2>9 DEF NodeSound, ThisLive, Fresh, Awaiting, Leaving, GivenUp, LinkedPcs,
       At, Call, Me, Pcs, LivePcs, FirstPcs, RetiredPcs, CancelledPcs, AwaitPcs, UnparkPcs,
       SharedPcs, TransferPcs
  <2>10. ~Claiming(t)' /\ (Awaiting(t) /\ Me(t) \notin Range(order) => Awaiting(t)')
    BY <2>1, <2>6, <2>7 DEF Claiming, Awaiting, At, Call, Me, Pcs, LivePcs, FirstPcs, RetiredPcs,
       CancelledPcs, AwaitPcs, UnparkPcs, SharedPcs, TransferPcs
  <2>11. Proceeds(t)
    BY ONLY <2>2, <2>4, <2>5, <2>6, <2>8, <2>9, <2>10, Zenon DEF Proceeds
  <2> QED BY <1>10, <2>11, MoveStep DEF CancelThread
<1>11. CASE CancelThread(t) /\ node[th[t].pred].thread = NULL
  <2>1. th[t].pc = "cancel_thread"
    BY ONLY <1>11 DEF CancelThread, At
  <2>2. Me(t) \in Queued(order) /\ Me(t) \in Nodes
    BY <2>1 DEF NodeSound, GivenUp, Queued, Pcs, LivePcs, FirstPcs, RetiredPcs, CancelledPcs,
       AwaitPcs, UnparkPcs, SharedPcs, TransferPcs
  <2> DEFINE L == FreshAt("unpark", th[t].i, FALSE, "none", Me(t), NULL, "cancel_self")
  <2>3. th' = [th EXCEPT ![t] = L]
    BY <1>11, <2>1, <2>2, Continuations, Zenon DEF CancelThread, Goto
  <2>4. /\ th[t] \in Thread
        /\ "unpark" \in Pcs
        /\ th[t].i \in Nat \ {0}
        /\ FALSE \in BOOLEAN
        /\ "none" \in {"none", "THROW_IE", "REINTERRUPT"}
        /\ Me(t) \in Nodes \cup {NULL}
        /\ NULL \in Nodes \cup {NULL}
        /\ "cancel_self" \in Rets
    BY <1>11, <2>1, <2>2 DEF Pcs, LivePcs, FirstPcs, RetiredPcs, CancelledPcs, AwaitPcs, UnparkPcs,
       SharedPcs, TransferPcs, Rets, Thread
  <2>5. /\ L \in Thread
        /\ L.pc = "unpark" /\ L.i = th[t].i /\ L.was = FALSE /\ L.pred = NULL /\ L.predNext = NULL
        /\ L.ws = 0 /\ L.s = NULL /\ L.q = NULL /\ L.h = Me(t) /\ L.u = NULL /\ L.ret = "cancel_self"
        /\ L.ret2 = NoRet /\ L.n = NULL /\ L.mode = "none"
    <3>1. L = [pc |-> "unpark", i |-> th[t].i, was |-> FALSE, pred |-> NULL, predNext |-> NULL,
              ws |-> 0, s |-> NULL, q |-> NULL, h |-> Me(t), u |-> NULL,
              ret |-> "cancel_self", ret2 |-> NoRet, n |-> NULL, mode |-> "none"]
      BY ONLY DEF FreshAt
    <3> HIDE DEF L
    <3>2. L \in Thread
      BY ONLY <3>1, <2>4 DEF Thread
    <3> QED BY ONLY <3>1, <3>2
  <2> HIDE DEF L
  <2>6. th'[t] = L
    BY ONLY <1>0, <2>3
  <2>7. /\ th'[t].pc = "unpark" /\ th'[t].i = th[t].i /\ th'[t].was = FALSE /\ th'[t].pred = NULL
        /\ th'[t].predNext = NULL /\ th'[t].ws = 0 /\ th'[t].s = NULL /\ th'[t].q = NULL
        /\ th'[t].h = Me(t) /\ th'[t].u = NULL /\ th'[t].ret = "cancel_self" /\ th'[t].ret2 = NoRet
        /\ th'[t].n = NULL /\ th'[t].mode = "none"
    BY ONLY <2>6, <2>5
  <2>8. order' = order /\ program' = program /\ head' = head /\ tail' = tail /\ node' = node
    BY ONLY program' = program, <1>11 DEF CancelThread, sync
  <2>9. LocalsSound(t)'
    BY <2>1, <2>2, <2>4, <2>7, <2>8 DEF LocalsSound, PredPcs, LinkedPcs, Leaving, At, Call, Pcs,
       LivePcs, FirstPcs, RetiredPcs, CancelledPcs, AwaitPcs, UnparkPcs, SharedPcs, TransferPcs
  <2>10. ASSUME CancelledNodes' = CancelledNodes PROVE NodeSound(t)'
    BY <2>1, <2>2, <2>7, <2>8, <2>10 DEF NodeSound, ThisLive, Fresh, Awaiting, Leaving, GivenUp,
       LinkedPcs, At, Call, Me, Pcs, LivePcs, FirstPcs, RetiredPcs, CancelledPcs, AwaitPcs,
       UnparkPcs, SharedPcs, TransferPcs
  <2>11. ~Claiming(t)' /\ (Awaiting(t) /\ Me(t) \notin Range(order) => Awaiting(t)')
    BY <2>1, <2>2, <2>7, <2>8 DEF Claiming, Awaiting, At, Call, Me, Pcs, LivePcs, FirstPcs,
       RetiredPcs, CancelledPcs, AwaitPcs, UnparkPcs, SharedPcs, TransferPcs
  <2>12. Proceeds(t)
    BY ONLY <2>3, <2>5, <2>6, <2>7, <2>9, <2>10, <2>11, Zenon DEF Proceeds
  <2> QED BY <1>11, <2>12, MoveStep DEF CancelThread
<1>12. CASE CancelSucc(t)
  <2>1. th[t].pc = "cancel_succ"
    BY ONLY <1>12 DEF CancelSucc, At
  <2>2. Me(t) \in Queued(order) /\ Me(t) \in Nodes
    BY <2>1 DEF NodeSound, GivenUp, Queued, Pcs, LivePcs, FirstPcs, RetiredPcs, CancelledPcs,
       AwaitPcs, UnparkPcs, SharedPcs, TransferPcs
  <2> DEFINE s == node[Me(t)].next
             pc == IF node[Me(t)].next = NULL THEN "cancel_self" ELSE "cancel_succ_ws"
  <2> DEFINE L == [th[t] EXCEPT !.s = s, !.pc = pc]
  <2>3. th' = [th EXCEPT ![t] = L]
    BY <1>12, <2>1, <2>2, Zenon DEF CancelSucc, Goto
  <2>4. /\ th[t] \in Thread
        /\ s \in Nodes \cup {NULL}
        /\ pc \in Pcs
    BY <1>12, <2>1, <2>2 DEF Pcs, LivePcs, FirstPcs, RetiredPcs, CancelledPcs, AwaitPcs, UnparkPcs,
       SharedPcs, TransferPcs, Rets
  <2>5. L \in Thread
    <3> HIDE DEF s, pc
    <3> QED BY ONLY <2>4, Zenon DEF Thread, Rets
  <2>6. th'[t] = L
    BY ONLY <1>0, <2>3
  <2>7. /\ th'[t].pc = pc /\ th'[t].i = th[t].i /\ th'[t].was = th[t].was /\ th'[t].pred = th[t].pred
        /\ th'[t].predNext = th[t].predNext /\ th'[t].ws = th[t].ws /\ th'[t].s = s
        /\ th'[t].q = th[t].q /\ th'[t].h = th[t].h /\ th'[t].u = th[t].u /\ th'[t].ret = th[t].ret
        /\ th'[t].ret2 = th[t].ret2 /\ th'[t].n = th[t].n /\ th'[t].mode = th[t].mode
    BY ONLY <2>6, <2>4 DEF Thread
  <2>8. order' = order /\ program' = program /\ head' = head /\ tail' = tail /\ node' = node
    BY ONLY program' = program, <1>12 DEF CancelSucc, sync
  <2>9. LocalsSound(t)'
    BY <2>1, <2>2, <2>4, <2>7, <2>8 DEF LocalsSound, PredPcs, LinkedPcs, Leaving, At, Call, Pcs,
       LivePcs, FirstPcs, RetiredPcs, CancelledPcs, AwaitPcs, UnparkPcs, SharedPcs, TransferPcs
  <2>10. ASSUME CancelledNodes' = CancelledNodes PROVE NodeSound(t)'
    BY <2>1, <2>2, <2>7, <2>8, <2>10 DEF NodeSound, ThisLive, Fresh, Awaiting, Leaving, GivenUp,
       LinkedPcs, At, Call, Me, Pcs, LivePcs, FirstPcs, RetiredPcs, CancelledPcs, AwaitPcs,
       UnparkPcs, SharedPcs, TransferPcs
  <2>11. ~Claiming(t)' /\ (Awaiting(t) /\ Me(t) \notin Range(order) => Awaiting(t)')
    BY <2>1, <2>2, <2>7, <2>8 DEF Claiming, Awaiting, At, Call, Me, Pcs, LivePcs, FirstPcs,
       RetiredPcs, CancelledPcs, AwaitPcs, UnparkPcs, SharedPcs, TransferPcs
  <2>12. Proceeds(t)
    BY ONLY <2>3, <2>5, <2>6, <2>7, <2>9, <2>10, <2>11, Zenon DEF Proceeds
  <2> QED BY <1>12, <2>12, MoveStep DEF CancelSucc
<1>13. CASE CancelSuccWs(t)
  <2>1. th[t].pc = "cancel_succ_ws"
    BY ONLY <1>13 DEF CancelSuccWs, At
  <2> DEFINE pc == IF node[th[t].s].ws <= 0 THEN "cancel_splice" ELSE "cancel_self"
  <2> DEFINE L == [th[t] EXCEPT !.pc = pc]
  <2>2. th' = [th EXCEPT ![t] = L]
    BY <1>13, <2>1 DEF CancelSuccWs, Goto
  <2>3. /\ th[t] \in Thread
        /\ pc \in Pcs
    BY <1>13, <2>1 DEF Pcs, LivePcs, FirstPcs, RetiredPcs, CancelledPcs, AwaitPcs, UnparkPcs,
       SharedPcs, TransferPcs, Rets
  <2>4. L \in Thread
    <3> HIDE DEF pc
    <3> QED BY ONLY <2>3 DEF Thread, Rets
  <2>5. th'[t] = L
    BY ONLY <1>0, <2>2
  <2>6. /\ th'[t].pc = pc /\ th'[t].i = th[t].i /\ th'[t].was = th[t].was /\ th'[t].pred = th[t].pred
        /\ th'[t].predNext = th[t].predNext /\ th'[t].ws = th[t].ws /\ th'[t].s = th[t].s
        /\ th'[t].q = th[t].q /\ th'[t].h = th[t].h /\ th'[t].u = th[t].u /\ th'[t].ret = th[t].ret
        /\ th'[t].ret2 = th[t].ret2 /\ th'[t].n = th[t].n /\ th'[t].mode = th[t].mode
    BY ONLY <2>5, <2>3 DEF Thread
  <2>7. order' = order /\ program' = program /\ head' = head /\ tail' = tail /\ node' = node
    BY ONLY program' = program, <1>13 DEF CancelSuccWs, sync
  <2>8. LocalsSound(t)'
    BY <2>1, <2>3, <2>6, <2>7 DEF LocalsSound, PredPcs, LinkedPcs, Leaving, At, Call, Pcs, LivePcs,
       FirstPcs, RetiredPcs, CancelledPcs, AwaitPcs, UnparkPcs, SharedPcs, TransferPcs
  <2>9. ASSUME CancelledNodes' = CancelledNodes PROVE NodeSound(t)'
    BY <2>1, <2>6, <2>7, <2>9 DEF NodeSound, ThisLive, Fresh, Awaiting, Leaving, GivenUp, LinkedPcs,
       At, Call, Me, Pcs, LivePcs, FirstPcs, RetiredPcs, CancelledPcs, AwaitPcs, UnparkPcs,
       SharedPcs, TransferPcs
  <2>10. ~Claiming(t)' /\ (Awaiting(t) /\ Me(t) \notin Range(order) => Awaiting(t)')
    BY <2>1, <2>6, <2>7 DEF Claiming, Awaiting, At, Call, Me, Pcs, LivePcs, FirstPcs, RetiredPcs,
       CancelledPcs, AwaitPcs, UnparkPcs, SharedPcs, TransferPcs
  <2>11. Proceeds(t)
    BY ONLY <2>2, <2>4, <2>5, <2>6, <2>8, <2>9, <2>10, Zenon DEF Proceeds
  <2> QED BY <1>13, <2>11, MoveStep DEF CancelSuccWs
<1>14. CASE CancelSplice(t)
  <2>1. th[t].pc = "cancel_splice"
    BY ONLY <1>14 DEF CancelSplice, At
  <2>2. th[t].pred \in Nodes /\ th[t].pred \in Queued(order)
    BY <2>1 DEF LocalsSound, Pcs, LivePcs, FirstPcs, RetiredPcs, CancelledPcs, AwaitPcs, UnparkPcs,
       SharedPcs, TransferPcs, PredPcs, LinkedPcs, Leaving
  <2>3. th[t].s \in Nodes \cup {NULL}
    BY DEF Thread
  <2> DEFINE L == [th[t] EXCEPT !.pc = "cancel_self"]
  <2>4. th' = [th EXCEPT ![t] = L]
    BY <1>14, <2>1, <2>2, <2>3 DEF CancelSplice, Goto
  <2>5. /\ th[t] \in Thread
        /\ "cancel_self" \in Pcs
    BY <1>14, <2>1, <2>2, <2>3 DEF Pcs, LivePcs, FirstPcs, RetiredPcs, CancelledPcs, AwaitPcs,
       UnparkPcs, SharedPcs, TransferPcs, Rets
  <2>6. L \in Thread
    BY ONLY <2>5 DEF Thread, Rets
  <2>7. th'[t] = L
    BY ONLY <1>0, <2>4
  <2>8. /\ th'[t].pc = "cancel_self" /\ th'[t].i = th[t].i /\ th'[t].was = th[t].was
        /\ th'[t].pred = th[t].pred /\ th'[t].predNext = th[t].predNext /\ th'[t].ws = th[t].ws
        /\ th'[t].s = th[t].s /\ th'[t].q = th[t].q /\ th'[t].h = th[t].h /\ th'[t].u = th[t].u
        /\ th'[t].ret = th[t].ret /\ th'[t].ret2 = th[t].ret2 /\ th'[t].n = th[t].n
        /\ th'[t].mode = th[t].mode
    BY ONLY <2>7, <2>5 DEF Thread
  <2>9. order' = order /\ program' = program /\ head' = head /\ tail' = tail
    BY ONLY program' = program, <1>14 DEF CancelSplice, sync
  <2>10. LocalsSound(t)'
    BY <2>1, <2>2, <2>3, <2>5, <2>8, <2>9 DEF LocalsSound, PredPcs, LinkedPcs, Leaving, At, Call,
       Pcs, LivePcs, FirstPcs, RetiredPcs, CancelledPcs, AwaitPcs, UnparkPcs, SharedPcs, TransferPcs
  <2>11. ASSUME CancelledNodes' = CancelledNodes PROVE NodeSound(t)'
    BY <2>1, <2>2, <2>3, <2>8, <2>9, <2>11 DEF NodeSound, ThisLive, Fresh, Awaiting, Leaving,
       GivenUp, LinkedPcs, At, Call, Me, Pcs, LivePcs, FirstPcs, RetiredPcs, CancelledPcs, AwaitPcs,
       UnparkPcs, SharedPcs, TransferPcs
  <2>12. ~Claiming(t)' /\ (Awaiting(t) /\ Me(t) \notin Range(order) => Awaiting(t)')
    BY <2>1, <2>2, <2>3, <2>8, <2>9 DEF Claiming, Awaiting, At, Call, Me, Pcs, LivePcs, FirstPcs,
       RetiredPcs, CancelledPcs, AwaitPcs, UnparkPcs, SharedPcs, TransferPcs
  <2>13. Proceeds(t)
    BY ONLY <2>4, <2>6, <2>7, <2>8, <2>10, <2>11, <2>12, Zenon DEF Proceeds
  <2>14. QuietNodes
    BY <1>14, <2>1, <2>2, <2>3, NextCompared DEF CancelSplice
  <2>15. state' \in Nat /\ permit' \in [Threads -> BOOLEAN] /\ intr' \in [Threads -> BOOLEAN]
    BY <1>14, <2>1, <2>2, <2>3 DEF CancelSplice, sync, parking
  <2> QED BY <2>9, <2>13, <2>15, <2>14, LocalStep
<1>15. CASE CancelSelf(t)
  <2>1. th[t].pc = "cancel_self"
    BY ONLY <1>15 DEF CancelSelf, At
  <2>2. Me(t) \in Queued(order) /\ Me(t) \in Nodes
    BY <2>1 DEF NodeSound, GivenUp, Queued, Pcs, LivePcs, FirstPcs, RetiredPcs, CancelledPcs,
       AwaitPcs, UnparkPcs, SharedPcs, TransferPcs
  <2> DEFINE L == FreshAt("done", th[t].i, FALSE, "none", NULL, NULL, NoRet)
  <2>3. th' = [th EXCEPT ![t] = L]
    BY <1>15, <2>1, <2>2, Continuations, Zenon DEF CancelSelf, Goto
  <2>4. /\ th[t] \in Thread
        /\ "done" \in Pcs
        /\ th[t].i \in Nat \ {0}
        /\ FALSE \in BOOLEAN
        /\ "none" \in {"none", "THROW_IE", "REINTERRUPT"}
        /\ NULL \in Nodes \cup {NULL}
        /\ NULL \in Nodes \cup {NULL}
        /\ NoRet \in Rets
    BY <1>15, <2>1, <2>2 DEF Pcs, LivePcs, FirstPcs, RetiredPcs, CancelledPcs, AwaitPcs, UnparkPcs,
       SharedPcs, TransferPcs, Rets, Thread
  <2>5. /\ L \in Thread
        /\ L.pc = "done" /\ L.i = th[t].i /\ L.was = FALSE /\ L.pred = NULL /\ L.predNext = NULL
        /\ L.ws = 0 /\ L.s = NULL /\ L.q = NULL /\ L.h = NULL /\ L.u = NULL /\ L.ret = NoRet
        /\ L.ret2 = NoRet /\ L.n = NULL /\ L.mode = "none"
    <3>1. L = [pc |-> "done", i |-> th[t].i, was |-> FALSE, pred |-> NULL, predNext |-> NULL,
              ws |-> 0, s |-> NULL, q |-> NULL, h |-> NULL, u |-> NULL, ret |-> NoRet,
              ret2 |-> NoRet, n |-> NULL, mode |-> "none"]
      BY ONLY DEF FreshAt
    <3> HIDE DEF L
    <3>2. L \in Thread
      BY ONLY <3>1, <2>4 DEF Thread
    <3> QED BY ONLY <3>1, <3>2
  <2> HIDE DEF L
  <2>6. th'[t] = L
    BY ONLY <1>0, <2>3
  <2>7. /\ th'[t].pc = "done" /\ th'[t].i = th[t].i /\ th'[t].was = FALSE /\ th'[t].pred = NULL
        /\ th'[t].predNext = NULL /\ th'[t].ws = 0 /\ th'[t].s = NULL /\ th'[t].q = NULL
        /\ th'[t].h = NULL /\ th'[t].u = NULL /\ th'[t].ret = NoRet /\ th'[t].ret2 = NoRet
        /\ th'[t].n = NULL /\ th'[t].mode = "none"
    BY ONLY <2>6, <2>5
  <2>8. order' = order /\ program' = program /\ head' = head /\ tail' = tail
    BY ONLY program' = program, <1>15 DEF CancelSelf, sync
  <2>9. LocalsSound(t)'
    BY <2>1, <2>2, <2>4, <2>7, <2>8 DEF LocalsSound, PredPcs, LinkedPcs, Leaving, At, Call, Pcs,
       LivePcs, FirstPcs, RetiredPcs, CancelledPcs, AwaitPcs, UnparkPcs, SharedPcs, TransferPcs
  <2>10. ASSUME CancelledNodes' = CancelledNodes PROVE NodeSound(t)'
    BY <2>1, <2>2, <2>7, <2>8, <2>10 DEF NodeSound, ThisLive, Fresh, Awaiting, Leaving, GivenUp,
       LinkedPcs, At, Call, Me, Pcs, LivePcs, FirstPcs, RetiredPcs, CancelledPcs, AwaitPcs,
       UnparkPcs, SharedPcs, TransferPcs
  <2>11. ~Claiming(t)' /\ (Awaiting(t) /\ Me(t) \notin Range(order) => Awaiting(t)')
    BY <2>1, <2>2, <2>7, <2>8 DEF Claiming, Awaiting, At, Call, Me, Pcs, LivePcs, FirstPcs,
       RetiredPcs, CancelledPcs, AwaitPcs, UnparkPcs, SharedPcs, TransferPcs
  <2>12. Proceeds(t)
    BY ONLY <2>3, <2>5, <2>6, <2>7, <2>9, <2>10, <2>11, Zenon DEF Proceeds
  <2>13. QuietNodes
    BY <1>15, <2>1, <2>2, NextChanged, Zenon DEF CancelSelf
  <2>14. state' \in Nat /\ permit' \in [Threads -> BOOLEAN] /\ intr' \in [Threads -> BOOLEAN]
    BY <1>15, <2>1, <2>2 DEF CancelSelf, sync, parking
  <2> QED BY <2>8, <2>12, <2>14, <2>13, LocalStep
<1> QED BY <1>1, <1>2, <1>3, <1>4, <1>5, <1>6, <1>7, <1>8, <1>9, <1>10, <1>11, <1>12, <1>13, <1>14,
           <1>15

\* The link to an appended node
LEMMA LinkStep ==
    ASSUME IInv, NEW t \in Threads, program' = program,
           Link(t)
    PROVE  IInv'
<1> USE Locals, NodeForm, NoReturn
<1>0. th \in [Threads -> Thread] /\ t \in Threads
  OBVIOUS
<1>1. CASE Link(t)
  <2>1. th[t].pc = "link"
    BY ONLY <1>1 DEF Link, At
  <2>2. th[t].pred \in Nodes /\ th[t].pred \in Queued(order)
    BY <2>1 DEF LocalsSound, Pcs, LivePcs, FirstPcs, RetiredPcs, CancelledPcs, AwaitPcs, UnparkPcs,
       SharedPcs, TransferPcs, PredPcs, LinkedPcs, Leaving
  <2>3. ThisLive(Me(t)) /\ Me(t) \in Nodes
    BY <2>1, LiveBack DEF NodeSound, LivePcs, FirstPcs
  <2> DEFINE L == FreshAt("loop", th[t].i, th[t].was, th[t].mode, NULL, NULL, NoRet)
  <2>4. th' = [th EXCEPT ![t] = L]
    BY <1>1, <2>1, <2>2, <2>3, Continuations, Zenon DEF Link, Goto
  <2>5. /\ th[t] \in Thread
        /\ "loop" \in Pcs
        /\ th[t].i \in Nat \ {0}
        /\ th[t].was \in BOOLEAN
        /\ th[t].mode \in {"none", "THROW_IE", "REINTERRUPT"}
        /\ NULL \in Nodes \cup {NULL}
        /\ NULL \in Nodes \cup {NULL}
        /\ NoRet \in Rets
    BY <1>1, <2>1, <2>2, <2>3 DEF Pcs, LivePcs, FirstPcs, RetiredPcs, CancelledPcs, AwaitPcs,
       UnparkPcs, SharedPcs, TransferPcs, Rets, Thread
  <2>6. /\ L \in Thread
        /\ L.pc = "loop" /\ L.i = th[t].i /\ L.was = th[t].was /\ L.pred = NULL /\ L.predNext = NULL
        /\ L.ws = 0 /\ L.s = NULL /\ L.q = NULL /\ L.h = NULL /\ L.u = NULL /\ L.ret = NoRet
        /\ L.ret2 = NoRet /\ L.n = NULL /\ L.mode = th[t].mode
    <3>1. L = [pc |-> "loop", i |-> th[t].i, was |-> th[t].was, pred |-> NULL,
              predNext |-> NULL, ws |-> 0, s |-> NULL, q |-> NULL, h |-> NULL, u |-> NULL,
              ret |-> NoRet, ret2 |-> NoRet, n |-> NULL, mode |-> th[t].mode]
      BY ONLY DEF FreshAt
    <3> HIDE DEF L
    <3>2. L \in Thread
      BY ONLY <3>1, <2>5 DEF Thread
    <3> QED BY ONLY <3>1, <3>2
  <2> HIDE DEF L
  <2>7. th'[t] = L
    BY ONLY <1>0, <2>4
  <2>8. /\ th'[t].pc = "loop" /\ th'[t].i = th[t].i /\ th'[t].was = th[t].was /\ th'[t].pred = NULL
        /\ th'[t].predNext = NULL /\ th'[t].ws = 0 /\ th'[t].s = NULL /\ th'[t].q = NULL
        /\ th'[t].h = NULL /\ th'[t].u = NULL /\ th'[t].ret = NoRet /\ th'[t].ret2 = NoRet
        /\ th'[t].n = NULL /\ th'[t].mode = th[t].mode
    BY ONLY <2>7, <2>6
  <2>9. order' = order /\ program' = program /\ head' = head /\ tail' = tail
    BY ONLY program' = program, <1>1 DEF Link, sync
  <2>10. LocalsSound(t)'
    BY <2>1, <2>2, <2>3, <2>5, <2>8, <2>9 DEF LocalsSound, PredPcs, LinkedPcs, Leaving, At, Call,
       Pcs, LivePcs, FirstPcs, RetiredPcs, CancelledPcs, AwaitPcs, UnparkPcs, SharedPcs, TransferPcs
  <2>11. ASSUME CancelledNodes' = CancelledNodes PROVE NodeSound(t)'
    BY <2>1, <2>2, <2>3, <2>8, <2>9, <2>11 DEF NodeSound, ThisLive, Fresh, Awaiting, Leaving,
       GivenUp, LinkedPcs, At, Call, Me, Pcs, LivePcs, FirstPcs, RetiredPcs, CancelledPcs, AwaitPcs,
       UnparkPcs, SharedPcs, TransferPcs
  <2>12. ~Claiming(t)' /\ (Awaiting(t) /\ Me(t) \notin Range(order) => Awaiting(t)')
    BY <2>1, <2>2, <2>3, <2>8, <2>9 DEF Claiming, Awaiting, At, Call, Me, Pcs, LivePcs, FirstPcs,
       RetiredPcs, CancelledPcs, AwaitPcs, UnparkPcs, SharedPcs, TransferPcs
  <2>13. Proceeds(t)
    BY ONLY <2>4, <2>6, <2>7, <2>8, <2>10, <2>11, <2>12, Zenon DEF Proceeds
  <2>14. QuietNodes
    BY <1>1, <2>1, <2>2, <2>3, NextChanged, Zenon DEF Link
  <2>15. state' \in Nat /\ permit' \in [Threads -> BOOLEAN] /\ intr' \in [Threads -> BOOLEAN]
    BY <1>1, <2>1, <2>2, <2>3 DEF Link, sync, parking
  <2> QED BY <2>9, <2>13, <2>15, <2>14, LocalStep
<1> QED BY <1>1

\* An acquire that succeeds or fails at once
LEMMA AcquireQuietly ==
    ASSUME IInv, NEW t \in Threads, program' = program,
           At(t, "start"),
           \/ /\ Fail(t) /\ intr' \in [Threads -> BOOLEAN]
              /\ UNCHANGED <<state, node, head, tail, permit, victims, order>>
           \/ /\ EndCall(t) /\ tryAcquire >= 0 /\ state' = AfterAcquire
              /\ UNCHANGED <<node, intr, head, tail, permit, victims, order>>
    PROVE  IInv'
<1> USE Locals, NodeForm, NoReturn
<1>0. th \in [Threads -> Thread] /\ t \in Threads
  OBVIOUS
<1>1. CASE /\ At(t, "start") /\ Fail(t) /\ intr' \in [Threads -> BOOLEAN]
          /\ UNCHANGED <<state, node, head, tail, permit, victims, order>>
  <2>1. th[t].pc = "start"
    BY ONLY <1>1 DEF At, At
  <2> DEFINE L == FreshAt("done", th[t].i, FALSE, "none", NULL, NULL, NoRet)
  <2>2. th' = [th EXCEPT ![t] = L]
    BY <1>1, <2>1, Continuations, Zenon DEF At, Goto
  <2>3. /\ th[t] \in Thread
        /\ "done" \in Pcs
        /\ th[t].i \in Nat \ {0}
        /\ FALSE \in BOOLEAN
        /\ "none" \in {"none", "THROW_IE", "REINTERRUPT"}
        /\ NULL \in Nodes \cup {NULL}
        /\ NULL \in Nodes \cup {NULL}
        /\ NoRet \in Rets
    BY <1>1, <2>1 DEF Pcs, LivePcs, FirstPcs, RetiredPcs, CancelledPcs, AwaitPcs, UnparkPcs,
       SharedPcs, TransferPcs, Rets, Thread
  <2>4. /\ L \in Thread
        /\ L.pc = "done" /\ L.i = th[t].i /\ L.was = FALSE /\ L.pred = NULL /\ L.predNext = NULL
        /\ L.ws = 0 /\ L.s = NULL /\ L.q = NULL /\ L.h = NULL /\ L.u = NULL /\ L.ret = NoRet
        /\ L.ret2 = NoRet /\ L.n = NULL /\ L.mode = "none"
    <3>1. L = [pc |-> "done", i |-> th[t].i, was |-> FALSE, pred |-> NULL, predNext |-> NULL,
              ws |-> 0, s |-> NULL, q |-> NULL, h |-> NULL, u |-> NULL, ret |-> NoRet,
              ret2 |-> NoRet, n |-> NULL, mode |-> "none"]
      BY ONLY DEF FreshAt
    <3> HIDE DEF L
    <3>2. L \in Thread
      BY ONLY <3>1, <2>3 DEF Thread
    <3> QED BY ONLY <3>1, <3>2
  <2> HIDE DEF L
  <2>5. th'[t] = L
    BY ONLY <1>0, <2>2
  <2>6. /\ th'[t].pc = "done" /\ th'[t].i = th[t].i /\ th'[t].was = FALSE /\ th'[t].pred = NULL
        /\ th'[t].predNext = NULL /\ th'[t].ws = 0 /\ th'[t].s = NULL /\ th'[t].q = NULL
        /\ th'[t].h = NULL /\ th'[t].u = NULL /\ th'[t].ret = NoRet /\ th'[t].ret2 = NoRet
        /\ th'[t].n = NULL /\ th'[t].mode = "none"
    BY ONLY <2>5, <2>4
  <2>7. order' = order /\ program' = program /\ head' = head /\ tail' = tail /\ node' = node
    BY ONLY program' = program, <1>1 DEF At, sync
  <2>8. LocalsSound(t)'
    BY <2>1, <2>3, <2>6, <2>7 DEF LocalsSound, PredPcs, LinkedPcs, Leaving, At, Call, Pcs, LivePcs,
       FirstPcs, RetiredPcs, CancelledPcs, AwaitPcs, UnparkPcs, SharedPcs, TransferPcs
  <2>9. ASSUME CancelledNodes' = CancelledNodes PROVE NodeSound(t)'
    BY <2>1, <2>6, <2>7, <2>9 DEF NodeSound, ThisLive, Fresh, Awaiting, Leaving, GivenUp, LinkedPcs,
       At, Call, Me, Pcs, LivePcs, FirstPcs, RetiredPcs, CancelledPcs, AwaitPcs, UnparkPcs,
       SharedPcs, TransferPcs
  <2>10. ~Claiming(t)' /\ (Awaiting(t) /\ Me(t) \notin Range(order) => Awaiting(t)')
    BY <2>1, <2>6, <2>7 DEF Claiming, Awaiting, At, Call, Me, Pcs, LivePcs, FirstPcs, RetiredPcs,
       CancelledPcs, AwaitPcs, UnparkPcs, SharedPcs, TransferPcs
  <2>11. Proceeds(t)
    BY ONLY <2>2, <2>4, <2>5, <2>6, <2>8, <2>9, <2>10, Zenon DEF Proceeds
  <2>12. state' \in Nat /\ permit' \in [Threads -> BOOLEAN] /\ intr' \in [Threads -> BOOLEAN]
    BY <1>1, <2>1 DEF At, sync, parking
  <2> QED BY <2>7, <2>11, <2>12, SameNodes, LocalStep
<1>2. CASE /\ At(t, "start") /\ EndCall(t) /\ tryAcquire >= 0 /\ state' = AfterAcquire
          /\ UNCHANGED <<node, intr, head, tail, permit, victims, order>>
  <2>1. th[t].pc = "start"
    BY ONLY <1>2 DEF At, At
  <2>2. /\ th[t].i + 1 \in Nat \ {0} /\ <<t, th[t].i + 1>> \notin Range(order)
        /\ th[t].i # Len(program[t]) => th[t].i + 1 \in DOMAIN program[t]
    BY <2>1, NextCall
  <2>3. AfterAcquire \in Nat
    BY <1>2 DEF tryAcquire, AfterAcquire, Kind
  <2> DEFINE pc == IF th[t].i = Len(program[t]) THEN "done" ELSE "start"
  <2> DEFINE L == FreshAt(pc, th[t].i + 1, FALSE, "none", NULL, NULL, NoRet)
  <2>4. th' = [th EXCEPT ![t] = L]
    BY <1>2, <2>1, <2>2, <2>3, Continuations, Zenon DEF At, Goto
  <2>5. /\ th[t] \in Thread
        /\ pc \in Pcs
        /\ th[t].i + 1 \in Nat \ {0}
        /\ FALSE \in BOOLEAN
        /\ "none" \in {"none", "THROW_IE", "REINTERRUPT"}
        /\ NULL \in Nodes \cup {NULL}
        /\ NULL \in Nodes \cup {NULL}
        /\ NoRet \in Rets
    BY <1>2, <2>1, <2>2, <2>3 DEF Pcs, LivePcs, FirstPcs, RetiredPcs, CancelledPcs, AwaitPcs,
       UnparkPcs, SharedPcs, TransferPcs, Rets, Thread
  <2>6. /\ L \in Thread
        /\ L.pc = pc /\ L.i = th[t].i + 1 /\ L.was = FALSE /\ L.pred = NULL /\ L.predNext = NULL
        /\ L.ws = 0 /\ L.s = NULL /\ L.q = NULL /\ L.h = NULL /\ L.u = NULL /\ L.ret = NoRet
        /\ L.ret2 = NoRet /\ L.n = NULL /\ L.mode = "none"
    <3>1. L = [pc |-> pc, i |-> th[t].i + 1, was |-> FALSE, pred |-> NULL, predNext |-> NULL,
              ws |-> 0, s |-> NULL, q |-> NULL, h |-> NULL, u |-> NULL, ret |-> NoRet,
              ret2 |-> NoRet, n |-> NULL, mode |-> "none"]
      BY ONLY DEF FreshAt
    <3> HIDE DEF L, pc
    <3>2. L \in Thread
      BY ONLY <3>1, <2>5 DEF Thread
    <3> QED BY ONLY <3>1, <3>2
  <2> HIDE DEF L
  <2>7. th'[t] = L
    BY ONLY <1>0, <2>4
  <2>8. /\ th'[t].pc = pc /\ th'[t].i = th[t].i + 1 /\ th'[t].was = FALSE /\ th'[t].pred = NULL
        /\ th'[t].predNext = NULL /\ th'[t].ws = 0 /\ th'[t].s = NULL /\ th'[t].q = NULL
        /\ th'[t].h = NULL /\ th'[t].u = NULL /\ th'[t].ret = NoRet /\ th'[t].ret2 = NoRet
        /\ th'[t].n = NULL /\ th'[t].mode = "none"
    BY ONLY <2>7, <2>6
  <2>9. order' = order /\ program' = program /\ head' = head /\ tail' = tail /\ node' = node
    BY ONLY program' = program, <1>2 DEF At, sync
  <2>10. LocalsSound(t)'
    BY <2>1, <2>2, <2>3, <2>5, <2>8, <2>9 DEF LocalsSound, PredPcs, LinkedPcs, Leaving, At, Call,
       Pcs, LivePcs, FirstPcs, RetiredPcs, CancelledPcs, AwaitPcs, UnparkPcs, SharedPcs, TransferPcs
  <2>11. ASSUME CancelledNodes' = CancelledNodes PROVE NodeSound(t)'
    <3>1. th'[t].pc \in {"start", "done"}
      BY <2>8
    <3>2. th'[t].i = th[t].i + 1 /\ order' = order /\ <<t, th[t].i + 1>> \notin Range(order)
      BY ONLY <2>2, <2>8, <2>9
    <3>3. <<t, th'[t].i>> \notin Range(order')
      BY ONLY <3>2
    <3> QED BY <3>1, <3>3, <2>8, IdleSound
  <2>12. ~Claiming(t)' /\ ~(Awaiting(t) /\ Me(t) \notin Range(order))
    BY <2>1, <2>2, <2>3, <2>8, <2>9 DEF Claiming, Awaiting, At, Call, Me, Pcs, LivePcs, FirstPcs,
       RetiredPcs, CancelledPcs, AwaitPcs, UnparkPcs, SharedPcs, TransferPcs
  <2>13. Proceeds(t)
    BY ONLY <2>4, <2>6, <2>7, <2>8, <2>10, <2>11, <2>12, Zenon DEF Proceeds
  <2>14. state' \in Nat /\ permit' \in [Threads -> BOOLEAN] /\ intr' \in [Threads -> BOOLEAN]
    BY <1>2, <2>1, <2>2, <2>3 DEF At, sync, parking
  <2> QED BY <2>9, <2>13, <2>14, SameNodes, LocalStep
<1> QED BY <1>1, <1>2

\* await, but for the step that releases the lock and the one in which the waiter gives up
LEMMA AwaitSteps ==
    ASSUME IInv, NEW t \in Threads, program' = program,
           CondTypes,
           Await(t) \/ AddConditionWaiter(t) \/ UnlinkCancelledWaiters(t) \/ OnSyncQueue(t)
           \/ OnSyncQueuePrev(t) \/ OnSyncQueueNext(t) \/ FindNodeFromTail(t) \/ FindNodeScan(t)
           \/ CondPark(t) \/ CheckInterruptWhileWaiting(t) \/ Reacquired(t)
           \/ ReportInterruptAfterWait(t)
    PROVE  IInv'
<1> USE Locals, NodeForm, NoReturn
<1>0. th \in [Threads -> Thread] /\ t \in Threads
  OBVIOUS
<1>1. CASE /\ At(t, "start") /\ intr' \in [Threads -> BOOLEAN]
          /\ th' = [th EXCEPT ![t].pc = "report", ![t].mode = "THROW_IE"]
          /\ UNCHANGED <<sync, node, permit, victims, order>>
  <2>1. th[t].pc = "start"
    BY ONLY <1>1 DEF At, At
  <2> DEFINE L == [th[t] EXCEPT !.pc = "report", !.mode = "THROW_IE"]
  <2>2. th' = [th EXCEPT ![t] = L]
    BY <1>1, <2>1, Zenon DEF At, Goto
  <2>3. /\ th[t] \in Thread
        /\ "report" \in Pcs
    BY <1>1, <2>1 DEF Pcs, LivePcs, FirstPcs, RetiredPcs, CancelledPcs, AwaitPcs, UnparkPcs,
       SharedPcs, TransferPcs, Rets
  <2>4. L \in Thread
    BY ONLY <2>3, Zenon DEF Thread, Rets
  <2>5. th'[t] = L
    BY ONLY <1>0, <2>2
  <2>6. /\ th'[t].pc = "report" /\ th'[t].i = th[t].i /\ th'[t].was = th[t].was
        /\ th'[t].pred = th[t].pred /\ th'[t].predNext = th[t].predNext /\ th'[t].ws = th[t].ws
        /\ th'[t].s = th[t].s /\ th'[t].q = th[t].q /\ th'[t].h = th[t].h /\ th'[t].u = th[t].u
        /\ th'[t].ret = th[t].ret /\ th'[t].ret2 = th[t].ret2 /\ th'[t].n = th[t].n
        /\ th'[t].mode = "THROW_IE"
    BY ONLY <2>5, <2>3 DEF Thread
  <2>7. order' = order /\ program' = program /\ head' = head /\ tail' = tail /\ node' = node
    BY ONLY program' = program, <1>1 DEF At, sync
  <2>8. LocalsSound(t)'
    BY <2>1, <2>3, <2>6, <2>7 DEF LocalsSound, PredPcs, LinkedPcs, Leaving, At, Call, Pcs, LivePcs,
       FirstPcs, RetiredPcs, CancelledPcs, AwaitPcs, UnparkPcs, SharedPcs, TransferPcs
  <2>9. ASSUME CancelledNodes' = CancelledNodes PROVE NodeSound(t)'
    BY <2>1, <2>6, <2>7, <2>9 DEF NodeSound, ThisLive, Fresh, Awaiting, Leaving, GivenUp, LinkedPcs,
       At, Call, Me, Pcs, LivePcs, FirstPcs, RetiredPcs, CancelledPcs, AwaitPcs, UnparkPcs,
       SharedPcs, TransferPcs
  <2>10. ~Claiming(t)' /\ (Awaiting(t) /\ Me(t) \notin Range(order) => Awaiting(t)')
    BY <2>1, <2>6, <2>7 DEF Claiming, Awaiting, At, Call, Me, Pcs, LivePcs, FirstPcs, RetiredPcs,
       CancelledPcs, AwaitPcs, UnparkPcs, SharedPcs, TransferPcs
  <2>11. Proceeds(t)
    BY ONLY <2>2, <2>4, <2>5, <2>6, <2>8, <2>9, <2>10, Zenon DEF Proceeds
  <2>12. state' \in Nat /\ permit' \in [Threads -> BOOLEAN] /\ intr' \in [Threads -> BOOLEAN]
    BY <1>1, <2>1 DEF At, sync, parking
  <2> QED BY <2>7, <2>11, <2>12, SameNodes, LocalStep
<1>2. CASE /\ At(t, "start") /\ Call(t).call = "await" /\ Goto(t, "addwaiter")
          /\ UNCHANGED <<sync, node, parking, order>>
  <2>1. th[t].pc = "start" /\ Call(t).call = "await"
    BY ONLY <1>2 DEF Goto, At
  <2> DEFINE L == [th[t] EXCEPT !.pc = "addwaiter"]
  <2>2. th' = [th EXCEPT ![t] = L]
    BY <1>2, <2>1 DEF Goto, Goto
  <2>3. /\ th[t] \in Thread
        /\ "addwaiter" \in Pcs
    BY <1>2, <2>1 DEF Pcs, LivePcs, FirstPcs, RetiredPcs, CancelledPcs, AwaitPcs, UnparkPcs,
       SharedPcs, TransferPcs, Rets
  <2>4. L \in Thread
    BY ONLY <2>3 DEF Thread, Rets
  <2>5. th'[t] = L
    BY ONLY <1>0, <2>2
  <2>6. /\ th'[t].pc = "addwaiter" /\ th'[t].i = th[t].i /\ th'[t].was = th[t].was
        /\ th'[t].pred = th[t].pred /\ th'[t].predNext = th[t].predNext /\ th'[t].ws = th[t].ws
        /\ th'[t].s = th[t].s /\ th'[t].q = th[t].q /\ th'[t].h = th[t].h /\ th'[t].u = th[t].u
        /\ th'[t].ret = th[t].ret /\ th'[t].ret2 = th[t].ret2 /\ th'[t].n = th[t].n
        /\ th'[t].mode = th[t].mode
    BY ONLY <2>5, <2>3 DEF Thread
  <2>7. order' = order /\ program' = program /\ head' = head /\ tail' = tail /\ node' = node
    BY ONLY program' = program, <1>2 DEF Goto, sync
  <2>8. LocalsSound(t)'
    BY <2>1, <2>3, <2>6, <2>7 DEF LocalsSound, PredPcs, LinkedPcs, Leaving, At, Call, Pcs, LivePcs,
       FirstPcs, RetiredPcs, CancelledPcs, AwaitPcs, UnparkPcs, SharedPcs, TransferPcs
  <2>9. ASSUME CancelledNodes' = CancelledNodes PROVE NodeSound(t)'
    BY <2>1, <2>6, <2>7, <2>9 DEF NodeSound, ThisLive, Fresh, Awaiting, Leaving, GivenUp, LinkedPcs,
       At, Call, Me, Pcs, LivePcs, FirstPcs, RetiredPcs, CancelledPcs, AwaitPcs, UnparkPcs,
       SharedPcs, TransferPcs
  <2>10. ~Claiming(t)' /\ (Awaiting(t) /\ Me(t) \notin Range(order) => Awaiting(t)')
    BY <2>1, <2>6, <2>7 DEF Claiming, Awaiting, At, Call, Me, Pcs, LivePcs, FirstPcs, RetiredPcs,
       CancelledPcs, AwaitPcs, UnparkPcs, SharedPcs, TransferPcs
  <2>11. Proceeds(t)
    BY ONLY <2>2, <2>4, <2>5, <2>6, <2>8, <2>9, <2>10, Zenon DEF Proceeds
  <2> QED BY <1>2, <2>11, MoveStep DEF Await
<1>3. CASE AddConditionWaiter(t) /\ (lastWaiter # NULL /\ node[lastWaiter].ws # CONDITION)
  <2>1. th[t].pc = "addwaiter"
    BY ONLY <1>3 DEF AddConditionWaiter, At
  <2> DEFINE L == [th[t] EXCEPT !.pc = "unlink", !.q = firstWaiter, !.ret = "append"]
  <2>2. th' = [th EXCEPT ![t] = L]
    BY <1>3, <2>1, Zenon DEF AddConditionWaiter, Goto
  <2>3. /\ th[t] \in Thread
        /\ "unlink" \in Pcs
        /\ firstWaiter \in Nodes \cup {NULL}
    BY <1>3, <2>1 DEF Pcs, LivePcs, FirstPcs, RetiredPcs, CancelledPcs, AwaitPcs, UnparkPcs,
       SharedPcs, TransferPcs, Rets, CondTypes
  <2>4. L \in Thread
    BY ONLY <2>3, Zenon DEF Thread, Rets
  <2>5. th'[t] = L
    BY ONLY <1>0, <2>2
  <2>6. /\ th'[t].pc = "unlink" /\ th'[t].i = th[t].i /\ th'[t].was = th[t].was
        /\ th'[t].pred = th[t].pred /\ th'[t].predNext = th[t].predNext /\ th'[t].ws = th[t].ws
        /\ th'[t].s = th[t].s /\ th'[t].q = firstWaiter /\ th'[t].h = th[t].h /\ th'[t].u = th[t].u
        /\ th'[t].ret = "append" /\ th'[t].ret2 = th[t].ret2 /\ th'[t].n = th[t].n
        /\ th'[t].mode = th[t].mode
    BY ONLY <2>5, <2>3 DEF Thread
  <2>7. order' = order /\ program' = program /\ head' = head /\ tail' = tail /\ node' = node
    BY ONLY program' = program, <1>3 DEF AddConditionWaiter, sync
  <2>8. LocalsSound(t)'
    BY <2>1, <2>3, <2>6, <2>7 DEF LocalsSound, PredPcs, LinkedPcs, Leaving, At, Call, Pcs, LivePcs,
       FirstPcs, RetiredPcs, CancelledPcs, AwaitPcs, UnparkPcs, SharedPcs, TransferPcs
  <2>9. ASSUME CancelledNodes' = CancelledNodes PROVE NodeSound(t)'
    BY <2>1, <2>6, <2>7, <2>9 DEF NodeSound, ThisLive, Fresh, Awaiting, Leaving, GivenUp, LinkedPcs,
       At, Call, Me, Pcs, LivePcs, FirstPcs, RetiredPcs, CancelledPcs, AwaitPcs, UnparkPcs,
       SharedPcs, TransferPcs
  <2>10. ~Claiming(t)' /\ (Awaiting(t) /\ Me(t) \notin Range(order) => Awaiting(t)')
    BY <2>1, <2>6, <2>7 DEF Claiming, Awaiting, At, Call, Me, Pcs, LivePcs, FirstPcs, RetiredPcs,
       CancelledPcs, AwaitPcs, UnparkPcs, SharedPcs, TransferPcs
  <2>11. Proceeds(t)
    BY ONLY <2>2, <2>4, <2>5, <2>6, <2>8, <2>9, <2>10, Zenon DEF Proceeds
  <2> QED BY <1>3, <2>11, MoveStep DEF AddConditionWaiter
<1>4. CASE AddConditionWaiter(t) /\ ~(lastWaiter # NULL /\ node[lastWaiter].ws # CONDITION)
  <2>1. th[t].pc = "addwaiter"
    BY ONLY <1>4 DEF AddConditionWaiter, At
  <2> DEFINE L == [th[t] EXCEPT !.pc = "append"]
  <2>2. th' = [th EXCEPT ![t] = L]
    BY <1>4, <2>1 DEF AddConditionWaiter, Goto
  <2>3. /\ th[t] \in Thread
        /\ "append" \in Pcs
    BY <1>4, <2>1 DEF Pcs, LivePcs, FirstPcs, RetiredPcs, CancelledPcs, AwaitPcs, UnparkPcs,
       SharedPcs, TransferPcs, Rets
  <2>4. L \in Thread
    BY ONLY <2>3 DEF Thread, Rets
  <2>5. th'[t] = L
    BY ONLY <1>0, <2>2
  <2>6. /\ th'[t].pc = "append" /\ th'[t].i = th[t].i /\ th'[t].was = th[t].was
        /\ th'[t].pred = th[t].pred /\ th'[t].predNext = th[t].predNext /\ th'[t].ws = th[t].ws
        /\ th'[t].s = th[t].s /\ th'[t].q = th[t].q /\ th'[t].h = th[t].h /\ th'[t].u = th[t].u
        /\ th'[t].ret = th[t].ret /\ th'[t].ret2 = th[t].ret2 /\ th'[t].n = th[t].n
        /\ th'[t].mode = th[t].mode
    BY ONLY <2>5, <2>3 DEF Thread
  <2>7. order' = order /\ program' = program /\ head' = head /\ tail' = tail /\ node' = node
    BY ONLY program' = program, <1>4 DEF AddConditionWaiter, sync
  <2>8. LocalsSound(t)'
    BY <2>1, <2>3, <2>6, <2>7 DEF LocalsSound, PredPcs, LinkedPcs, Leaving, At, Call, Pcs, LivePcs,
       FirstPcs, RetiredPcs, CancelledPcs, AwaitPcs, UnparkPcs, SharedPcs, TransferPcs
  <2>9. ASSUME CancelledNodes' = CancelledNodes PROVE NodeSound(t)'
    BY <2>1, <2>6, <2>7, <2>9 DEF NodeSound, ThisLive, Fresh, Awaiting, Leaving, GivenUp, LinkedPcs,
       At, Call, Me, Pcs, LivePcs, FirstPcs, RetiredPcs, CancelledPcs, AwaitPcs, UnparkPcs,
       SharedPcs, TransferPcs
  <2>10. ~Claiming(t)' /\ (Awaiting(t) /\ Me(t) \notin Range(order) => Awaiting(t)')
    BY <2>1, <2>6, <2>7 DEF Claiming, Awaiting, At, Call, Me, Pcs, LivePcs, FirstPcs, RetiredPcs,
       CancelledPcs, AwaitPcs, UnparkPcs, SharedPcs, TransferPcs
  <2>11. Proceeds(t)
    BY ONLY <2>2, <2>4, <2>5, <2>6, <2>8, <2>9, <2>10, Zenon DEF Proceeds
  <2> QED BY <1>4, <2>11, MoveStep DEF AddConditionWaiter
<1>5. CASE UnlinkCancelledWaiters(t) /\ th[t].q = NULL
  <2>1. th[t].pc = "unlink"
    BY ONLY <1>5, Zenon DEF UnlinkCancelledWaiters, At
  <2>2. th[t].ret \in {"append", "report"}
    BY <2>1 DEF LocalsSound, At
  <2> DEFINE L == [th[t] EXCEPT !.s = NULL, !.ret = NoRet, !.pc = th[t].ret]
  <2>3. PICK e : e = ""
    BY Zenon
  <2>4. th' = [th EXCEPT ![t].s = NULL, ![t].ret = e, ![t].pc = th[t].ret]
    BY <1>5, <2>3, Zenon DEF UnlinkCancelledWaiters
  <2>5. e = NoRet
    BY <1>5, <2>1, <2>2, <2>3, <2>4, Zenon DEF NoRet
  <2>6. th' = [th EXCEPT ![t] = L]
    BY <1>5, <2>1, <2>2, <2>3, <2>4, <2>5, Zenon DEF UnlinkCancelledWaiters, Goto
  <2>7. /\ th[t] \in Thread
        /\ NULL \in Nodes \cup {NULL}
        /\ NoRet \in Rets
        /\ th[t].ret \in Pcs
    BY <1>5, <2>1, <2>2 DEF Pcs, LivePcs, FirstPcs, RetiredPcs, CancelledPcs, AwaitPcs, UnparkPcs,
       SharedPcs, TransferPcs, Rets, Thread
  <2>8. L \in Thread
    BY ONLY <2>7, Zenon DEF Thread, Rets
  <2>9. th'[t] = L
    BY ONLY <1>0, <2>6
  <2>10. /\ th'[t].pc = th[t].ret /\ th'[t].i = th[t].i /\ th'[t].was = th[t].was
         /\ th'[t].pred = th[t].pred /\ th'[t].predNext = th[t].predNext /\ th'[t].ws = th[t].ws
         /\ th'[t].s = NULL /\ th'[t].q = th[t].q /\ th'[t].h = th[t].h /\ th'[t].u = th[t].u
         /\ th'[t].ret = NoRet /\ th'[t].ret2 = th[t].ret2 /\ th'[t].n = th[t].n
         /\ th'[t].mode = th[t].mode
    BY ONLY <2>9, <2>7 DEF Thread
  <2>11. order' = order /\ program' = program /\ head' = head /\ tail' = tail /\ node' = node
    BY ONLY program' = program, <1>5, Zenon DEF UnlinkCancelledWaiters, sync
  <2>12. LocalsSound(t)'
    BY <2>1, <2>2, <2>7, <2>10, <2>11 DEF LocalsSound, PredPcs, LinkedPcs, Leaving, At, Call, Pcs,
       LivePcs, FirstPcs, RetiredPcs, CancelledPcs, AwaitPcs, UnparkPcs, SharedPcs, TransferPcs
  <2>13. ASSUME CancelledNodes' = CancelledNodes PROVE NodeSound(t)'
    BY <2>1, <2>2, <2>10, <2>11, <2>13 DEF NodeSound, ThisLive, Fresh, Awaiting, Leaving, GivenUp,
       LinkedPcs, At, Call, Me, Pcs, LivePcs, FirstPcs, RetiredPcs, CancelledPcs, AwaitPcs,
       UnparkPcs, SharedPcs, TransferPcs
  <2>14. ~Claiming(t)' /\ (Awaiting(t) /\ Me(t) \notin Range(order) => Awaiting(t)')
    BY <2>1, <2>2, <2>10, <2>11 DEF Claiming, Awaiting, At, Call, Me, Pcs, LivePcs, FirstPcs,
       RetiredPcs, CancelledPcs, AwaitPcs, UnparkPcs, SharedPcs, TransferPcs
  <2>15. Proceeds(t)
    BY ONLY <2>6, <2>8, <2>9, <2>10, <2>12, <2>13, <2>14, Zenon DEF Proceeds
  <2> QED BY <1>5, <2>15, MoveStep, Zenon DEF UnlinkCancelledWaiters
<1>6. CASE UnlinkCancelledWaiters(t) /\ (th[t].q # NULL /\ node[th[t].q].ws # CONDITION)
  <2>1. th[t].pc = "unlink"
    BY ONLY <1>6, Zenon DEF UnlinkCancelledWaiters, At
  <2>2. th[t].q \in Nodes
    BY <1>6 DEF Thread
  <2> DEFINE q == nextWaiter[th[t].q]
  <2> DEFINE L == [th[t] EXCEPT !.q = q]
  <2>3. th' = [th EXCEPT ![t] = L]
    BY <1>6, <2>1, <2>2, Zenon DEF UnlinkCancelledWaiters, Goto
  <2>4. /\ th[t] \in Thread
        /\ q \in Nodes \cup {NULL}
    BY <1>6, <2>1, <2>2 DEF Pcs, LivePcs, FirstPcs, RetiredPcs, CancelledPcs, AwaitPcs, UnparkPcs,
       SharedPcs, TransferPcs, Rets, CondTypes
  <2>5. L \in Thread
    <3> HIDE DEF q
    <3> QED BY ONLY <2>4 DEF Thread, Rets
  <2>6. th'[t] = L
    BY ONLY <1>0, <2>3
  <2>7. /\ th'[t].pc = th[t].pc /\ th'[t].i = th[t].i /\ th'[t].was = th[t].was
        /\ th'[t].pred = th[t].pred /\ th'[t].predNext = th[t].predNext /\ th'[t].ws = th[t].ws
        /\ th'[t].s = th[t].s /\ th'[t].q = q /\ th'[t].h = th[t].h /\ th'[t].u = th[t].u
        /\ th'[t].ret = th[t].ret /\ th'[t].ret2 = th[t].ret2 /\ th'[t].n = th[t].n
        /\ th'[t].mode = th[t].mode
    BY ONLY <2>6, <2>4 DEF Thread
  <2>8. order' = order /\ program' = program /\ head' = head /\ tail' = tail /\ node' = node
    BY ONLY program' = program, <1>6, Zenon DEF UnlinkCancelledWaiters, sync
  <2>9. LocalsSound(t)'
    BY <2>1, <2>2, <2>4, <2>7, <2>8 DEF LocalsSound, PredPcs, LinkedPcs, Leaving, At, Call, Pcs,
       LivePcs, FirstPcs, RetiredPcs, CancelledPcs, AwaitPcs, UnparkPcs, SharedPcs, TransferPcs
  <2>10. ASSUME CancelledNodes' = CancelledNodes PROVE NodeSound(t)'
    BY <2>1, <2>2, <2>7, <2>8, <2>10 DEF NodeSound, ThisLive, Fresh, Awaiting, Leaving, GivenUp,
       LinkedPcs, At, Call, Me, Pcs, LivePcs, FirstPcs, RetiredPcs, CancelledPcs, AwaitPcs,
       UnparkPcs, SharedPcs, TransferPcs
  <2>11. ~Claiming(t)' /\ (Awaiting(t) /\ Me(t) \notin Range(order) => Awaiting(t)')
    BY <2>1, <2>2, <2>7, <2>8 DEF Claiming, Awaiting, At, Call, Me, Pcs, LivePcs, FirstPcs,
       RetiredPcs, CancelledPcs, AwaitPcs, UnparkPcs, SharedPcs, TransferPcs
  <2>12. Proceeds(t)
    BY ONLY <2>3, <2>5, <2>6, <2>7, <2>9, <2>10, <2>11, Zenon DEF Proceeds
  <2> QED BY <1>6, <2>12, MoveStep, Zenon DEF UnlinkCancelledWaiters
<1>7. CASE UnlinkCancelledWaiters(t) /\ (th[t].q # NULL /\ node[th[t].q].ws = CONDITION)
  <2>1. th[t].pc = "unlink"
    BY ONLY <1>7, Zenon DEF UnlinkCancelledWaiters, At
  <2>2. th[t].q \in Nodes
    BY <1>7 DEF Thread
  <2> DEFINE q == nextWaiter[th[t].q]
  <2> DEFINE L == [th[t] EXCEPT !.q = q, !.s = th[t].q]
  <2>3. th' = [th EXCEPT ![t] = L]
    BY <1>7, <2>1, <2>2, Zenon DEF UnlinkCancelledWaiters, Goto
  <2>4. /\ th[t] \in Thread
        /\ q \in Nodes \cup {NULL}
        /\ th[t].q \in Nodes \cup {NULL}
    BY <1>7, <2>1, <2>2 DEF Pcs, LivePcs, FirstPcs, RetiredPcs, CancelledPcs, AwaitPcs, UnparkPcs,
       SharedPcs, TransferPcs, Rets, CondTypes, Thread
  <2>5. L \in Thread
    <3> HIDE DEF q
    <3> QED BY ONLY <2>4, Zenon DEF Thread, Rets
  <2>6. th'[t] = L
    BY ONLY <1>0, <2>3
  <2>7. /\ th'[t].pc = th[t].pc /\ th'[t].i = th[t].i /\ th'[t].was = th[t].was
        /\ th'[t].pred = th[t].pred /\ th'[t].predNext = th[t].predNext /\ th'[t].ws = th[t].ws
        /\ th'[t].s = th[t].q /\ th'[t].q = q /\ th'[t].h = th[t].h /\ th'[t].u = th[t].u
        /\ th'[t].ret = th[t].ret /\ th'[t].ret2 = th[t].ret2 /\ th'[t].n = th[t].n
        /\ th'[t].mode = th[t].mode
    BY ONLY <2>6, <2>4 DEF Thread
  <2>8. order' = order /\ program' = program /\ head' = head /\ tail' = tail /\ node' = node
    BY ONLY program' = program, <1>7, Zenon DEF UnlinkCancelledWaiters, sync
  <2>9. LocalsSound(t)'
    BY <2>1, <2>2, <2>4, <2>7, <2>8 DEF LocalsSound, PredPcs, LinkedPcs, Leaving, At, Call, Pcs,
       LivePcs, FirstPcs, RetiredPcs, CancelledPcs, AwaitPcs, UnparkPcs, SharedPcs, TransferPcs
  <2>10. ASSUME CancelledNodes' = CancelledNodes PROVE NodeSound(t)'
    BY <2>1, <2>2, <2>7, <2>8, <2>10 DEF NodeSound, ThisLive, Fresh, Awaiting, Leaving, GivenUp,
       LinkedPcs, At, Call, Me, Pcs, LivePcs, FirstPcs, RetiredPcs, CancelledPcs, AwaitPcs,
       UnparkPcs, SharedPcs, TransferPcs
  <2>11. ~Claiming(t)' /\ (Awaiting(t) /\ Me(t) \notin Range(order) => Awaiting(t)')
    BY <2>1, <2>2, <2>7, <2>8 DEF Claiming, Awaiting, At, Call, Me, Pcs, LivePcs, FirstPcs,
       RetiredPcs, CancelledPcs, AwaitPcs, UnparkPcs, SharedPcs, TransferPcs
  <2>12. Proceeds(t)
    BY ONLY <2>3, <2>5, <2>6, <2>7, <2>9, <2>10, <2>11, Zenon DEF Proceeds
  <2> QED BY <1>7, <2>12, MoveStep, Zenon DEF UnlinkCancelledWaiters
<1>8. CASE OnSyncQueue(t)
  <2>1. th[t].pc = "onqueue" /\ th[t].pc \in AwaitPcs
    BY ONLY <1>8 DEF OnSyncQueue, NotOnSyncQueue, Goto, AwaitPcs, At
  <2>2. PICK pc \in {"onqueue", "onqueue_prev", "onqueue_next", "cpark", "cancelwait"} :
             th' = [th EXCEPT ![t].pc = pc]
    BY <1>8, <2>1, Zenon DEF OnSyncQueue, NotOnSyncQueue, Goto, AwaitPcs
  <2> DEFINE L == [th[t] EXCEPT !.pc = pc]
  <2>3. th' = [th EXCEPT ![t] = L]
    BY <1>8, <2>1, <2>2, Zenon DEF OnSyncQueue, NotOnSyncQueue, Goto, AwaitPcs, Goto
  <2>4. /\ th[t] \in Thread
        /\ pc \in Pcs
    BY <1>8, <2>1, <2>2 DEF Pcs, LivePcs, FirstPcs, RetiredPcs, CancelledPcs, AwaitPcs, UnparkPcs,
       SharedPcs, TransferPcs, Rets
  <2>5. L \in Thread
    BY ONLY <2>4 DEF Thread, Rets
  <2>6. th'[t] = L
    BY ONLY <1>0, <2>3
  <2>7. /\ th'[t].pc = pc /\ th'[t].i = th[t].i /\ th'[t].was = th[t].was /\ th'[t].pred = th[t].pred
        /\ th'[t].predNext = th[t].predNext /\ th'[t].ws = th[t].ws /\ th'[t].s = th[t].s
        /\ th'[t].q = th[t].q /\ th'[t].h = th[t].h /\ th'[t].u = th[t].u /\ th'[t].ret = th[t].ret
        /\ th'[t].ret2 = th[t].ret2 /\ th'[t].n = th[t].n /\ th'[t].mode = th[t].mode
    BY ONLY <2>6, <2>4 DEF Thread
  <2>8. order' = order /\ program' = program /\ head' = head /\ tail' = tail /\ node' = node
    BY ONLY program' = program, <1>8 DEF OnSyncQueue, NotOnSyncQueue, Goto, AwaitPcs, sync
  <2>9. LocalsSound(t)'
    BY <2>1, <2>2, <2>4, <2>7, <2>8 DEF LocalsSound, PredPcs, LinkedPcs, Leaving, At, Call, Pcs,
       LivePcs, FirstPcs, RetiredPcs, CancelledPcs, AwaitPcs, UnparkPcs, SharedPcs, TransferPcs
  <2>10. ASSUME CancelledNodes' = CancelledNodes PROVE NodeSound(t)'
    BY <2>1, <2>2, <2>7, <2>8, <2>10 DEF NodeSound, ThisLive, Fresh, Awaiting, Leaving, GivenUp,
       LinkedPcs, At, Call, Me, Pcs, LivePcs, FirstPcs, RetiredPcs, CancelledPcs, AwaitPcs,
       UnparkPcs, SharedPcs, TransferPcs
  <2>11. ~Claiming(t)' /\ (Awaiting(t) /\ Me(t) \notin Range(order) => Awaiting(t)')
    BY <2>1, <2>2, <2>7, <2>8 DEF Claiming, Awaiting, At, Call, Me, Pcs, LivePcs, FirstPcs,
       RetiredPcs, CancelledPcs, AwaitPcs, UnparkPcs, SharedPcs, TransferPcs
  <2>12. Proceeds(t)
    BY ONLY <2>3, <2>5, <2>6, <2>7, <2>9, <2>10, <2>11, Zenon DEF Proceeds
  <2> QED BY <1>8, <2>12, MoveStep DEF OnSyncQueue
<1>9. CASE OnSyncQueuePrev(t)
  <2>1. th[t].pc = "onqueue_prev" /\ th[t].pc \in AwaitPcs
    BY ONLY <1>9 DEF OnSyncQueuePrev, NotOnSyncQueue, Goto, AwaitPcs, At
  <2>2. PICK pc \in {"onqueue", "onqueue_prev", "onqueue_next", "cpark", "cancelwait"} :
             th' = [th EXCEPT ![t].pc = pc]
    BY <1>9, <2>1, Zenon DEF OnSyncQueuePrev, NotOnSyncQueue, Goto, AwaitPcs
  <2> DEFINE L == [th[t] EXCEPT !.pc = pc]
  <2>3. th' = [th EXCEPT ![t] = L]
    BY <1>9, <2>1, <2>2, Zenon DEF OnSyncQueuePrev, NotOnSyncQueue, Goto, AwaitPcs, Goto
  <2>4. /\ th[t] \in Thread
        /\ pc \in Pcs
    BY <1>9, <2>1, <2>2 DEF Pcs, LivePcs, FirstPcs, RetiredPcs, CancelledPcs, AwaitPcs, UnparkPcs,
       SharedPcs, TransferPcs, Rets
  <2>5. L \in Thread
    BY ONLY <2>4 DEF Thread, Rets
  <2>6. th'[t] = L
    BY ONLY <1>0, <2>3
  <2>7. /\ th'[t].pc = pc /\ th'[t].i = th[t].i /\ th'[t].was = th[t].was /\ th'[t].pred = th[t].pred
        /\ th'[t].predNext = th[t].predNext /\ th'[t].ws = th[t].ws /\ th'[t].s = th[t].s
        /\ th'[t].q = th[t].q /\ th'[t].h = th[t].h /\ th'[t].u = th[t].u /\ th'[t].ret = th[t].ret
        /\ th'[t].ret2 = th[t].ret2 /\ th'[t].n = th[t].n /\ th'[t].mode = th[t].mode
    BY ONLY <2>6, <2>4 DEF Thread
  <2>8. order' = order /\ program' = program /\ head' = head /\ tail' = tail /\ node' = node
    BY ONLY program' = program, <1>9 DEF OnSyncQueuePrev, NotOnSyncQueue, Goto, AwaitPcs, sync
  <2>9. LocalsSound(t)'
    BY <2>1, <2>2, <2>4, <2>7, <2>8 DEF LocalsSound, PredPcs, LinkedPcs, Leaving, At, Call, Pcs,
       LivePcs, FirstPcs, RetiredPcs, CancelledPcs, AwaitPcs, UnparkPcs, SharedPcs, TransferPcs
  <2>10. ASSUME CancelledNodes' = CancelledNodes PROVE NodeSound(t)'
    BY <2>1, <2>2, <2>7, <2>8, <2>10 DEF NodeSound, ThisLive, Fresh, Awaiting, Leaving, GivenUp,
       LinkedPcs, At, Call, Me, Pcs, LivePcs, FirstPcs, RetiredPcs, CancelledPcs, AwaitPcs,
       UnparkPcs, SharedPcs, TransferPcs
  <2>11. ~Claiming(t)' /\ (Awaiting(t) /\ Me(t) \notin Range(order) => Awaiting(t)')
    BY <2>1, <2>2, <2>7, <2>8 DEF Claiming, Awaiting, At, Call, Me, Pcs, LivePcs, FirstPcs,
       RetiredPcs, CancelledPcs, AwaitPcs, UnparkPcs, SharedPcs, TransferPcs
  <2>12. Proceeds(t)
    BY ONLY <2>3, <2>5, <2>6, <2>7, <2>9, <2>10, <2>11, Zenon DEF Proceeds
  <2> QED BY <1>9, <2>12, MoveStep DEF OnSyncQueuePrev
<1>10. CASE OnSyncQueueNext(t) /\ node[Me(t)].next # NULL
  <2>1. th[t].pc = "onqueue_next" /\ th[t].pc \in AwaitPcs
    BY ONLY <1>10 DEF OnSyncQueueNext, AwaitPcs, At
  <2>2. ThisLive(Me(t)) /\ Me(t) \in Range(order)
    BY <1>10, <2>1, Arrived
  <2> DEFINE L == FreshAt("loop", th[t].i, th[t].was, th[t].mode, NULL, NULL, NoRet)
  <2>3. th' = [th EXCEPT ![t] = L]
    BY <1>10, <2>1, <2>2, Continuations, Zenon DEF OnSyncQueueNext, AwaitPcs, Goto
  <2>4. /\ th[t] \in Thread
        /\ "loop" \in Pcs
        /\ th[t].i \in Nat \ {0}
        /\ th[t].was \in BOOLEAN
        /\ th[t].mode \in {"none", "THROW_IE", "REINTERRUPT"}
        /\ NULL \in Nodes \cup {NULL}
        /\ NULL \in Nodes \cup {NULL}
        /\ NoRet \in Rets
    BY <1>10, <2>1, <2>2 DEF Pcs, LivePcs, FirstPcs, RetiredPcs, CancelledPcs, AwaitPcs, UnparkPcs,
       SharedPcs, TransferPcs, Rets, Thread
  <2>5. /\ L \in Thread
        /\ L.pc = "loop" /\ L.i = th[t].i /\ L.was = th[t].was /\ L.pred = NULL /\ L.predNext = NULL
        /\ L.ws = 0 /\ L.s = NULL /\ L.q = NULL /\ L.h = NULL /\ L.u = NULL /\ L.ret = NoRet
        /\ L.ret2 = NoRet /\ L.n = NULL /\ L.mode = th[t].mode
    <3>1. L = [pc |-> "loop", i |-> th[t].i, was |-> th[t].was, pred |-> NULL,
              predNext |-> NULL, ws |-> 0, s |-> NULL, q |-> NULL, h |-> NULL, u |-> NULL,
              ret |-> NoRet, ret2 |-> NoRet, n |-> NULL, mode |-> th[t].mode]
      BY ONLY DEF FreshAt
    <3> HIDE DEF L
    <3>2. L \in Thread
      BY ONLY <3>1, <2>4 DEF Thread
    <3> QED BY ONLY <3>1, <3>2
  <2> HIDE DEF L
  <2>6. th'[t] = L
    BY ONLY <1>0, <2>3
  <2>7. /\ th'[t].pc = "loop" /\ th'[t].i = th[t].i /\ th'[t].was = th[t].was /\ th'[t].pred = NULL
        /\ th'[t].predNext = NULL /\ th'[t].ws = 0 /\ th'[t].s = NULL /\ th'[t].q = NULL
        /\ th'[t].h = NULL /\ th'[t].u = NULL /\ th'[t].ret = NoRet /\ th'[t].ret2 = NoRet
        /\ th'[t].n = NULL /\ th'[t].mode = th[t].mode
    BY ONLY <2>6, <2>5
  <2>8. order' = order /\ program' = program /\ head' = head /\ tail' = tail /\ node' = node
    BY ONLY program' = program, <1>10 DEF OnSyncQueueNext, AwaitPcs, sync
  <2>9. LocalsSound(t)'
    BY <2>1, <2>2, <2>4, <2>7, <2>8 DEF LocalsSound, PredPcs, LinkedPcs, Leaving, At, Call, Pcs,
       LivePcs, FirstPcs, RetiredPcs, CancelledPcs, AwaitPcs, UnparkPcs, SharedPcs, TransferPcs
  <2>10. ASSUME CancelledNodes' = CancelledNodes PROVE NodeSound(t)'
    BY <2>1, <2>2, <2>7, <2>8, <2>10 DEF NodeSound, ThisLive, Fresh, Awaiting, Leaving, GivenUp,
       LinkedPcs, At, Call, Me, Pcs, LivePcs, FirstPcs, RetiredPcs, CancelledPcs, AwaitPcs,
       UnparkPcs, SharedPcs, TransferPcs
  <2>11. ~Claiming(t)' /\ (Awaiting(t) /\ Me(t) \notin Range(order) => Awaiting(t)')
    BY <2>1, <2>2, <2>7, <2>8 DEF Claiming, Awaiting, At, Call, Me, Pcs, LivePcs, FirstPcs,
       RetiredPcs, CancelledPcs, AwaitPcs, UnparkPcs, SharedPcs, TransferPcs
  <2>12. Proceeds(t)
    BY ONLY <2>3, <2>5, <2>6, <2>7, <2>9, <2>10, <2>11, Zenon DEF Proceeds
  <2> QED BY <1>10, <2>12, MoveStep DEF OnSyncQueueNext
<1>11. CASE OnSyncQueueNext(t) /\ node[Me(t)].next = NULL
  <2>1. th[t].pc = "onqueue_next" /\ th[t].pc \in AwaitPcs
    BY ONLY <1>11 DEF OnSyncQueueNext, AwaitPcs, At
  <2> DEFINE L == [th[t] EXCEPT !.pc = "find"]
  <2>2. th' = [th EXCEPT ![t] = L]
    BY <1>11, <2>1 DEF OnSyncQueueNext, AwaitPcs, Goto
  <2>3. /\ th[t] \in Thread
        /\ "find" \in Pcs
    BY <1>11, <2>1 DEF Pcs, LivePcs, FirstPcs, RetiredPcs, CancelledPcs, AwaitPcs, UnparkPcs,
       SharedPcs, TransferPcs, Rets
  <2>4. L \in Thread
    BY ONLY <2>3 DEF Thread, Rets
  <2>5. th'[t] = L
    BY ONLY <1>0, <2>2
  <2>6. /\ th'[t].pc = "find" /\ th'[t].i = th[t].i /\ th'[t].was = th[t].was
        /\ th'[t].pred = th[t].pred /\ th'[t].predNext = th[t].predNext /\ th'[t].ws = th[t].ws
        /\ th'[t].s = th[t].s /\ th'[t].q = th[t].q /\ th'[t].h = th[t].h /\ th'[t].u = th[t].u
        /\ th'[t].ret = th[t].ret /\ th'[t].ret2 = th[t].ret2 /\ th'[t].n = th[t].n
        /\ th'[t].mode = th[t].mode
    BY ONLY <2>5, <2>3 DEF Thread
  <2>7. order' = order /\ program' = program /\ head' = head /\ tail' = tail /\ node' = node
    BY ONLY program' = program, <1>11 DEF OnSyncQueueNext, AwaitPcs, sync
  <2>8. LocalsSound(t)'
    BY <2>1, <2>3, <2>6, <2>7 DEF LocalsSound, PredPcs, LinkedPcs, Leaving, At, Call, Pcs, LivePcs,
       FirstPcs, RetiredPcs, CancelledPcs, AwaitPcs, UnparkPcs, SharedPcs, TransferPcs
  <2>9. ASSUME CancelledNodes' = CancelledNodes PROVE NodeSound(t)'
    BY <2>1, <2>6, <2>7, <2>9 DEF NodeSound, ThisLive, Fresh, Awaiting, Leaving, GivenUp, LinkedPcs,
       At, Call, Me, Pcs, LivePcs, FirstPcs, RetiredPcs, CancelledPcs, AwaitPcs, UnparkPcs,
       SharedPcs, TransferPcs
  <2>10. ~Claiming(t)' /\ (Awaiting(t) /\ Me(t) \notin Range(order) => Awaiting(t)')
    BY <2>1, <2>6, <2>7 DEF Claiming, Awaiting, At, Call, Me, Pcs, LivePcs, FirstPcs, RetiredPcs,
       CancelledPcs, AwaitPcs, UnparkPcs, SharedPcs, TransferPcs
  <2>11. Proceeds(t)
    BY ONLY <2>2, <2>4, <2>5, <2>6, <2>8, <2>9, <2>10, Zenon DEF Proceeds
  <2> QED BY <1>11, <2>11, MoveStep DEF OnSyncQueueNext
<1>12. CASE FindNodeFromTail(t)
  <2>1. th[t].pc = "find" /\ th[t].pc \in AwaitPcs
    BY ONLY <1>12 DEF FindNodeFromTail, AwaitPcs, At
  <2>2. tail \in Queued(order) \cup {NULL}
    BY LinksQueued
  <2> DEFINE L == [th[t] EXCEPT !.pc = "find_scan", !.q = tail]
  <2>3. th' = [th EXCEPT ![t] = L]
    BY <1>12, <2>1, <2>2, Zenon DEF FindNodeFromTail, AwaitPcs, Goto
  <2>4. /\ th[t] \in Thread
        /\ "find_scan" \in Pcs
        /\ tail \in Nodes \cup {NULL}
    BY <1>12, <2>1, <2>2 DEF Pcs, LivePcs, FirstPcs, RetiredPcs, CancelledPcs, AwaitPcs, UnparkPcs,
       SharedPcs, TransferPcs, Rets
  <2>5. L \in Thread
    BY ONLY <2>4, Zenon DEF Thread, Rets
  <2>6. th'[t] = L
    BY ONLY <1>0, <2>3
  <2>7. /\ th'[t].pc = "find_scan" /\ th'[t].i = th[t].i /\ th'[t].was = th[t].was
        /\ th'[t].pred = th[t].pred /\ th'[t].predNext = th[t].predNext /\ th'[t].ws = th[t].ws
        /\ th'[t].s = th[t].s /\ th'[t].q = tail /\ th'[t].h = th[t].h /\ th'[t].u = th[t].u
        /\ th'[t].ret = th[t].ret /\ th'[t].ret2 = th[t].ret2 /\ th'[t].n = th[t].n
        /\ th'[t].mode = th[t].mode
    BY ONLY <2>6, <2>4 DEF Thread
  <2>8. order' = order /\ program' = program /\ head' = head /\ tail' = tail /\ node' = node
    BY ONLY program' = program, <1>12 DEF FindNodeFromTail, AwaitPcs, sync
  <2>9. LocalsSound(t)'
    BY <2>1, <2>2, <2>4, <2>7, <2>8 DEF LocalsSound, PredPcs, LinkedPcs, Leaving, At, Call, Pcs,
       LivePcs, FirstPcs, RetiredPcs, CancelledPcs, AwaitPcs, UnparkPcs, SharedPcs, TransferPcs
  <2>10. ASSUME CancelledNodes' = CancelledNodes PROVE NodeSound(t)'
    BY <2>1, <2>2, <2>7, <2>8, <2>10 DEF NodeSound, ThisLive, Fresh, Awaiting, Leaving, GivenUp,
       LinkedPcs, At, Call, Me, Pcs, LivePcs, FirstPcs, RetiredPcs, CancelledPcs, AwaitPcs,
       UnparkPcs, SharedPcs, TransferPcs
  <2>11. ~Claiming(t)' /\ (Awaiting(t) /\ Me(t) \notin Range(order) => Awaiting(t)')
    BY <2>1, <2>2, <2>7, <2>8 DEF Claiming, Awaiting, At, Call, Me, Pcs, LivePcs, FirstPcs,
       RetiredPcs, CancelledPcs, AwaitPcs, UnparkPcs, SharedPcs, TransferPcs
  <2>12. Proceeds(t)
    BY ONLY <2>3, <2>5, <2>6, <2>7, <2>9, <2>10, <2>11, Zenon DEF Proceeds
  <2> QED BY <1>12, <2>12, MoveStep DEF FindNodeFromTail
<1>13. CASE FindNodeScan(t) /\ th[t].q = Me(t)
  <2>1. th[t].pc = "find_scan" /\ th[t].pc \in AwaitPcs
    BY ONLY <1>13 DEF FindNodeScan, AwaitPcs, At
  <2>2. th[t].q \in Queued(order)
    BY <1>13, <2>1 DEF LocalsSound, At
  <2>3. ThisLive(Me(t)) /\ Me(t) \in Range(order)
    BY <1>13, <2>2, <2>1, Arrived
  <2> DEFINE L == FreshAt("loop", th[t].i, th[t].was, th[t].mode, NULL, NULL, NoRet)
  <2>4. th' = [th EXCEPT ![t] = L]
    BY <1>13, <2>1, <2>2, <2>3, Continuations, Zenon DEF FindNodeScan, AwaitPcs, Goto
  <2>5. /\ th[t] \in Thread
        /\ "loop" \in Pcs
        /\ th[t].i \in Nat \ {0}
        /\ th[t].was \in BOOLEAN
        /\ th[t].mode \in {"none", "THROW_IE", "REINTERRUPT"}
        /\ NULL \in Nodes \cup {NULL}
        /\ NULL \in Nodes \cup {NULL}
        /\ NoRet \in Rets
    BY <1>13, <2>1, <2>2, <2>3 DEF Pcs, LivePcs, FirstPcs, RetiredPcs, CancelledPcs, AwaitPcs,
       UnparkPcs, SharedPcs, TransferPcs, Rets, Thread
  <2>6. /\ L \in Thread
        /\ L.pc = "loop" /\ L.i = th[t].i /\ L.was = th[t].was /\ L.pred = NULL /\ L.predNext = NULL
        /\ L.ws = 0 /\ L.s = NULL /\ L.q = NULL /\ L.h = NULL /\ L.u = NULL /\ L.ret = NoRet
        /\ L.ret2 = NoRet /\ L.n = NULL /\ L.mode = th[t].mode
    <3>1. L = [pc |-> "loop", i |-> th[t].i, was |-> th[t].was, pred |-> NULL,
              predNext |-> NULL, ws |-> 0, s |-> NULL, q |-> NULL, h |-> NULL, u |-> NULL,
              ret |-> NoRet, ret2 |-> NoRet, n |-> NULL, mode |-> th[t].mode]
      BY ONLY DEF FreshAt
    <3> HIDE DEF L
    <3>2. L \in Thread
      BY ONLY <3>1, <2>5 DEF Thread
    <3> QED BY ONLY <3>1, <3>2
  <2> HIDE DEF L
  <2>7. th'[t] = L
    BY ONLY <1>0, <2>4
  <2>8. /\ th'[t].pc = "loop" /\ th'[t].i = th[t].i /\ th'[t].was = th[t].was /\ th'[t].pred = NULL
        /\ th'[t].predNext = NULL /\ th'[t].ws = 0 /\ th'[t].s = NULL /\ th'[t].q = NULL
        /\ th'[t].h = NULL /\ th'[t].u = NULL /\ th'[t].ret = NoRet /\ th'[t].ret2 = NoRet
        /\ th'[t].n = NULL /\ th'[t].mode = th[t].mode
    BY ONLY <2>7, <2>6
  <2>9. order' = order /\ program' = program /\ head' = head /\ tail' = tail /\ node' = node
    BY ONLY program' = program, <1>13 DEF FindNodeScan, AwaitPcs, sync
  <2>10. LocalsSound(t)'
    BY <2>1, <2>2, <2>3, <2>5, <2>8, <2>9 DEF LocalsSound, PredPcs, LinkedPcs, Leaving, At, Call,
       Pcs, LivePcs, FirstPcs, RetiredPcs, CancelledPcs, AwaitPcs, UnparkPcs, SharedPcs, TransferPcs
  <2>11. ASSUME CancelledNodes' = CancelledNodes PROVE NodeSound(t)'
    BY <2>1, <2>2, <2>3, <2>8, <2>9, <2>11 DEF NodeSound, ThisLive, Fresh, Awaiting, Leaving,
       GivenUp, LinkedPcs, At, Call, Me, Pcs, LivePcs, FirstPcs, RetiredPcs, CancelledPcs, AwaitPcs,
       UnparkPcs, SharedPcs, TransferPcs
  <2>12. ~Claiming(t)' /\ (Awaiting(t) /\ Me(t) \notin Range(order) => Awaiting(t)')
    BY <2>1, <2>2, <2>3, <2>8, <2>9 DEF Claiming, Awaiting, At, Call, Me, Pcs, LivePcs, FirstPcs,
       RetiredPcs, CancelledPcs, AwaitPcs, UnparkPcs, SharedPcs, TransferPcs
  <2>13. Proceeds(t)
    BY ONLY <2>4, <2>6, <2>7, <2>8, <2>10, <2>11, <2>12, Zenon DEF Proceeds
  <2> QED BY <1>13, <2>13, MoveStep DEF FindNodeScan
<1>14. CASE FindNodeScan(t) /\ th[t].q = NULL
  <2>1. th[t].pc = "find_scan" /\ th[t].pc \in AwaitPcs
    BY ONLY <1>14 DEF FindNodeScan, NotOnSyncQueue, Goto, AwaitPcs, At
  <2>2. Me(t) # NULL /\ th[t].q = NULL
    BY <1>14
  <2>3. PICK pc \in {"onqueue", "onqueue_prev", "onqueue_next", "cpark", "cancelwait"} :
             th' = [th EXCEPT ![t].pc = pc]
    BY <1>14, <2>1, <2>2 DEF FindNodeScan, NotOnSyncQueue, Goto, AwaitPcs
  <2> DEFINE L == [th[t] EXCEPT !.pc = pc]
  <2>4. th' = [th EXCEPT ![t] = L]
    BY <1>14, <2>1, <2>2, <2>3 DEF FindNodeScan, NotOnSyncQueue, Goto, AwaitPcs, Goto
  <2>5. /\ th[t] \in Thread
        /\ pc \in Pcs
    BY <1>14, <2>1, <2>2, <2>3 DEF Pcs, LivePcs, FirstPcs, RetiredPcs, CancelledPcs, AwaitPcs,
       UnparkPcs, SharedPcs, TransferPcs, Rets
  <2>6. L \in Thread
    BY ONLY <2>5 DEF Thread, Rets
  <2>7. th'[t] = L
    BY ONLY <1>0, <2>4
  <2>8. /\ th'[t].pc = pc /\ th'[t].i = th[t].i /\ th'[t].was = th[t].was /\ th'[t].pred = th[t].pred
        /\ th'[t].predNext = th[t].predNext /\ th'[t].ws = th[t].ws /\ th'[t].s = th[t].s
        /\ th'[t].q = th[t].q /\ th'[t].h = th[t].h /\ th'[t].u = th[t].u /\ th'[t].ret = th[t].ret
        /\ th'[t].ret2 = th[t].ret2 /\ th'[t].n = th[t].n /\ th'[t].mode = th[t].mode
    BY ONLY <2>7, <2>5 DEF Thread
  <2>9. order' = order /\ program' = program /\ head' = head /\ tail' = tail /\ node' = node
    BY ONLY program' = program, <1>14 DEF FindNodeScan, NotOnSyncQueue, Goto, AwaitPcs, sync
  <2>10. LocalsSound(t)'
    BY <2>1, <2>2, <2>3, <2>5, <2>8, <2>9 DEF LocalsSound, PredPcs, LinkedPcs, Leaving, At, Call,
       Pcs, LivePcs, FirstPcs, RetiredPcs, CancelledPcs, AwaitPcs, UnparkPcs, SharedPcs, TransferPcs
  <2>11. ASSUME CancelledNodes' = CancelledNodes PROVE NodeSound(t)'
    BY <2>1, <2>2, <2>3, <2>8, <2>9, <2>11 DEF NodeSound, ThisLive, Fresh, Awaiting, Leaving,
       GivenUp, LinkedPcs, At, Call, Me, Pcs, LivePcs, FirstPcs, RetiredPcs, CancelledPcs, AwaitPcs,
       UnparkPcs, SharedPcs, TransferPcs
  <2>12. ~Claiming(t)' /\ (Awaiting(t) /\ Me(t) \notin Range(order) => Awaiting(t)')
    BY <2>1, <2>2, <2>3, <2>8, <2>9 DEF Claiming, Awaiting, At, Call, Me, Pcs, LivePcs, FirstPcs,
       RetiredPcs, CancelledPcs, AwaitPcs, UnparkPcs, SharedPcs, TransferPcs
  <2>13. Proceeds(t)
    BY ONLY <2>4, <2>6, <2>7, <2>8, <2>10, <2>11, <2>12, Zenon DEF Proceeds
  <2> QED BY <1>14, <2>13, MoveStep DEF FindNodeScan
<1>15. CASE FindNodeScan(t) /\ th[t].q \notin {Me(t), NULL}
  <2>1. th[t].pc = "find_scan" /\ th[t].pc \in AwaitPcs
    BY ONLY <1>15 DEF FindNodeScan, AwaitPcs, At
  <2>2. th[t].q \in Queued(order) /\ th[t].q \in Nodes
    BY <1>15, <2>1 DEF LocalsSound, At
  <2>3. node[th[t].q].prev \in Queued(order) \cup {NULL}
    BY <2>2, LinksQueued
  <2> DEFINE q == node[th[t].q].prev
  <2> DEFINE L == [th[t] EXCEPT !.q = q]
  <2>4. th' = [th EXCEPT ![t] = L]
    BY <1>15, <2>1, <2>2, <2>3 DEF FindNodeScan, AwaitPcs, Goto
  <2>5. /\ th[t] \in Thread
        /\ q \in Nodes \cup {NULL}
    BY <1>15, <2>1, <2>2, <2>3 DEF Pcs, LivePcs, FirstPcs, RetiredPcs, CancelledPcs, AwaitPcs,
       UnparkPcs, SharedPcs, TransferPcs, Rets
  <2>6. L \in Thread
    <3> HIDE DEF q
    <3> QED BY ONLY <2>5 DEF Thread, Rets
  <2>7. th'[t] = L
    BY ONLY <1>0, <2>4
  <2>8. /\ th'[t].pc = th[t].pc /\ th'[t].i = th[t].i /\ th'[t].was = th[t].was
        /\ th'[t].pred = th[t].pred /\ th'[t].predNext = th[t].predNext /\ th'[t].ws = th[t].ws
        /\ th'[t].s = th[t].s /\ th'[t].q = q /\ th'[t].h = th[t].h /\ th'[t].u = th[t].u
        /\ th'[t].ret = th[t].ret /\ th'[t].ret2 = th[t].ret2 /\ th'[t].n = th[t].n
        /\ th'[t].mode = th[t].mode
    BY ONLY <2>7, <2>5 DEF Thread
  <2>9. order' = order /\ program' = program /\ head' = head /\ tail' = tail /\ node' = node
    BY ONLY program' = program, <1>15 DEF FindNodeScan, AwaitPcs, sync
  <2>10. LocalsSound(t)'
    BY <2>1, <2>2, <2>3, <2>5, <2>8, <2>9 DEF LocalsSound, PredPcs, LinkedPcs, Leaving, At, Call,
       Pcs, LivePcs, FirstPcs, RetiredPcs, CancelledPcs, AwaitPcs, UnparkPcs, SharedPcs, TransferPcs
  <2>11. ASSUME CancelledNodes' = CancelledNodes PROVE NodeSound(t)'
    BY <2>1, <2>2, <2>3, <2>8, <2>9, <2>11 DEF NodeSound, ThisLive, Fresh, Awaiting, Leaving,
       GivenUp, LinkedPcs, At, Call, Me, Pcs, LivePcs, FirstPcs, RetiredPcs, CancelledPcs, AwaitPcs,
       UnparkPcs, SharedPcs, TransferPcs
  <2>12. ~Claiming(t)' /\ (Awaiting(t) /\ Me(t) \notin Range(order) => Awaiting(t)')
    BY <2>1, <2>2, <2>3, <2>8, <2>9 DEF Claiming, Awaiting, At, Call, Me, Pcs, LivePcs, FirstPcs,
       RetiredPcs, CancelledPcs, AwaitPcs, UnparkPcs, SharedPcs, TransferPcs
  <2>13. Proceeds(t)
    BY ONLY <2>4, <2>6, <2>7, <2>8, <2>10, <2>11, <2>12, Zenon DEF Proceeds
  <2> QED BY <1>15, <2>13, MoveStep DEF FindNodeScan
<1>16. CASE /\ At(t, "cpark") /\ Goto(t, "cinterrupted") /\ permit' \in [Threads -> BOOLEAN]
          /\ UNCHANGED <<sync, node, intr, victims, order>>
  <2>1. th[t].pc = "cpark" /\ th[t].pc \in AwaitPcs
    BY ONLY <1>16 DEF AwaitPcs, At
  <2> DEFINE L == [th[t] EXCEPT !.pc = "cinterrupted"]
  <2>2. th' = [th EXCEPT ![t] = L]
    BY <1>16, <2>1 DEF AwaitPcs, Goto
  <2>3. /\ th[t] \in Thread
        /\ "cinterrupted" \in Pcs
    BY <1>16, <2>1 DEF Pcs, LivePcs, FirstPcs, RetiredPcs, CancelledPcs, AwaitPcs, UnparkPcs,
       SharedPcs, TransferPcs, Rets
  <2>4. L \in Thread
    BY ONLY <2>3 DEF Thread, Rets
  <2>5. th'[t] = L
    BY ONLY <1>0, <2>2
  <2>6. /\ th'[t].pc = "cinterrupted" /\ th'[t].i = th[t].i /\ th'[t].was = th[t].was
        /\ th'[t].pred = th[t].pred /\ th'[t].predNext = th[t].predNext /\ th'[t].ws = th[t].ws
        /\ th'[t].s = th[t].s /\ th'[t].q = th[t].q /\ th'[t].h = th[t].h /\ th'[t].u = th[t].u
        /\ th'[t].ret = th[t].ret /\ th'[t].ret2 = th[t].ret2 /\ th'[t].n = th[t].n
        /\ th'[t].mode = th[t].mode
    BY ONLY <2>5, <2>3 DEF Thread
  <2>7. order' = order /\ program' = program /\ head' = head /\ tail' = tail /\ node' = node
    BY ONLY program' = program, <1>16 DEF AwaitPcs, sync
  <2>8. LocalsSound(t)'
    BY <2>1, <2>3, <2>6, <2>7 DEF LocalsSound, PredPcs, LinkedPcs, Leaving, At, Call, Pcs, LivePcs,
       FirstPcs, RetiredPcs, CancelledPcs, AwaitPcs, UnparkPcs, SharedPcs, TransferPcs
  <2>9. ASSUME CancelledNodes' = CancelledNodes PROVE NodeSound(t)'
    BY <2>1, <2>6, <2>7, <2>9 DEF NodeSound, ThisLive, Fresh, Awaiting, Leaving, GivenUp, LinkedPcs,
       At, Call, Me, Pcs, LivePcs, FirstPcs, RetiredPcs, CancelledPcs, AwaitPcs, UnparkPcs,
       SharedPcs, TransferPcs
  <2>10. ~Claiming(t)' /\ (Awaiting(t) /\ Me(t) \notin Range(order) => Awaiting(t)')
    BY <2>1, <2>6, <2>7 DEF Claiming, Awaiting, At, Call, Me, Pcs, LivePcs, FirstPcs, RetiredPcs,
       CancelledPcs, AwaitPcs, UnparkPcs, SharedPcs, TransferPcs
  <2>11. Proceeds(t)
    BY ONLY <2>2, <2>4, <2>5, <2>6, <2>8, <2>9, <2>10, Zenon DEF Proceeds
  <2>12. state' \in Nat /\ permit' \in [Threads -> BOOLEAN] /\ intr' \in [Threads -> BOOLEAN]
    BY <1>16, <2>1 DEF AwaitPcs, sync, parking
  <2> QED BY <2>7, <2>11, <2>12, SameNodes, LocalStep
<1>17. CASE /\ At(t, "cpark") /\ UNCHANGED permit
          /\ th' = [th EXCEPT ![t].pc = "cinterrupted", ![t].ret = "deadline"]
          /\ UNCHANGED <<sync, node, intr, victims, order>>
  <2>1. th[t].pc = "cpark" /\ th[t].pc \in AwaitPcs
    BY ONLY <1>17 DEF AwaitPcs, At
  <2> DEFINE L == [th[t] EXCEPT !.pc = "cinterrupted", !.ret = "deadline"]
  <2>2. th' = [th EXCEPT ![t] = L]
    BY <1>17, <2>1, Zenon DEF AwaitPcs, Goto
  <2>3. /\ th[t] \in Thread
        /\ "cinterrupted" \in Pcs
    BY <1>17, <2>1 DEF Pcs, LivePcs, FirstPcs, RetiredPcs, CancelledPcs, AwaitPcs, UnparkPcs,
       SharedPcs, TransferPcs, Rets
  <2>4. L \in Thread
    BY ONLY <2>3, Zenon DEF Thread, Rets
  <2>5. th'[t] = L
    BY ONLY <1>0, <2>2
  <2>6. /\ th'[t].pc = "cinterrupted" /\ th'[t].i = th[t].i /\ th'[t].was = th[t].was
        /\ th'[t].pred = th[t].pred /\ th'[t].predNext = th[t].predNext /\ th'[t].ws = th[t].ws
        /\ th'[t].s = th[t].s /\ th'[t].q = th[t].q /\ th'[t].h = th[t].h /\ th'[t].u = th[t].u
        /\ th'[t].ret = "deadline" /\ th'[t].ret2 = th[t].ret2 /\ th'[t].n = th[t].n
        /\ th'[t].mode = th[t].mode
    BY ONLY <2>5, <2>3 DEF Thread
  <2>7. order' = order /\ program' = program /\ head' = head /\ tail' = tail /\ node' = node
    BY ONLY program' = program, <1>17 DEF AwaitPcs, sync
  <2>8. LocalsSound(t)'
    BY <2>1, <2>3, <2>6, <2>7 DEF LocalsSound, PredPcs, LinkedPcs, Leaving, At, Call, Pcs, LivePcs,
       FirstPcs, RetiredPcs, CancelledPcs, AwaitPcs, UnparkPcs, SharedPcs, TransferPcs
  <2>9. ASSUME CancelledNodes' = CancelledNodes PROVE NodeSound(t)'
    BY <2>1, <2>6, <2>7, <2>9 DEF NodeSound, ThisLive, Fresh, Awaiting, Leaving, GivenUp, LinkedPcs,
       At, Call, Me, Pcs, LivePcs, FirstPcs, RetiredPcs, CancelledPcs, AwaitPcs, UnparkPcs,
       SharedPcs, TransferPcs
  <2>10. ~Claiming(t)' /\ (Awaiting(t) /\ Me(t) \notin Range(order) => Awaiting(t)')
    BY <2>1, <2>6, <2>7 DEF Claiming, Awaiting, At, Call, Me, Pcs, LivePcs, FirstPcs, RetiredPcs,
       CancelledPcs, AwaitPcs, UnparkPcs, SharedPcs, TransferPcs
  <2>11. Proceeds(t)
    BY ONLY <2>2, <2>4, <2>5, <2>6, <2>8, <2>9, <2>10, Zenon DEF Proceeds
  <2>12. state' \in Nat /\ permit' \in [Threads -> BOOLEAN] /\ intr' \in [Threads -> BOOLEAN]
    BY <1>17, <2>1 DEF AwaitPcs, sync, parking
  <2> QED BY <2>7, <2>11, <2>12, SameNodes, LocalStep
<1>18. CASE CheckInterruptWhileWaiting(t) /\ Call(t).how = "plain"
  <2>1. th[t].pc = "cinterrupted" /\ th[t].pc \in AwaitPcs
    BY ONLY <1>18 DEF CheckInterruptWhileWaiting, AwaitPcs, At
  <2> DEFINE was == th[t].was \/ intr[t]
  <2> DEFINE L == [th[t] EXCEPT !.was = was, !.pc = "onqueue"]
  <2>2. th' = [th EXCEPT ![t] = L]
    BY <1>18, <2>1, Zenon DEF CheckInterruptWhileWaiting, AwaitPcs, Goto
  <2>3. /\ th[t] \in Thread
        /\ was \in BOOLEAN
        /\ "onqueue" \in Pcs
    BY <1>18, <2>1 DEF Pcs, LivePcs, FirstPcs, RetiredPcs, CancelledPcs, AwaitPcs, UnparkPcs,
       SharedPcs, TransferPcs, Rets, Thread
  <2>4. L \in Thread
    <3> HIDE DEF was
    <3> QED BY ONLY <2>3, Zenon DEF Thread, Rets
  <2>5. th'[t] = L
    BY ONLY <1>0, <2>2
  <2>6. /\ th'[t].pc = "onqueue" /\ th'[t].i = th[t].i /\ th'[t].was = was /\ th'[t].pred = th[t].pred
        /\ th'[t].predNext = th[t].predNext /\ th'[t].ws = th[t].ws /\ th'[t].s = th[t].s
        /\ th'[t].q = th[t].q /\ th'[t].h = th[t].h /\ th'[t].u = th[t].u /\ th'[t].ret = th[t].ret
        /\ th'[t].ret2 = th[t].ret2 /\ th'[t].n = th[t].n /\ th'[t].mode = th[t].mode
    BY ONLY <2>5, <2>3 DEF Thread
  <2>7. order' = order /\ program' = program /\ head' = head /\ tail' = tail /\ node' = node
    BY ONLY program' = program, <1>18 DEF CheckInterruptWhileWaiting, AwaitPcs, sync
  <2>8. LocalsSound(t)'
    BY <2>1, <2>3, <2>6, <2>7 DEF LocalsSound, PredPcs, LinkedPcs, Leaving, At, Call, Pcs, LivePcs,
       FirstPcs, RetiredPcs, CancelledPcs, AwaitPcs, UnparkPcs, SharedPcs, TransferPcs
  <2>9. ASSUME CancelledNodes' = CancelledNodes PROVE NodeSound(t)'
    BY <2>1, <2>6, <2>7, <2>9 DEF NodeSound, ThisLive, Fresh, Awaiting, Leaving, GivenUp, LinkedPcs,
       At, Call, Me, Pcs, LivePcs, FirstPcs, RetiredPcs, CancelledPcs, AwaitPcs, UnparkPcs,
       SharedPcs, TransferPcs
  <2>10. ~Claiming(t)' /\ (Awaiting(t) /\ Me(t) \notin Range(order) => Awaiting(t)')
    BY <2>1, <2>6, <2>7 DEF Claiming, Awaiting, At, Call, Me, Pcs, LivePcs, FirstPcs, RetiredPcs,
       CancelledPcs, AwaitPcs, UnparkPcs, SharedPcs, TransferPcs
  <2>11. Proceeds(t)
    BY ONLY <2>2, <2>4, <2>5, <2>6, <2>8, <2>9, <2>10, Zenon DEF Proceeds
  <2>12. state' \in Nat /\ permit' \in [Threads -> BOOLEAN] /\ intr' \in [Threads -> BOOLEAN]
    BY <1>18, <2>1 DEF CheckInterruptWhileWaiting, AwaitPcs, sync, parking
  <2> QED BY <2>7, <2>11, <2>12, SameNodes, LocalStep
<1>19. CASE CheckInterruptWhileWaiting(t) /\ (Call(t).how # "plain" /\ intr[t])
  <2>1. th[t].pc = "cinterrupted" /\ th[t].pc \in AwaitPcs
    BY ONLY <1>19 DEF CheckInterruptWhileWaiting, AwaitPcs, At
  <2> DEFINE L == [th[t] EXCEPT !.mode = "THROW_IE", !.pc = "cancelwait"]
  <2>2. th' = [th EXCEPT ![t] = L]
    BY <1>19, <2>1, Zenon DEF CheckInterruptWhileWaiting, AwaitPcs, Goto
  <2>3. /\ th[t] \in Thread
        /\ "cancelwait" \in Pcs
    BY <1>19, <2>1 DEF Pcs, LivePcs, FirstPcs, RetiredPcs, CancelledPcs, AwaitPcs, UnparkPcs,
       SharedPcs, TransferPcs, Rets
  <2>4. L \in Thread
    BY ONLY <2>3, Zenon DEF Thread, Rets
  <2>5. th'[t] = L
    BY ONLY <1>0, <2>2
  <2>6. /\ th'[t].pc = "cancelwait" /\ th'[t].i = th[t].i /\ th'[t].was = th[t].was
        /\ th'[t].pred = th[t].pred /\ th'[t].predNext = th[t].predNext /\ th'[t].ws = th[t].ws
        /\ th'[t].s = th[t].s /\ th'[t].q = th[t].q /\ th'[t].h = th[t].h /\ th'[t].u = th[t].u
        /\ th'[t].ret = th[t].ret /\ th'[t].ret2 = th[t].ret2 /\ th'[t].n = th[t].n
        /\ th'[t].mode = "THROW_IE"
    BY ONLY <2>5, <2>3 DEF Thread
  <2>7. order' = order /\ program' = program /\ head' = head /\ tail' = tail /\ node' = node
    BY ONLY program' = program, <1>19 DEF CheckInterruptWhileWaiting, AwaitPcs, sync
  <2>8. LocalsSound(t)'
    BY <2>1, <2>3, <2>6, <2>7 DEF LocalsSound, PredPcs, LinkedPcs, Leaving, At, Call, Pcs, LivePcs,
       FirstPcs, RetiredPcs, CancelledPcs, AwaitPcs, UnparkPcs, SharedPcs, TransferPcs
  <2>9. ASSUME CancelledNodes' = CancelledNodes PROVE NodeSound(t)'
    BY <2>1, <2>6, <2>7, <2>9 DEF NodeSound, ThisLive, Fresh, Awaiting, Leaving, GivenUp, LinkedPcs,
       At, Call, Me, Pcs, LivePcs, FirstPcs, RetiredPcs, CancelledPcs, AwaitPcs, UnparkPcs,
       SharedPcs, TransferPcs
  <2>10. ~Claiming(t)' /\ (Awaiting(t) /\ Me(t) \notin Range(order) => Awaiting(t)')
    BY <2>1, <2>6, <2>7 DEF Claiming, Awaiting, At, Call, Me, Pcs, LivePcs, FirstPcs, RetiredPcs,
       CancelledPcs, AwaitPcs, UnparkPcs, SharedPcs, TransferPcs
  <2>11. Proceeds(t)
    BY ONLY <2>2, <2>4, <2>5, <2>6, <2>8, <2>9, <2>10, Zenon DEF Proceeds
  <2>12. state' \in Nat /\ permit' \in [Threads -> BOOLEAN] /\ intr' \in [Threads -> BOOLEAN]
    BY <1>19, <2>1 DEF CheckInterruptWhileWaiting, AwaitPcs, sync, parking
  <2> QED BY <2>7, <2>11, <2>12, SameNodes, LocalStep
<1>20. CASE CheckInterruptWhileWaiting(t) /\ (Call(t).how # "plain" /\ ~intr[t])
  <2>1. th[t].pc = "cinterrupted" /\ th[t].pc \in AwaitPcs
    BY ONLY <1>20 DEF CheckInterruptWhileWaiting, AwaitPcs, At
  <2> DEFINE L == [th[t] EXCEPT !.pc = "onqueue"]
  <2>2. th' = [th EXCEPT ![t] = L]
    BY <1>20, <2>1 DEF CheckInterruptWhileWaiting, AwaitPcs, Goto
  <2>3. /\ th[t] \in Thread
        /\ "onqueue" \in Pcs
    BY <1>20, <2>1 DEF Pcs, LivePcs, FirstPcs, RetiredPcs, CancelledPcs, AwaitPcs, UnparkPcs,
       SharedPcs, TransferPcs, Rets
  <2>4. L \in Thread
    BY ONLY <2>3 DEF Thread, Rets
  <2>5. th'[t] = L
    BY ONLY <1>0, <2>2
  <2>6. /\ th'[t].pc = "onqueue" /\ th'[t].i = th[t].i /\ th'[t].was = th[t].was
        /\ th'[t].pred = th[t].pred /\ th'[t].predNext = th[t].predNext /\ th'[t].ws = th[t].ws
        /\ th'[t].s = th[t].s /\ th'[t].q = th[t].q /\ th'[t].h = th[t].h /\ th'[t].u = th[t].u
        /\ th'[t].ret = th[t].ret /\ th'[t].ret2 = th[t].ret2 /\ th'[t].n = th[t].n
        /\ th'[t].mode = th[t].mode
    BY ONLY <2>5, <2>3 DEF Thread
  <2>7. order' = order /\ program' = program /\ head' = head /\ tail' = tail /\ node' = node
    BY ONLY program' = program, <1>20 DEF CheckInterruptWhileWaiting, AwaitPcs, sync
  <2>8. LocalsSound(t)'
    BY <2>1, <2>3, <2>6, <2>7 DEF LocalsSound, PredPcs, LinkedPcs, Leaving, At, Call, Pcs, LivePcs,
       FirstPcs, RetiredPcs, CancelledPcs, AwaitPcs, UnparkPcs, SharedPcs, TransferPcs
  <2>9. ASSUME CancelledNodes' = CancelledNodes PROVE NodeSound(t)'
    BY <2>1, <2>6, <2>7, <2>9 DEF NodeSound, ThisLive, Fresh, Awaiting, Leaving, GivenUp, LinkedPcs,
       At, Call, Me, Pcs, LivePcs, FirstPcs, RetiredPcs, CancelledPcs, AwaitPcs, UnparkPcs,
       SharedPcs, TransferPcs
  <2>10. ~Claiming(t)' /\ (Awaiting(t) /\ Me(t) \notin Range(order) => Awaiting(t)')
    BY <2>1, <2>6, <2>7 DEF Claiming, Awaiting, At, Call, Me, Pcs, LivePcs, FirstPcs, RetiredPcs,
       CancelledPcs, AwaitPcs, UnparkPcs, SharedPcs, TransferPcs
  <2>11. Proceeds(t)
    BY ONLY <2>2, <2>4, <2>5, <2>6, <2>8, <2>9, <2>10, Zenon DEF Proceeds
  <2>12. state' \in Nat /\ permit' \in [Threads -> BOOLEAN] /\ intr' \in [Threads -> BOOLEAN]
    BY <1>20, <2>1 DEF CheckInterruptWhileWaiting, AwaitPcs, sync, parking
  <2> QED BY <2>7, <2>11, <2>12, SameNodes, LocalStep
<1>21. CASE Reacquired(t) /\ (nextWaiter[Me(t)] # NULL /\ Call(t).how # "plain")
  <2>1. th[t].pc = "reacquired"
    BY ONLY <1>21 DEF Reacquired, At
  <2> DEFINE mode == IF th[t].was /\ th[t].mode # "THROW_IE" THEN "REINTERRUPT" ELSE th[t].mode
  <2> DEFINE L == [th[t] EXCEPT !.mode = mode, !.pc = "unlink", !.q = firstWaiter,
                                !.ret = "report"]
  <2>2. th' = [th EXCEPT ![t] = L]
    BY <1>21, <2>1, Zenon DEF Reacquired, Goto
  <2>3. /\ th[t] \in Thread
        /\ mode \in {"none", "THROW_IE", "REINTERRUPT"}
        /\ "unlink" \in Pcs
        /\ firstWaiter \in Nodes \cup {NULL}
    BY <1>21, <2>1 DEF Pcs, LivePcs, FirstPcs, RetiredPcs, CancelledPcs, AwaitPcs, UnparkPcs,
       SharedPcs, TransferPcs, Rets, CondTypes, Thread
  <2>4. L \in Thread
    <3> HIDE DEF mode
    <3> QED BY ONLY <2>3, Zenon DEF Thread, Rets
  <2>5. th'[t] = L
    BY ONLY <1>0, <2>2
  <2>6. /\ th'[t].pc = "unlink" /\ th'[t].i = th[t].i /\ th'[t].was = th[t].was
        /\ th'[t].pred = th[t].pred /\ th'[t].predNext = th[t].predNext /\ th'[t].ws = th[t].ws
        /\ th'[t].s = th[t].s /\ th'[t].q = firstWaiter /\ th'[t].h = th[t].h /\ th'[t].u = th[t].u
        /\ th'[t].ret = "report" /\ th'[t].ret2 = th[t].ret2 /\ th'[t].n = th[t].n /\ th'[t].mode = mode
    BY ONLY <2>5, <2>3 DEF Thread
  <2>7. order' = order /\ program' = program /\ head' = head /\ tail' = tail /\ node' = node
    BY ONLY program' = program, <1>21 DEF Reacquired, sync
  <2>8. LocalsSound(t)'
    BY <2>1, <2>3, <2>6, <2>7 DEF LocalsSound, PredPcs, LinkedPcs, Leaving, At, Call, Pcs, LivePcs,
       FirstPcs, RetiredPcs, CancelledPcs, AwaitPcs, UnparkPcs, SharedPcs, TransferPcs
  <2>9. ASSUME CancelledNodes' = CancelledNodes PROVE NodeSound(t)'
    BY <2>1, <2>6, <2>7, <2>9 DEF NodeSound, ThisLive, Fresh, Awaiting, Leaving, GivenUp, LinkedPcs,
       At, Call, Me, Pcs, LivePcs, FirstPcs, RetiredPcs, CancelledPcs, AwaitPcs, UnparkPcs,
       SharedPcs, TransferPcs
  <2>10. ~Claiming(t)' /\ (Awaiting(t) /\ Me(t) \notin Range(order) => Awaiting(t)')
    BY <2>1, <2>6, <2>7 DEF Claiming, Awaiting, At, Call, Me, Pcs, LivePcs, FirstPcs, RetiredPcs,
       CancelledPcs, AwaitPcs, UnparkPcs, SharedPcs, TransferPcs
  <2>11. Proceeds(t)
    BY ONLY <2>2, <2>4, <2>5, <2>6, <2>8, <2>9, <2>10, Zenon DEF Proceeds
  <2> QED BY <1>21, <2>11, MoveStep DEF Reacquired
<1>22. CASE Reacquired(t) /\ ~(nextWaiter[Me(t)] # NULL /\ Call(t).how # "plain")
  <2>1. th[t].pc = "reacquired"
    BY ONLY <1>22 DEF Reacquired, At
  <2> DEFINE mode == IF th[t].was /\ th[t].mode # "THROW_IE" THEN "REINTERRUPT" ELSE th[t].mode
  <2> DEFINE L == [th[t] EXCEPT !.mode = mode, !.pc = "report"]
  <2>2. th' = [th EXCEPT ![t] = L]
    BY <1>22, <2>1, Zenon DEF Reacquired, Goto
  <2>3. /\ th[t] \in Thread
        /\ mode \in {"none", "THROW_IE", "REINTERRUPT"}
        /\ "report" \in Pcs
    BY <1>22, <2>1 DEF Pcs, LivePcs, FirstPcs, RetiredPcs, CancelledPcs, AwaitPcs, UnparkPcs,
       SharedPcs, TransferPcs, Rets, Thread
  <2>4. L \in Thread
    <3> HIDE DEF mode
    <3> QED BY ONLY <2>3, Zenon DEF Thread, Rets
  <2>5. th'[t] = L
    BY ONLY <1>0, <2>2
  <2>6. /\ th'[t].pc = "report" /\ th'[t].i = th[t].i /\ th'[t].was = th[t].was
        /\ th'[t].pred = th[t].pred /\ th'[t].predNext = th[t].predNext /\ th'[t].ws = th[t].ws
        /\ th'[t].s = th[t].s /\ th'[t].q = th[t].q /\ th'[t].h = th[t].h /\ th'[t].u = th[t].u
        /\ th'[t].ret = th[t].ret /\ th'[t].ret2 = th[t].ret2 /\ th'[t].n = th[t].n
        /\ th'[t].mode = mode
    BY ONLY <2>5, <2>3 DEF Thread
  <2>7. order' = order /\ program' = program /\ head' = head /\ tail' = tail /\ node' = node
    BY ONLY program' = program, <1>22 DEF Reacquired, sync
  <2>8. LocalsSound(t)'
    BY <2>1, <2>3, <2>6, <2>7 DEF LocalsSound, PredPcs, LinkedPcs, Leaving, At, Call, Pcs, LivePcs,
       FirstPcs, RetiredPcs, CancelledPcs, AwaitPcs, UnparkPcs, SharedPcs, TransferPcs
  <2>9. ASSUME CancelledNodes' = CancelledNodes PROVE NodeSound(t)'
    BY <2>1, <2>6, <2>7, <2>9 DEF NodeSound, ThisLive, Fresh, Awaiting, Leaving, GivenUp, LinkedPcs,
       At, Call, Me, Pcs, LivePcs, FirstPcs, RetiredPcs, CancelledPcs, AwaitPcs, UnparkPcs,
       SharedPcs, TransferPcs
  <2>10. ~Claiming(t)' /\ (Awaiting(t) /\ Me(t) \notin Range(order) => Awaiting(t)')
    BY <2>1, <2>6, <2>7 DEF Claiming, Awaiting, At, Call, Me, Pcs, LivePcs, FirstPcs, RetiredPcs,
       CancelledPcs, AwaitPcs, UnparkPcs, SharedPcs, TransferPcs
  <2>11. Proceeds(t)
    BY ONLY <2>2, <2>4, <2>5, <2>6, <2>8, <2>9, <2>10, Zenon DEF Proceeds
  <2> QED BY <1>22, <2>11, MoveStep DEF Reacquired
<1>23. CASE ReportInterruptAfterWait(t)
  <2>1. th[t].pc = "report"
    BY ONLY <1>23 DEF ReportInterruptAfterWait, At
  <2>2. /\ th[t].i + 1 \in Nat \ {0} /\ <<t, th[t].i + 1>> \notin Range(order)
        /\ th[t].i # Len(program[t]) => th[t].i + 1 \in DOMAIN program[t]
    BY <2>1, NextCall
  <2> DEFINE pc == IF th[t].i = Len(program[t]) THEN "done" ELSE "start"
  <2> DEFINE L == FreshAt(pc, th[t].i + 1, FALSE, "none", NULL, NULL, NoRet)
  <2>3. th' = [th EXCEPT ![t] = L]
    BY <1>23, <2>1, <2>2, Continuations, Zenon DEF ReportInterruptAfterWait, Goto
  <2>4. /\ th[t] \in Thread
        /\ pc \in Pcs
        /\ th[t].i + 1 \in Nat \ {0}
        /\ FALSE \in BOOLEAN
        /\ "none" \in {"none", "THROW_IE", "REINTERRUPT"}
        /\ NULL \in Nodes \cup {NULL}
        /\ NULL \in Nodes \cup {NULL}
        /\ NoRet \in Rets
    BY <1>23, <2>1, <2>2 DEF Pcs, LivePcs, FirstPcs, RetiredPcs, CancelledPcs, AwaitPcs, UnparkPcs,
       SharedPcs, TransferPcs, Rets, Thread
  <2>5. /\ L \in Thread
        /\ L.pc = pc /\ L.i = th[t].i + 1 /\ L.was = FALSE /\ L.pred = NULL /\ L.predNext = NULL
        /\ L.ws = 0 /\ L.s = NULL /\ L.q = NULL /\ L.h = NULL /\ L.u = NULL /\ L.ret = NoRet
        /\ L.ret2 = NoRet /\ L.n = NULL /\ L.mode = "none"
    <3>1. L = [pc |-> pc, i |-> th[t].i + 1, was |-> FALSE, pred |-> NULL, predNext |-> NULL,
              ws |-> 0, s |-> NULL, q |-> NULL, h |-> NULL, u |-> NULL, ret |-> NoRet,
              ret2 |-> NoRet, n |-> NULL, mode |-> "none"]
      BY ONLY DEF FreshAt
    <3> HIDE DEF L, pc
    <3>2. L \in Thread
      BY ONLY <3>1, <2>4 DEF Thread
    <3> QED BY ONLY <3>1, <3>2
  <2> HIDE DEF L
  <2>6. th'[t] = L
    BY ONLY <1>0, <2>3
  <2>7. /\ th'[t].pc = pc /\ th'[t].i = th[t].i + 1 /\ th'[t].was = FALSE /\ th'[t].pred = NULL
        /\ th'[t].predNext = NULL /\ th'[t].ws = 0 /\ th'[t].s = NULL /\ th'[t].q = NULL
        /\ th'[t].h = NULL /\ th'[t].u = NULL /\ th'[t].ret = NoRet /\ th'[t].ret2 = NoRet
        /\ th'[t].n = NULL /\ th'[t].mode = "none"
    BY ONLY <2>6, <2>5
  <2>8. order' = order /\ program' = program /\ head' = head /\ tail' = tail /\ node' = node
    BY ONLY program' = program, <1>23 DEF ReportInterruptAfterWait, sync
  <2>9. LocalsSound(t)'
    BY <2>1, <2>2, <2>4, <2>7, <2>8 DEF LocalsSound, PredPcs, LinkedPcs, Leaving, At, Call, Pcs,
       LivePcs, FirstPcs, RetiredPcs, CancelledPcs, AwaitPcs, UnparkPcs, SharedPcs, TransferPcs
  <2>10. ASSUME CancelledNodes' = CancelledNodes PROVE NodeSound(t)'
    <3>1. th'[t].pc \in {"start", "done"}
      BY <2>7
    <3>2. th'[t].i = th[t].i + 1 /\ order' = order /\ <<t, th[t].i + 1>> \notin Range(order)
      BY ONLY <2>2, <2>7, <2>8
    <3>3. <<t, th'[t].i>> \notin Range(order')
      BY ONLY <3>2
    <3> QED BY <3>1, <3>3, <2>7, IdleSound
  <2>11. ~Claiming(t)' /\ ~(Awaiting(t) /\ Me(t) \notin Range(order))
    BY <2>1, <2>2, <2>7, <2>8 DEF Claiming, Awaiting, At, Call, Me, Pcs, LivePcs, FirstPcs,
       RetiredPcs, CancelledPcs, AwaitPcs, UnparkPcs, SharedPcs, TransferPcs
  <2>12. Proceeds(t)
    BY ONLY <2>3, <2>5, <2>6, <2>7, <2>9, <2>10, <2>11, Zenon DEF Proceeds
  <2>13. state' \in Nat /\ permit' \in [Threads -> BOOLEAN] /\ intr' \in [Threads -> BOOLEAN]
    BY <1>23, <2>1, <2>2 DEF ReportInterruptAfterWait, sync, parking
  <2> QED BY <2>8, <2>12, <2>13, SameNodes, LocalStep
<1>24. ASSUME Await(t) PROVE IInv'
  <2>1. At(t, "start") /\ Call(t).call = "await"
    BY <1>24 DEF Await
  <2>2. CASE /\ intr' = [intr EXCEPT ![t] = FALSE]
             /\ th' = [th EXCEPT ![t].pc = "report", ![t].mode = "THROW_IE"]
    <3>1. intr' \in [Threads -> BOOLEAN]
      BY <2>2
    <3>2. UNCHANGED <<sync, node, permit, victims, order>>
      BY <1>24 DEF Await
    <3> QED BY ONLY <2>1, <2>2, <3>1, <3>2, <1>1
  <2>3. CASE Goto(t, "addwaiter") /\ UNCHANGED intr
    <3>1. UNCHANGED <<sync, node, parking, order>>
      BY <1>24, <2>3 DEF Await, parking
    <3> QED BY ONLY <2>1, <2>3, <3>1, <1>2
  <2> QED BY <1>24, <2>2, <2>3 DEF Await
<1>25. ASSUME CondPark(t) PROVE IInv'
  <2>1. At(t, "cpark") /\ UNCHANGED <<sync, node, intr, victims, order>>
    BY <1>25 DEF CondPark
  <2>2. CASE park(t, t \in Drowsy) /\ Goto(t, "cinterrupted")
    <3>1. permit' \in [Threads -> BOOLEAN]
      BY <2>2, Zenon DEF park
    <3> QED BY ONLY <2>1, <2>2, <3>1, <1>16
  <2>3. CASE th' = [th EXCEPT ![t].pc = "cinterrupted", ![t].ret = "deadline"] /\ UNCHANGED permit
    BY ONLY <2>1, <2>3, <1>17
  <2> QED BY <1>25, <2>2, <2>3 DEF CondPark
<1> QED BY <1>1, <1>2, <1>3, <1>4, <1>5, <1>6, <1>7, <1>8, <1>9, <1>10, <1>11, <1>12, <1>13, <1>14,
           <1>15, <1>16, <1>17, <1>18, <1>19, <1>20, <1>21, <1>22, <1>23, <1>24, <1>25

\* signal and signalAll, but for the steps that bring the node to the queue
LEMMA SignalSteps ==
    ASSUME IInv, NEW t \in Threads, program' = program,
           CondTypes,
           SignalNobody(t) \/ DoSignalAll(t) \/ TransferLink(t) \/ TransferWs(t)
           \/ TransferSignal(t) \/ Transferred(t)
    PROVE  IInv'
<1> USE Locals, NodeForm, NoReturn
<1>0. th \in [Threads -> Thread] /\ t \in Threads
  OBVIOUS
<1>1. CASE SignalNobody(t)
  <2>1. th[t].pc = "start"
    BY ONLY <1>1 DEF SignalNobody, At
  <2>2. /\ th[t].i + 1 \in Nat \ {0} /\ <<t, th[t].i + 1>> \notin Range(order)
        /\ th[t].i # Len(program[t]) => th[t].i + 1 \in DOMAIN program[t]
    BY <2>1, NextCall
  <2> DEFINE pc == IF th[t].i = Len(program[t]) THEN "done" ELSE "start"
  <2> DEFINE L == FreshAt(pc, th[t].i + 1, FALSE, "none", NULL, NULL, NoRet)
  <2>3. th' = [th EXCEPT ![t] = L]
    BY <1>1, <2>1, <2>2, Continuations, Zenon DEF SignalNobody, Goto
  <2>4. /\ th[t] \in Thread
        /\ pc \in Pcs
        /\ th[t].i + 1 \in Nat \ {0}
        /\ FALSE \in BOOLEAN
        /\ "none" \in {"none", "THROW_IE", "REINTERRUPT"}
        /\ NULL \in Nodes \cup {NULL}
        /\ NULL \in Nodes \cup {NULL}
        /\ NoRet \in Rets
    BY <1>1, <2>1, <2>2 DEF Pcs, LivePcs, FirstPcs, RetiredPcs, CancelledPcs, AwaitPcs, UnparkPcs,
       SharedPcs, TransferPcs, Rets, Thread
  <2>5. /\ L \in Thread
        /\ L.pc = pc /\ L.i = th[t].i + 1 /\ L.was = FALSE /\ L.pred = NULL /\ L.predNext = NULL
        /\ L.ws = 0 /\ L.s = NULL /\ L.q = NULL /\ L.h = NULL /\ L.u = NULL /\ L.ret = NoRet
        /\ L.ret2 = NoRet /\ L.n = NULL /\ L.mode = "none"
    <3>1. L = [pc |-> pc, i |-> th[t].i + 1, was |-> FALSE, pred |-> NULL, predNext |-> NULL,
              ws |-> 0, s |-> NULL, q |-> NULL, h |-> NULL, u |-> NULL, ret |-> NoRet,
              ret2 |-> NoRet, n |-> NULL, mode |-> "none"]
      BY ONLY DEF FreshAt
    <3> HIDE DEF L, pc
    <3>2. L \in Thread
      BY ONLY <3>1, <2>4 DEF Thread
    <3> QED BY ONLY <3>1, <3>2
  <2> HIDE DEF L
  <2>6. th'[t] = L
    BY ONLY <1>0, <2>3
  <2>7. /\ th'[t].pc = pc /\ th'[t].i = th[t].i + 1 /\ th'[t].was = FALSE /\ th'[t].pred = NULL
        /\ th'[t].predNext = NULL /\ th'[t].ws = 0 /\ th'[t].s = NULL /\ th'[t].q = NULL
        /\ th'[t].h = NULL /\ th'[t].u = NULL /\ th'[t].ret = NoRet /\ th'[t].ret2 = NoRet
        /\ th'[t].n = NULL /\ th'[t].mode = "none"
    BY ONLY <2>6, <2>5
  <2>8. order' = order /\ program' = program /\ head' = head /\ tail' = tail /\ node' = node
    BY ONLY program' = program, <1>1 DEF SignalNobody, sync
  <2>9. LocalsSound(t)'
    BY <2>1, <2>2, <2>4, <2>7, <2>8 DEF LocalsSound, PredPcs, LinkedPcs, Leaving, At, Call, Pcs,
       LivePcs, FirstPcs, RetiredPcs, CancelledPcs, AwaitPcs, UnparkPcs, SharedPcs, TransferPcs
  <2>10. ASSUME CancelledNodes' = CancelledNodes PROVE NodeSound(t)'
    <3>1. th'[t].pc \in {"start", "done"}
      BY <2>7
    <3>2. th'[t].i = th[t].i + 1 /\ order' = order /\ <<t, th[t].i + 1>> \notin Range(order)
      BY ONLY <2>2, <2>7, <2>8
    <3>3. <<t, th'[t].i>> \notin Range(order')
      BY ONLY <3>2
    <3> QED BY <3>1, <3>3, <2>7, IdleSound
  <2>11. ~Claiming(t)' /\ ~(Awaiting(t) /\ Me(t) \notin Range(order))
    BY <2>1, <2>2, <2>7, <2>8 DEF Claiming, Awaiting, At, Call, Me, Pcs, LivePcs, FirstPcs,
       RetiredPcs, CancelledPcs, AwaitPcs, UnparkPcs, SharedPcs, TransferPcs
  <2>12. Proceeds(t)
    BY ONLY <2>3, <2>5, <2>6, <2>7, <2>9, <2>10, <2>11, Zenon DEF Proceeds
  <2> QED BY <1>1, <2>12, MoveStep DEF SignalNobody
<1>2. CASE DoSignalAll(t)
  <2>1. th[t].pc = "start"
    BY ONLY <1>2 DEF DoSignalAll, At
  <2>2. firstWaiter # NULL
    BY <1>2 DEF DoSignalAll
  <2> DEFINE L == [th[t] EXCEPT !.pc = "all", !.q = firstWaiter]
  <2>3. th' = [th EXCEPT ![t] = L]
    BY <1>2, <2>1, <2>2, Zenon DEF DoSignalAll, Goto
  <2>4. /\ th[t] \in Thread
        /\ "all" \in Pcs
        /\ firstWaiter \in Nodes \cup {NULL}
    BY <1>2, <2>1, <2>2 DEF Pcs, LivePcs, FirstPcs, RetiredPcs, CancelledPcs, AwaitPcs, UnparkPcs,
       SharedPcs, TransferPcs, Rets, CondTypes
  <2>5. L \in Thread
    BY ONLY <2>4, Zenon DEF Thread, Rets
  <2>6. th'[t] = L
    BY ONLY <1>0, <2>3
  <2>7. /\ th'[t].pc = "all" /\ th'[t].i = th[t].i /\ th'[t].was = th[t].was /\ th'[t].pred = th[t].pred
        /\ th'[t].predNext = th[t].predNext /\ th'[t].ws = th[t].ws /\ th'[t].s = th[t].s
        /\ th'[t].q = firstWaiter /\ th'[t].h = th[t].h /\ th'[t].u = th[t].u /\ th'[t].ret = th[t].ret
        /\ th'[t].ret2 = th[t].ret2 /\ th'[t].n = th[t].n /\ th'[t].mode = th[t].mode
    BY ONLY <2>6, <2>4 DEF Thread
  <2>8. order' = order /\ program' = program /\ head' = head /\ tail' = tail /\ node' = node
    BY ONLY program' = program, <1>2 DEF DoSignalAll, sync
  <2>9. LocalsSound(t)'
    BY <2>1, <2>2, <2>4, <2>7, <2>8 DEF LocalsSound, PredPcs, LinkedPcs, Leaving, At, Call, Pcs,
       LivePcs, FirstPcs, RetiredPcs, CancelledPcs, AwaitPcs, UnparkPcs, SharedPcs, TransferPcs
  <2>10. ASSUME CancelledNodes' = CancelledNodes PROVE NodeSound(t)'
    BY <2>1, <2>2, <2>7, <2>8, <2>10 DEF NodeSound, ThisLive, Fresh, Awaiting, Leaving, GivenUp,
       LinkedPcs, At, Call, Me, Pcs, LivePcs, FirstPcs, RetiredPcs, CancelledPcs, AwaitPcs,
       UnparkPcs, SharedPcs, TransferPcs
  <2>11. ~Claiming(t)' /\ (Awaiting(t) /\ Me(t) \notin Range(order) => Awaiting(t)')
    BY <2>1, <2>2, <2>7, <2>8 DEF Claiming, Awaiting, At, Call, Me, Pcs, LivePcs, FirstPcs,
       RetiredPcs, CancelledPcs, AwaitPcs, UnparkPcs, SharedPcs, TransferPcs
  <2>12. Proceeds(t)
    BY ONLY <2>3, <2>5, <2>6, <2>7, <2>9, <2>10, <2>11, Zenon DEF Proceeds
  <2> QED BY <1>2, <2>12, MoveStep DEF DoSignalAll
<1>3. CASE TransferLink(t)
  <2>1. th[t].pc = "transfer_link"
    BY ONLY <1>3 DEF TransferLink, At
  <2>2. th[t].pred \in Nodes /\ th[t].pred \in Queued(order)
    BY <2>1 DEF LocalsSound, Pcs, LivePcs, FirstPcs, RetiredPcs, CancelledPcs, AwaitPcs, UnparkPcs,
       SharedPcs, TransferPcs, PredPcs, LinkedPcs, Leaving
  <2>3. th[t].n \in Nodes /\ th[t].n # NULL
    BY <2>1 DEF LocalsSound, TransferPcs, Thread
  <2> DEFINE L == [th[t] EXCEPT !.pc = "transfer_ws"]
  <2>4. th' = [th EXCEPT ![t] = L]
    BY <1>3, <2>1, <2>2, <2>3 DEF TransferLink, Goto
  <2>5. /\ th[t] \in Thread
        /\ "transfer_ws" \in Pcs
    BY <1>3, <2>1, <2>2, <2>3 DEF Pcs, LivePcs, FirstPcs, RetiredPcs, CancelledPcs, AwaitPcs,
       UnparkPcs, SharedPcs, TransferPcs, Rets
  <2>6. L \in Thread
    BY ONLY <2>5 DEF Thread, Rets
  <2>7. th'[t] = L
    BY ONLY <1>0, <2>4
  <2>8. /\ th'[t].pc = "transfer_ws" /\ th'[t].i = th[t].i /\ th'[t].was = th[t].was
        /\ th'[t].pred = th[t].pred /\ th'[t].predNext = th[t].predNext /\ th'[t].ws = th[t].ws
        /\ th'[t].s = th[t].s /\ th'[t].q = th[t].q /\ th'[t].h = th[t].h /\ th'[t].u = th[t].u
        /\ th'[t].ret = th[t].ret /\ th'[t].ret2 = th[t].ret2 /\ th'[t].n = th[t].n
        /\ th'[t].mode = th[t].mode
    BY ONLY <2>7, <2>5 DEF Thread
  <2>9. order' = order /\ program' = program /\ head' = head /\ tail' = tail
    BY ONLY program' = program, <1>3 DEF TransferLink, sync
  <2>10. LocalsSound(t)'
    BY <2>1, <2>2, <2>3, <2>5, <2>8, <2>9 DEF LocalsSound, PredPcs, LinkedPcs, Leaving, At, Call,
       Pcs, LivePcs, FirstPcs, RetiredPcs, CancelledPcs, AwaitPcs, UnparkPcs, SharedPcs, TransferPcs
  <2>11. ASSUME CancelledNodes' = CancelledNodes PROVE NodeSound(t)'
    BY <2>1, <2>2, <2>3, <2>8, <2>9, <2>11 DEF NodeSound, ThisLive, Fresh, Awaiting, Leaving,
       GivenUp, LinkedPcs, At, Call, Me, Pcs, LivePcs, FirstPcs, RetiredPcs, CancelledPcs, AwaitPcs,
       UnparkPcs, SharedPcs, TransferPcs
  <2>12. ~Claiming(t)' /\ (Awaiting(t) /\ Me(t) \notin Range(order) => Awaiting(t)')
    BY <2>1, <2>2, <2>3, <2>8, <2>9 DEF Claiming, Awaiting, At, Call, Me, Pcs, LivePcs, FirstPcs,
       RetiredPcs, CancelledPcs, AwaitPcs, UnparkPcs, SharedPcs, TransferPcs
  <2>13. Proceeds(t)
    BY ONLY <2>4, <2>6, <2>7, <2>8, <2>10, <2>11, <2>12, Zenon DEF Proceeds
  <2>14. QuietNodes
    BY <1>3, <2>1, <2>2, <2>3, NextChanged, Zenon DEF TransferLink
  <2>15. state' \in Nat /\ permit' \in [Threads -> BOOLEAN] /\ intr' \in [Threads -> BOOLEAN]
    BY <1>3, <2>1, <2>2, <2>3 DEF TransferLink, sync, parking
  <2> QED BY <2>9, <2>13, <2>15, <2>14, LocalStep
<1>4. CASE TransferWs(t) /\ node[th[t].pred].ws > 0
  <2>1. th[t].pc = "transfer_ws"
    BY ONLY <1>4 DEF TransferWs, WakeTransferred, At
  <2>2. th[t].n \in Nodes /\ th[t].n # NULL
    BY <2>1 DEF LocalsSound, TransferPcs, Thread
  <2>3. th[t].ret2 # "pnext"
    BY <2>1 DEF LocalsSound, Pcs, LivePcs, FirstPcs, RetiredPcs, CancelledPcs, AwaitPcs, UnparkPcs,
       SharedPcs, TransferPcs
  <2> DEFINE L == [th[t] EXCEPT !.pc = "unpark_thread", !.s = th[t].n, !.ret = "transferred"]
  <2>4. th' = [th EXCEPT ![t] = L]
    BY <1>4, <2>1, <2>2, <2>3, Zenon DEF TransferWs, WakeTransferred, Goto
  <2>5. /\ th[t] \in Thread
        /\ "unpark_thread" \in Pcs
        /\ th[t].n \in Nodes \cup {NULL}
    BY <1>4, <2>1, <2>2, <2>3 DEF Pcs, LivePcs, FirstPcs, RetiredPcs, CancelledPcs, AwaitPcs,
       UnparkPcs, SharedPcs, TransferPcs, Rets, Thread
  <2>6. L \in Thread
    BY ONLY <2>5, Zenon DEF Thread, Rets
  <2>7. th'[t] = L
    BY ONLY <1>0, <2>4
  <2>8. /\ th'[t].pc = "unpark_thread" /\ th'[t].i = th[t].i /\ th'[t].was = th[t].was
        /\ th'[t].pred = th[t].pred /\ th'[t].predNext = th[t].predNext /\ th'[t].ws = th[t].ws
        /\ th'[t].s = th[t].n /\ th'[t].q = th[t].q /\ th'[t].h = th[t].h /\ th'[t].u = th[t].u
        /\ th'[t].ret = "transferred" /\ th'[t].ret2 = th[t].ret2 /\ th'[t].n = th[t].n
        /\ th'[t].mode = th[t].mode
    BY ONLY <2>7, <2>5 DEF Thread
  <2>9. order' = order /\ program' = program /\ head' = head /\ tail' = tail /\ node' = node
    BY ONLY program' = program, <1>4 DEF TransferWs, WakeTransferred, sync
  <2>10. LocalsSound(t)'
    BY <2>1, <2>2, <2>3, <2>5, <2>8, <2>9 DEF LocalsSound, PredPcs, LinkedPcs, Leaving, At, Call,
       Pcs, LivePcs, FirstPcs, RetiredPcs, CancelledPcs, AwaitPcs, UnparkPcs, SharedPcs, TransferPcs
  <2>11. ASSUME CancelledNodes' = CancelledNodes PROVE NodeSound(t)'
    BY <2>1, <2>2, <2>3, <2>8, <2>9, <2>11 DEF NodeSound, ThisLive, Fresh, Awaiting, Leaving,
       GivenUp, LinkedPcs, At, Call, Me, Pcs, LivePcs, FirstPcs, RetiredPcs, CancelledPcs, AwaitPcs,
       UnparkPcs, SharedPcs, TransferPcs
  <2>12. ~Claiming(t)' /\ (Awaiting(t) /\ Me(t) \notin Range(order) => Awaiting(t)')
    BY <2>1, <2>2, <2>3, <2>8, <2>9 DEF Claiming, Awaiting, At, Call, Me, Pcs, LivePcs, FirstPcs,
       RetiredPcs, CancelledPcs, AwaitPcs, UnparkPcs, SharedPcs, TransferPcs
  <2>13. Proceeds(t)
    BY ONLY <2>4, <2>6, <2>7, <2>8, <2>10, <2>11, <2>12, Zenon DEF Proceeds
  <2> QED BY <1>4, <2>13, MoveStep DEF TransferWs
<1>5. CASE TransferWs(t) /\ ~(node[th[t].pred].ws > 0)
  <2>1. th[t].pc = "transfer_ws"
    BY ONLY <1>5 DEF TransferWs, At
  <2>2. th[t].n \in Nodes /\ th[t].n # NULL
    BY <2>1 DEF LocalsSound, TransferPcs, Thread
  <2>3. th[t].pred \in Nodes /\ th[t].pred \in Queued(order)
    BY <2>1 DEF LocalsSound, Pcs, LivePcs, FirstPcs, RetiredPcs, CancelledPcs, AwaitPcs, UnparkPcs,
       SharedPcs, TransferPcs, PredPcs, LinkedPcs, Leaving
  <2>4. node[th[t].pred].ws \in Int /\ node[th[t].pred].ws <= 0
    BY <1>5, <2>3 DEF CANCELLED, SIGNAL, CONDITION, PROPAGATE
  <2> DEFINE L == [th[t] EXCEPT !.pc = "transfer_signal", !.ws = node[th[t].pred].ws]
  <2>5. th' = [th EXCEPT ![t] = L]
    BY <1>5, <2>1, <2>2, <2>3, <2>4, Zenon DEF TransferWs, Goto
  <2>6. /\ th[t] \in Thread
        /\ "transfer_signal" \in Pcs
        /\ node[th[t].pred].ws \in Int
    BY <1>5, <2>1, <2>2, <2>3, <2>4 DEF Pcs, LivePcs, FirstPcs, RetiredPcs, CancelledPcs, AwaitPcs,
       UnparkPcs, SharedPcs, TransferPcs, Rets
  <2>7. L \in Thread
    BY ONLY <2>6, Zenon DEF Thread, Rets
  <2>8. th'[t] = L
    BY ONLY <1>0, <2>5
  <2>9. /\ th'[t].pc = "transfer_signal" /\ th'[t].i = th[t].i /\ th'[t].was = th[t].was
        /\ th'[t].pred = th[t].pred /\ th'[t].predNext = th[t].predNext
        /\ th'[t].ws = node[th[t].pred].ws /\ th'[t].s = th[t].s /\ th'[t].q = th[t].q
        /\ th'[t].h = th[t].h /\ th'[t].u = th[t].u /\ th'[t].ret = th[t].ret
        /\ th'[t].ret2 = th[t].ret2 /\ th'[t].n = th[t].n /\ th'[t].mode = th[t].mode
    BY ONLY <2>8, <2>6 DEF Thread
  <2>10. order' = order /\ program' = program /\ head' = head /\ tail' = tail /\ node' = node
    BY ONLY program' = program, <1>5 DEF TransferWs, sync
  <2>11. LocalsSound(t)'
    BY <2>1, <2>2, <2>3, <2>4, <2>6, <2>9, <2>10 DEF LocalsSound, PredPcs, LinkedPcs, Leaving, At,
       Call, Pcs, LivePcs, FirstPcs, RetiredPcs, CancelledPcs, AwaitPcs, UnparkPcs, SharedPcs,
       TransferPcs
  <2>12. ASSUME CancelledNodes' = CancelledNodes PROVE NodeSound(t)'
    BY <2>1, <2>2, <2>3, <2>4, <2>9, <2>10, <2>12 DEF NodeSound, ThisLive, Fresh, Awaiting, Leaving,
       GivenUp, LinkedPcs, At, Call, Me, Pcs, LivePcs, FirstPcs, RetiredPcs, CancelledPcs, AwaitPcs,
       UnparkPcs, SharedPcs, TransferPcs
  <2>13. ~Claiming(t)' /\ (Awaiting(t) /\ Me(t) \notin Range(order) => Awaiting(t)')
    BY <2>1, <2>2, <2>3, <2>4, <2>9, <2>10 DEF Claiming, Awaiting, At, Call, Me, Pcs, LivePcs,
       FirstPcs, RetiredPcs, CancelledPcs, AwaitPcs, UnparkPcs, SharedPcs, TransferPcs
  <2>14. Proceeds(t)
    BY ONLY <2>5, <2>7, <2>8, <2>9, <2>11, <2>12, <2>13, Zenon DEF Proceeds
  <2> QED BY <1>5, <2>14, MoveStep DEF TransferWs
<1>6. CASE TransferSignal(t) /\ node[th[t].pred].ws = th[t].ws
  <2>1. th[t].pc = "transfer_signal"
    BY ONLY <1>6 DEF TransferSignal, At
  <2>2. th[t].n \in Nodes /\ th[t].n # NULL
    BY <2>1 DEF LocalsSound, TransferPcs, Thread
  <2>3. th[t].pred \in Nodes /\ th[t].pred \in Queued(order)
    BY <2>1 DEF LocalsSound, Pcs, LivePcs, FirstPcs, RetiredPcs, CancelledPcs, AwaitPcs, UnparkPcs,
       SharedPcs, TransferPcs, PredPcs, LinkedPcs, Leaving
  <2>4. th[t].ws <= 0
    BY <2>1 DEF LocalsSound
  <2> DEFINE L == [th[t] EXCEPT !.pc = "transferred"]
  <2>5. th' = [th EXCEPT ![t] = L]
    BY <1>6, <2>1, <2>2, <2>3, <2>4 DEF TransferSignal, Goto
  <2>6. /\ th[t] \in Thread
        /\ "transferred" \in Pcs
    BY <1>6, <2>1, <2>2, <2>3, <2>4 DEF Pcs, LivePcs, FirstPcs, RetiredPcs, CancelledPcs, AwaitPcs,
       UnparkPcs, SharedPcs, TransferPcs, Rets
  <2>7. L \in Thread
    BY ONLY <2>6 DEF Thread, Rets
  <2>8. th'[t] = L
    BY ONLY <1>0, <2>5
  <2>9. /\ th'[t].pc = "transferred" /\ th'[t].i = th[t].i /\ th'[t].was = th[t].was
        /\ th'[t].pred = th[t].pred /\ th'[t].predNext = th[t].predNext /\ th'[t].ws = th[t].ws
        /\ th'[t].s = th[t].s /\ th'[t].q = th[t].q /\ th'[t].h = th[t].h /\ th'[t].u = th[t].u
        /\ th'[t].ret = th[t].ret /\ th'[t].ret2 = th[t].ret2 /\ th'[t].n = th[t].n
        /\ th'[t].mode = th[t].mode
    BY ONLY <2>8, <2>6 DEF Thread
  <2>10. order' = order /\ program' = program /\ head' = head /\ tail' = tail
    BY ONLY program' = program, <1>6 DEF TransferSignal, sync
  <2>11. LocalsSound(t)'
    BY <2>1, <2>2, <2>3, <2>4, <2>6, <2>9, <2>10 DEF LocalsSound, PredPcs, LinkedPcs, Leaving, At,
       Call, Pcs, LivePcs, FirstPcs, RetiredPcs, CancelledPcs, AwaitPcs, UnparkPcs, SharedPcs,
       TransferPcs
  <2>12. ASSUME CancelledNodes' = CancelledNodes PROVE NodeSound(t)'
    BY <2>1, <2>2, <2>3, <2>4, <2>9, <2>10, <2>12 DEF NodeSound, ThisLive, Fresh, Awaiting, Leaving,
       GivenUp, LinkedPcs, At, Call, Me, Pcs, LivePcs, FirstPcs, RetiredPcs, CancelledPcs, AwaitPcs,
       UnparkPcs, SharedPcs, TransferPcs
  <2>13. ~Claiming(t)' /\ (Awaiting(t) /\ Me(t) \notin Range(order) => Awaiting(t)')
    BY <2>1, <2>2, <2>3, <2>4, <2>9, <2>10 DEF Claiming, Awaiting, At, Call, Me, Pcs, LivePcs,
       FirstPcs, RetiredPcs, CancelledPcs, AwaitPcs, UnparkPcs, SharedPcs, TransferPcs
  <2>14. Proceeds(t)
    BY ONLY <2>5, <2>7, <2>8, <2>9, <2>11, <2>12, <2>13, Zenon DEF Proceeds
  <2>15. QuietNodes
    BY <1>6, <2>1, <2>2, <2>3, <2>4, StatusChanged DEF TransferSignal
  <2>16. state' \in Nat /\ permit' \in [Threads -> BOOLEAN] /\ intr' \in [Threads -> BOOLEAN]
    BY <1>6, <2>1, <2>2, <2>3, <2>4 DEF TransferSignal, sync, parking
  <2> QED BY <2>10, <2>14, <2>16, <2>15, LocalStep
<1>7. CASE TransferSignal(t) /\ node[th[t].pred].ws # th[t].ws
  <2>1. th[t].pc = "transfer_signal"
    BY ONLY <1>7 DEF TransferSignal, WakeTransferred, At
  <2>2. th[t].n \in Nodes /\ th[t].n # NULL
    BY <2>1 DEF LocalsSound, TransferPcs, Thread
  <2>3. th[t].pred \in Nodes /\ th[t].pred \in Queued(order)
    BY <2>1 DEF LocalsSound, Pcs, LivePcs, FirstPcs, RetiredPcs, CancelledPcs, AwaitPcs, UnparkPcs,
       SharedPcs, TransferPcs, PredPcs, LinkedPcs, Leaving
  <2>4. th[t].ws <= 0
    BY <2>1 DEF LocalsSound
  <2>5. th[t].ret2 # "pnext"
    BY <2>1 DEF LocalsSound, Pcs, LivePcs, FirstPcs, RetiredPcs, CancelledPcs, AwaitPcs, UnparkPcs,
       SharedPcs, TransferPcs
  <2> DEFINE L == [th[t] EXCEPT !.pc = "unpark_thread", !.s = th[t].n, !.ret = "transferred"]
  <2>6. th' = [th EXCEPT ![t] = L]
    BY <1>7, <2>1, <2>2, <2>3, <2>4, <2>5, Zenon DEF TransferSignal, WakeTransferred, Goto
  <2>7. /\ th[t] \in Thread
        /\ "unpark_thread" \in Pcs
        /\ th[t].n \in Nodes \cup {NULL}
    BY <1>7, <2>1, <2>2, <2>3, <2>4, <2>5 DEF Pcs, LivePcs, FirstPcs, RetiredPcs, CancelledPcs,
       AwaitPcs, UnparkPcs, SharedPcs, TransferPcs, Rets, Thread
  <2>8. L \in Thread
    BY ONLY <2>7, Zenon DEF Thread, Rets
  <2>9. th'[t] = L
    BY ONLY <1>0, <2>6
  <2>10. /\ th'[t].pc = "unpark_thread" /\ th'[t].i = th[t].i /\ th'[t].was = th[t].was
         /\ th'[t].pred = th[t].pred /\ th'[t].predNext = th[t].predNext /\ th'[t].ws = th[t].ws
         /\ th'[t].s = th[t].n /\ th'[t].q = th[t].q /\ th'[t].h = th[t].h /\ th'[t].u = th[t].u
         /\ th'[t].ret = "transferred" /\ th'[t].ret2 = th[t].ret2 /\ th'[t].n = th[t].n
         /\ th'[t].mode = th[t].mode
    BY ONLY <2>9, <2>7 DEF Thread
  <2>11. order' = order /\ program' = program /\ head' = head /\ tail' = tail
    BY ONLY program' = program, <1>7 DEF TransferSignal, WakeTransferred, sync
  <2>12. LocalsSound(t)'
    BY <2>1, <2>2, <2>3, <2>4, <2>5, <2>7, <2>10, <2>11 DEF LocalsSound, PredPcs, LinkedPcs,
       Leaving, At, Call, Pcs, LivePcs, FirstPcs, RetiredPcs, CancelledPcs, AwaitPcs, UnparkPcs,
       SharedPcs, TransferPcs
  <2>13. ASSUME CancelledNodes' = CancelledNodes PROVE NodeSound(t)'
    BY <2>1, <2>2, <2>3, <2>4, <2>5, <2>10, <2>11, <2>13 DEF NodeSound, ThisLive, Fresh, Awaiting,
       Leaving, GivenUp, LinkedPcs, At, Call, Me, Pcs, LivePcs, FirstPcs, RetiredPcs, CancelledPcs,
       AwaitPcs, UnparkPcs, SharedPcs, TransferPcs
  <2>14. ~Claiming(t)' /\ (Awaiting(t) /\ Me(t) \notin Range(order) => Awaiting(t)')
    BY <2>1, <2>2, <2>3, <2>4, <2>5, <2>10, <2>11 DEF Claiming, Awaiting, At, Call, Me, Pcs,
       LivePcs, FirstPcs, RetiredPcs, CancelledPcs, AwaitPcs, UnparkPcs, SharedPcs, TransferPcs
  <2>15. Proceeds(t)
    BY ONLY <2>6, <2>8, <2>9, <2>10, <2>12, <2>13, <2>14, Zenon DEF Proceeds
  <2>16. QuietNodes
    BY <1>7, <2>1, <2>2, <2>3, <2>4, <2>5, StatusChanged DEF TransferSignal
  <2>17. state' \in Nat /\ permit' \in [Threads -> BOOLEAN] /\ intr' \in [Threads -> BOOLEAN]
    BY <1>7, <2>1, <2>2, <2>3, <2>4, <2>5 DEF TransferSignal, WakeTransferred, sync, parking
  <2> QED BY <2>11, <2>15, <2>17, <2>16, LocalStep
<1>8. CASE Transferred(t) /\ (Call(t).call = "signalAll" /\ th[t].q # NULL)
  <2>1. th[t].pc = "transferred" /\ th[t].q # NULL
    BY ONLY <1>8 DEF Transferred, At
  <2> DEFINE L == FreshAt("all", th[t].i, FALSE, "none", NULL, th[t].q, NoRet)
  <2>2. SignalOn(t)
    BY <1>8 DEF Transferred, SignalOn
  <2>3. th' = [th EXCEPT ![t] = L]
    BY ONLY <2>2, Continuations, Zenon
  <2>4. /\ th[t] \in Thread
        /\ "all" \in Pcs
        /\ th[t].i \in Nat \ {0}
        /\ FALSE \in BOOLEAN
        /\ "none" \in {"none", "THROW_IE", "REINTERRUPT"}
        /\ NULL \in Nodes \cup {NULL}
        /\ th[t].q \in Nodes \cup {NULL}
        /\ NoRet \in Rets
    BY <1>8, <2>1 DEF Pcs, LivePcs, FirstPcs, RetiredPcs, CancelledPcs, AwaitPcs, UnparkPcs,
       SharedPcs, TransferPcs, Rets, Thread
  <2>5. /\ L \in Thread
        /\ L.pc = "all" /\ L.i = th[t].i /\ L.was = FALSE /\ L.pred = NULL /\ L.predNext = NULL
        /\ L.ws = 0 /\ L.s = NULL /\ L.q = th[t].q /\ L.h = NULL /\ L.u = NULL /\ L.ret = NoRet
        /\ L.ret2 = NoRet /\ L.n = NULL /\ L.mode = "none"
    <3>1. L = [pc |-> "all", i |-> th[t].i, was |-> FALSE, pred |-> NULL, predNext |-> NULL,
              ws |-> 0, s |-> NULL, q |-> th[t].q, h |-> NULL, u |-> NULL, ret |-> NoRet,
              ret2 |-> NoRet, n |-> NULL, mode |-> "none"]
      BY ONLY DEF FreshAt
    <3> HIDE DEF L
    <3>2. L \in Thread
      BY ONLY <3>1, <2>4 DEF Thread
    <3> QED BY ONLY <3>1, <3>2
  <2> HIDE DEF L
  <2>6. th'[t] = L
    BY ONLY <1>0, <2>3
  <2>7. /\ th'[t].pc = "all" /\ th'[t].i = th[t].i /\ th'[t].was = FALSE /\ th'[t].pred = NULL
        /\ th'[t].predNext = NULL /\ th'[t].ws = 0 /\ th'[t].s = NULL /\ th'[t].q = th[t].q
        /\ th'[t].h = NULL /\ th'[t].u = NULL /\ th'[t].ret = NoRet /\ th'[t].ret2 = NoRet
        /\ th'[t].n = NULL /\ th'[t].mode = "none"
    BY ONLY <2>6, <2>5
  <2>8. order' = order /\ program' = program /\ head' = head /\ tail' = tail /\ node' = node
    BY ONLY program' = program, <1>8 DEF Transferred, sync
  <2>9. LocalsSound(t)'
    BY <2>1, <2>4, <2>7, <2>8 DEF LocalsSound, PredPcs, LinkedPcs, Leaving, At, Call, Pcs, LivePcs,
       FirstPcs, RetiredPcs, CancelledPcs, AwaitPcs, UnparkPcs, SharedPcs, TransferPcs
  <2>10. ASSUME CancelledNodes' = CancelledNodes PROVE NodeSound(t)'
    BY <2>1, <2>7, <2>8, <2>10 DEF NodeSound, ThisLive, Fresh, Awaiting, Leaving, GivenUp,
       LinkedPcs, At, Call, Me, Pcs, LivePcs, FirstPcs, RetiredPcs, CancelledPcs, AwaitPcs,
       UnparkPcs, SharedPcs, TransferPcs
  <2>11. ~Claiming(t)' /\ (Awaiting(t) /\ Me(t) \notin Range(order) => Awaiting(t)')
    BY <2>1, <2>7, <2>8 DEF Claiming, Awaiting, At, Call, Me, Pcs, LivePcs, FirstPcs, RetiredPcs,
       CancelledPcs, AwaitPcs, UnparkPcs, SharedPcs, TransferPcs
  <2>12. Proceeds(t)
    BY ONLY <2>3, <2>5, <2>6, <2>7, <2>9, <2>10, <2>11, Zenon DEF Proceeds
  <2> QED BY <1>8, <2>12, MoveStep DEF Transferred
<1>9. CASE Transferred(t) /\ ~(Call(t).call = "signalAll" /\ th[t].q # NULL)
  <2>1. th[t].pc = "transferred"
    BY ONLY <1>9 DEF Transferred, At
  <2>2. /\ th[t].i + 1 \in Nat \ {0} /\ <<t, th[t].i + 1>> \notin Range(order)
        /\ th[t].i # Len(program[t]) => th[t].i + 1 \in DOMAIN program[t]
    BY <2>1, NextCall, Zenon
  <2> DEFINE pc == IF th[t].i = Len(program[t]) THEN "done" ELSE "start"
  <2> DEFINE L == FreshAt(pc, th[t].i + 1, FALSE, "none", NULL, NULL, NoRet)
  <2>3. th' = [th EXCEPT ![t] = L]
    BY <1>9, <2>1, <2>2, Continuations, Zenon DEF Transferred, Goto
  <2>4. /\ th[t] \in Thread
        /\ pc \in Pcs
        /\ th[t].i + 1 \in Nat \ {0}
        /\ FALSE \in BOOLEAN
        /\ "none" \in {"none", "THROW_IE", "REINTERRUPT"}
        /\ NULL \in Nodes \cup {NULL}
        /\ NULL \in Nodes \cup {NULL}
        /\ NoRet \in Rets
    BY <1>9, <2>1, <2>2 DEF Pcs, LivePcs, FirstPcs, RetiredPcs, CancelledPcs, AwaitPcs, UnparkPcs,
       SharedPcs, TransferPcs, Rets, Thread
  <2>5. /\ L \in Thread
        /\ L.pc = pc /\ L.i = th[t].i + 1 /\ L.was = FALSE /\ L.pred = NULL /\ L.predNext = NULL
        /\ L.ws = 0 /\ L.s = NULL /\ L.q = NULL /\ L.h = NULL /\ L.u = NULL /\ L.ret = NoRet
        /\ L.ret2 = NoRet /\ L.n = NULL /\ L.mode = "none"
    <3>1. L = [pc |-> pc, i |-> th[t].i + 1, was |-> FALSE, pred |-> NULL, predNext |-> NULL,
              ws |-> 0, s |-> NULL, q |-> NULL, h |-> NULL, u |-> NULL, ret |-> NoRet,
              ret2 |-> NoRet, n |-> NULL, mode |-> "none"]
      BY ONLY DEF FreshAt
    <3> HIDE DEF L, pc
    <3>2. L \in Thread
      BY ONLY <3>1, <2>4 DEF Thread
    <3> QED BY ONLY <3>1, <3>2
  <2> HIDE DEF L
  <2>6. th'[t] = L
    BY ONLY <1>0, <2>3
  <2>7. /\ th'[t].pc = pc /\ th'[t].i = th[t].i + 1 /\ th'[t].was = FALSE /\ th'[t].pred = NULL
        /\ th'[t].predNext = NULL /\ th'[t].ws = 0 /\ th'[t].s = NULL /\ th'[t].q = NULL
        /\ th'[t].h = NULL /\ th'[t].u = NULL /\ th'[t].ret = NoRet /\ th'[t].ret2 = NoRet
        /\ th'[t].n = NULL /\ th'[t].mode = "none"
    BY ONLY <2>6, <2>5
  <2>8. order' = order /\ program' = program /\ head' = head /\ tail' = tail /\ node' = node
    BY ONLY program' = program, <1>9 DEF Transferred, sync
  <2>9. LocalsSound(t)'
    BY <2>1, <2>2, <2>4, <2>7, <2>8 DEF LocalsSound, PredPcs, LinkedPcs, Leaving, At, Call, Pcs,
       LivePcs, FirstPcs, RetiredPcs, CancelledPcs, AwaitPcs, UnparkPcs, SharedPcs, TransferPcs
  <2>10. ASSUME CancelledNodes' = CancelledNodes PROVE NodeSound(t)'
    <3>1. th'[t].pc \in {"start", "done"}
      BY <2>7
    <3>2. th'[t].i = th[t].i + 1 /\ order' = order /\ <<t, th[t].i + 1>> \notin Range(order)
      BY ONLY <2>2, <2>7, <2>8
    <3>3. <<t, th'[t].i>> \notin Range(order')
      BY ONLY <3>2
    <3> QED BY <3>1, <3>3, <2>7, IdleSound
  <2>11. ~Claiming(t)' /\ ~(Awaiting(t) /\ Me(t) \notin Range(order))
    BY <2>1, <2>2, <2>7, <2>8 DEF Claiming, Awaiting, At, Call, Me, Pcs, LivePcs, FirstPcs,
       RetiredPcs, CancelledPcs, AwaitPcs, UnparkPcs, SharedPcs, TransferPcs
  <2>12. Proceeds(t)
    BY ONLY <2>3, <2>5, <2>6, <2>7, <2>9, <2>10, <2>11, Zenon DEF Proceeds
  <2> QED BY <1>9, <2>12, MoveStep DEF Transferred
<1> QED BY <1>1, <1>2, <1>3, <1>4, <1>5, <1>6, <1>7, <1>8, <1>9

=============================================================================
