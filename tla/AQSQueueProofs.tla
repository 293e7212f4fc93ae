--------------------------- MODULE AQSQueueProofs ---------------------------
(***************************************************************************)
(* Proofs about the synchronization queue, continued: the steps that change *)
(* the queue, the theorems.                                                *)
(***************************************************************************)
EXTENDS AQSProofs

-----------------------------------------------------------------------------
(* Steps that change the queue *)

\* A field of a node changes.
LEMMA PrevSet ==
    ASSUME IInv, NEW x \in Nodes, NEW y \in Nodes \cup {NULL}, node' = [node EXCEPT ![x].prev = y]
    PROVE  /\ Nodes' = Nodes /\ node' \in [Nodes -> NodeRecord]
           /\ CancelledNodes' = CancelledNodes
           /\ \A n \in Nodes : node'[n].ws = node[n].ws /\ node'[n].next = node[n].next
           /\ \A n \in Nodes \ {x} : node'[n].prev = node[n].prev
           /\ node'[x].prev = y
<1>1. node' \in [Nodes -> NodeRecord]
  BY NodeTypes DEF NodeRecord
<1>2. Nodes' = Nodes
  BY NodeTypes DEF Nodes
<1>3. /\ \A n \in Nodes : node'[n].ws = node[n].ws /\ node'[n].next = node[n].next
      /\ \A n \in Nodes \ {x} : node'[n].prev = node[n].prev
      /\ node'[x].prev = y
  BY NodeTypes
<1> QED BY <1>1, <1>2, <1>3 DEF CancelledNodes

\* The status of a node changes.
LEMMA WsSet ==
    ASSUME IInv, NEW x \in Nodes, NEW w \in {0, CANCELLED, CONDITION}, node' = [node EXCEPT ![x].ws = w]
    PROVE  /\ Nodes' = Nodes /\ node' \in [Nodes -> NodeRecord] /\ Prev' = Prev
           /\ \A n \in Nodes : node'[n].prev = node[n].prev /\ node'[n].next = node[n].next
           /\ \A n \in Nodes \ {x} : node'[n].ws = node[n].ws
           /\ node'[x].ws = w
<1>1. node' \in [Nodes -> NodeRecord]
  BY NodeTypes DEF NodeRecord
<1>2. Nodes' = Nodes
  BY NodeTypes DEF Nodes
<1>3. /\ \A n \in Nodes : node'[n].prev = node[n].prev /\ node'[n].next = node[n].next
      /\ \A n \in Nodes \ {x} : node'[n].ws = node[n].ws
      /\ node'[x].ws = w
  BY NodeTypes
<1> QED BY <1>1, <1>2, <1>3 DEF Prev

\* A node is new.
LEMMA NodeSet ==
    ASSUME IInv, NEW x \in Nodes, NEW t \in Threads, NEW w \in {0, CONDITION},
           node' = [node EXCEPT ![x] = [ws |-> w, prev |-> NULL, next |-> NULL, thread |-> t]]
    PROVE  /\ Nodes' = Nodes /\ node' \in [Nodes -> NodeRecord]
           /\ \A n \in Nodes \ {x} : node'[n] = node[n]
           /\ node'[x].ws = w /\ node'[x].next = NULL
<1> DEFINE r == [ws |-> w, prev |-> NULL, next |-> NULL, thread |-> t]
<1>1. r \in [ws : {0, CANCELLED, SIGNAL, CONDITION, PROPAGATE}, prev : Nodes \cup {NULL},
             next : Nodes \cup {NULL}, thread : Threads \cup {NULL}]
  OBVIOUS
<1>2. r.ws = w /\ r.next = NULL
  OBVIOUS
<1> HIDE DEF r
<1>3. node' = [node EXCEPT ![x] = r]
  BY DEF r
<1>4. Nodes' = Nodes
  BY <1>3, NodeTypes DEF Nodes
<1>5. node' \in [Nodes -> NodeRecord]
  BY <1>1, <1>3, NodeTypes DEF NodeRecord
<1> QED BY <1>2, <1>3, <1>4, <1>5, NodeTypes

\* The queue is not empty.
LEMMA NotEmpty ==
    ASSUME IInv, NEW n \in Range(order)
    PROVE  /\ tail # NULL /\ head # NULL /\ n \in Queued(order)
           /\ \A u \in Threads : ~At(u, "inittail")
<1>1. Shape(order, head, tail, Prev, CancelledNodes) /\ order # <<>> /\ NULL \notin Queued(order)
  BY NodeForm, Elements DEF IInv, Queued
<1>2. \A u \in Threads : At(u, "inittail") => tail = NULL
  BY DEF IInv, Sound, ClaimSound, Claiming, At
<1> QED BY <1>1, <1>2 DEF Shape, Queued

\* A step on the thread's own node in the queue
LEMMA OwnStep ==
    ASSUME IInv, NEW t \in Threads, program' = program, Me(t) \in Range(order),
           state' = state, UNCHANGED parking, order' = order,
           head' \in Nodes \cup {NULL}, tail' \in Nodes \cup {NULL},
           Nodes' = Nodes, node' \in [Nodes -> NodeRecord],
           \A n \in Nodes \ {Me(t)} : node'[n].prev = node[n].prev /\ node'[n].ws = node[n].ws,
           \A n \in Nodes : node'[n].next = node[n].next,
           node'[Me(t)].ws # CONDITION,
           Me(t) \in CancelledNodes => Me(t) \in CancelledNodes',
           Shape(order, head', tail', Prev', CancelledNodes'),
           th' = [th EXCEPT ![t] = th'[t]], th'[t] \in Thread, th'[t].i = th[t].i,
           ~Claiming(t)', ~Awaiting(t), LocalsSound(t)', NodeSound(t)',
           \/ head' = head
           \/ /\ \A u \in Threads \ {t} : th[u].pc \notin FirstPcs
              /\ \A n \in Range(order) : n[1] # t =>
                    /\ ThisLive(n) => Live(order, head', CancelledNodes', n)
                    /\ Retired(order, head, CancelledNodes, n) => Retired(order, head', CancelledNodes', n)
    PROVE  IInv'
<1>1. \A n \in Nodes \ {Me(t)} : n \in CancelledNodes' <=> n \in CancelledNodes
  BY DEF CancelledNodes
<1>2. Me(t)[1] = t /\ Queued(order) \subseteq Nodes /\ Range(order) \subseteq Queued(order)
  BY NodeForm DEF Queued
<1>3. \A n \in Range(order) : n[1] # t =>
         /\ ThisLive(n) => Live(order, head', CancelledNodes', n)
         /\ Retired(order, head, CancelledNodes, n) => Retired(order, head', CancelledNodes', n)
  BY <1>1, <1>2 DEF ThisLive, Live, Retired
<1>4. \A u \in Threads \ {t} : Claiming(u) => Mine(u) \in Nodes \ {Me(t)}
  BY <1>2 DEF IInv, Sound, ClaimSound
<1>5. \A u \in Threads : ~At(u, "inittail")
  BY NotEmpty
<1>6. Spares(t)
  BY <1>1, <1>2, <1>3, <1>4, <1>5 DEF Spares
<1>7. Sound(t)'
  BY DEF Sound, ClaimSound
<1>8. TypeOK'
  BY DEF IInv, TypeOK, parking, NodeRecord
<1>9. \A n \in Nodes : node'[n].ws = CONDITION => n \notin Queued(order) /\ n[1] # t /\ node[n].ws = CONDITION
  BY NoneWaits
<1>10. order' \in Seq(Nodes \ {Dummy}) /\ Range(order') \ Range(order) = {}
  BY DEF IInv
<1> QED BY <1>6, <1>7, <1>8, <1>9, <1>10, StepSound

\* A step on a node outside the queue
LEMMA UnqueuedStep ==
    ASSUME IInv, NEW t \in Threads, program' = program,
           state' \in Nat, UNCHANGED parking, order' = order, head' = head, tail' = tail,
           NEW x \in Nodes, x \notin Queued(order),
           Nodes' = Nodes, node' \in [Nodes -> NodeRecord],
           \A n \in Nodes \ {x} : node'[n].prev = node[n].prev /\ node'[n].ws = node[n].ws,
           \A n \in Nodes \ Queued(order) : node'[n].next = node[n].next \/ node'[n].next = NULL,
           th' = [th EXCEPT ![t] = th'[t]], th'[t] \in Thread, th'[t].i = th[t].i,
           LocalsSound(t)', ClaimSound(t)', NodeSound(t)',
           \A u \in Threads \ {t} : Claiming(u) => Mine(u) # x,
           Claiming(t)' => Mine(t)' = x /\ ~At(t, "inittail")',
           node'[x].ws = CONDITION => x = Me(t) /\ Awaiting(t)',
           \A n \in Nodes : node[n].ws = CONDITION => n[1] # t \/ n = x,
           Awaiting(t) /\ Me(t) \notin Range(order) /\ node[Me(t)].ws # CONDITION => Awaiting(t)'
    PROVE  IInv'
<1>2. /\ Shape(order, head, tail, Prev', CancelledNodes')
      /\ \A n \in Queued(order) : n \in CancelledNodes' <=> n \in CancelledNodes
  BY FrameKept
<1>3. Queued(order) \subseteq Nodes /\ Range(order) \subseteq Queued(order)
  BY NodeForm DEF Queued
<1>4. \A u \in Threads \ {t} : Claiming(u) => Mine(u) \in Nodes \ {x}
  BY DEF IInv, Sound, ClaimSound
<1>5. Spares(t)
  <2>2. \A n \in Range(order) : n[1] # t => node'[n].prev = node[n].prev
    BY <1>3
  <2> QED BY <1>2, <1>4, <2>2, SparesKept
<1>6. Sound(t)'
  BY DEF Sound
<1>7. TypeOK'
  BY DEF IInv, TypeOK, parking, NodeRecord
<1>8. \A n \in Nodes : node'[n].ws = CONDITION =>
         n \notin Queued(order) /\ ((n = Me(t) /\ Awaiting(t)') \/ (n[1] # t /\ node[n].ws = CONDITION))
  BY DEF IInv, ConditionNodes
<1>9. order' \in Seq(Nodes \ {Dummy}) /\ Range(order') \ Range(order) = {}
  BY DEF IInv
<1>10. \A u \in Threads \ {t} : Claiming(t)' /\ Claiming(u) =>
          Mine(u) # Mine(t)' /\ ~(At(t, "inittail")' /\ At(u, "inittail"))
  OBVIOUS
<1> QED BY <1>2, <1>5, <1>6, <1>7, <1>8, <1>9, <1>10, StepSound

\* A step that appends the claimed node
LEMMA AppendStep ==
    ASSUME IInv, NEW t \in Threads, program' = program, Claiming(t), tail # NULL,
           state' = state, UNCHANGED parking, head' = head, tail' = Mine(t),
           order' = Append(order, Mine(t)),
           Nodes' = Nodes, node' \in [Nodes -> NodeRecord],
           \A n \in Nodes \ {Mine(t)} : node'[n].prev = node[n].prev,
           \A n \in Nodes : node'[n].ws = node[n].ws /\ node'[n].next = node[n].next,
           node'[Mine(t)].prev = tail,
           th' = [th EXCEPT ![t] = th'[t]], th'[t] \in Thread, th'[t].i = th[t].i,
           ~Claiming(t)',
           Range(order') = Range(order) \cup {Mine(t)} /\ Live(order', head', CancelledNodes', Mine(t)) =>
              LocalsSound(t)' /\ NodeSound(t)'
    PROVE  IInv'
<1> DEFINE S == Nodes \ {Dummy}
           x == Mine(t)
<1>1. /\ x \in Nodes \ Queued(order) /\ node[x].ws \notin {CANCELLED, CONDITION}
      /\ th[t].n # NULL => th[th[t].n[1]].i = th[t].n[2]
  BY DEF IInv, Sound, ClaimSound
<1>2. x \in S /\ x \notin Range(order) /\ Queued(order) \subseteq Nodes /\ NULL \notin S /\ Dummy \notin S
  BY <1>1, NodeForm DEF Queued
<1>3. order \in Seq(S) /\ Shape(order, head, tail, Prev, CancelledNodes) /\ IsInjective(order)
  BY DEF IInv, Shape
<1>4. CancelledNodes' = CancelledNodes /\ x \notin CancelledNodes
  BY <1>1 DEF CancelledNodes
<1>5. Prev'[x] = tail /\ \A n \in Queued(order) : Prev'[n] = Prev[n]
  BY <1>1, <1>2 DEF Prev
<1>6. /\ order' \in Seq(S) /\ Range(order') = Range(order) \cup {x}
      /\ Queued(order') = Queued(order) \cup {x}
      /\ \A n \in Queued(order) : Place(order', n) = Place(order, n)
  <2> HIDE DEF S
  <2> QED BY <1>2, <1>3, PlacesAppend
<1>7. /\ Shape(order', head', tail', Prev', CancelledNodes')
      /\ Live(order', head', CancelledNodes', x)
  <2> HIDE DEF S, x
  <2>1. tail' = x /\ order' = Append(order, x)
    BY DEF x
  <2> QED BY <1>2, <1>3, <1>4, <1>5, <2>1, ShapeAppend
<1>8. head \in Queued(order)
  BY <1>3 DEF Shape
<1>9. \A n \in Range(order) :
         /\ ThisLive(n) => Live(order', head', CancelledNodes', n)
         /\ Retired(order, head, CancelledNodes, n) => Retired(order', head', CancelledNodes', n)
         /\ n \in Nodes \ {x} /\ node'[n].prev = node[n].prev
  <2>1. \A n \in Range(order) : n \in Queued(order) /\ n \in Nodes \ {x}
    BY <1>2 DEF Queued
  <2>2. \A n \in Range(order) : Place(order', n) = Place(order, n)
    BY <1>6, <2>1
  <2>3. Place(order', head') = Place(order, head)
    BY <1>6, <1>8
  <2> QED BY <1>4, <1>6, <2>1, <2>2, <2>3 DEF ThisLive, Live, Retired
<1>10. \A u \in Threads \ {t} : Claiming(u) => Mine(u) \in Nodes \ {x}
  BY OtherClaims DEF IInv, Sound, ClaimSound
<1>11. ~Awaiting(t)
  BY DEF Awaiting, Claiming, AwaitPcs, UnparkPcs
<1>12. \A u \in Threads : ~At(u, "inittail")
  BY DEF IInv, Sound, ClaimSound, Claiming, At
<1>13. Spares(t)
  BY <1>4, <1>6, <1>7, <1>9, <1>10, <1>11, <1>12 DEF Spares
<1>14. Sound(t)'
  BY <1>6, <1>7 DEF Sound, ClaimSound
<1>15. TypeOK'
  BY <1>1 DEF IInv, TypeOK, parking, NodeRecord
<1>16. \A n \in Nodes : node'[n].ws = CONDITION => n \notin Queued(order') /\ n[1] # t /\ node[n].ws = CONDITION
  BY <1>1, <1>6, <1>11, NoneWaits
<1>17. \A n \in Range(order') \ Range(order) : n[2] = th[n[1]].i
  <2>1. CASE th[t].n = NULL
    BY <1>6, <2>1, NodeForm DEF Mine
  <2>2. CASE th[t].n # NULL
    BY <1>1, <1>6, <2>2 DEF Mine
  <2> QED BY <2>1, <2>2
<1> QED BY <1>6, <1>7, <1>13, <1>14, <1>15, <1>16, <1>17, StepSound

\* The queue as the lemmas on shapes take it
LEMMA ShapeNow ==
    ASSUME IInv, NEW S, S = Nodes \ {Dummy}
    PROVE  /\ order \in Seq(S) /\ Dummy \notin S /\ NULL \notin S /\ NULL \notin Queued(order)
           /\ Shape(order, head, tail, Prev, CancelledNodes)
           /\ Queued(order) \subseteq Nodes /\ Range(order) \subseteq Queued(order)
           /\ Range(order) \subseteq S
  BY NodeForm DEF IInv, Queued

\* A live node is linked past its cancelled predecessor.
LEMMA Bypassed ==
    ASSUME IInv, NEW x, ThisLive(x), node[x].prev \in CancelledNodes,
           node' = [node EXCEPT ![x].prev = node[node[x].prev].prev]
    PROVE  /\ x \in Nodes /\ x \in Range(order) /\ x \notin CancelledNodes
           /\ node'[x].prev = node[node[x].prev].prev
           /\ node'[x].prev \in Queued(order) /\ node'[x].prev # NULL /\ node'[x].prev \in Nodes
           /\ Nodes' = Nodes /\ node' \in [Nodes -> NodeRecord] /\ CancelledNodes' = CancelledNodes
           /\ \A n \in Nodes : node'[n].ws = node[n].ws /\ node'[n].next = node[n].next
           /\ \A n \in Nodes \ {x} : node'[n].prev = node[n].prev
           /\ Shape(order, head, tail, Prev', CancelledNodes)
<1> DEFINE p == node[x].prev
           y == node[p].prev
<1>1. /\ x \in Nodes /\ x \in Range(order) /\ p \in Queued(order) /\ p \in Nodes
      /\ Prev[x] = p /\ x \notin CancelledNodes
  BY LiveBack DEF ThisLive, Live
<1>2. p \in Range(order)
  BY <1>1 DEF IInv, Shape, Queued
<1>3. y \in Queued(order) /\ y \in Nodes /\ Prev[p] = y
  BY <1>2, LiveBack
<1>4. node' = [node EXCEPT ![x].prev = y] /\ p \in CancelledNodes
  OBVIOUS
<1> HIDE DEF y, p
<1>5. /\ Nodes' = Nodes /\ node' \in [Nodes -> NodeRecord] /\ CancelledNodes' = CancelledNodes
      /\ \A n \in Nodes : node'[n].ws = node[n].ws /\ node'[n].next = node[n].next
      /\ \A n \in Nodes \ {x} : node'[n].prev = node[n].prev
      /\ node'[x].prev = y
  BY <1>1, <1>3, <1>4, PrevSet, Zenon
<1>6. Prev'[x] = Prev[Prev[x]] /\ \A n \in Queued(order) \ {x} : Prev'[n] = Prev[n]
  BY <1>1, <1>3, <1>5, ShapeNow, Zenon DEF Prev
<1>7. Shape(order, head, tail, Prev', CancelledNodes)
  <2>1. PICK S : S = Nodes \ {Dummy}
    BY Zenon
  <2> QED BY <1>1, <1>4, <1>6, <2>1, ShapeNow, ShapeBypass DEF ThisLive
<1>8. y # NULL
  BY <1>3, ShapeNow, Zenon
<1> QED BY <1>1, <1>3, <1>5, <1>7, <1>8 DEF y, p

\* The thread's node was head already.
LEMMA Cleared ==
    ASSUME IInv, NEW x, Retired(order, head, CancelledNodes, x),
           node' = [node EXCEPT ![x].prev = NULL]
    PROVE  /\ x \in Nodes /\ x \in Range(order) /\ x \notin CancelledNodes
           /\ Nodes' = Nodes /\ node' \in [Nodes -> NodeRecord] /\ CancelledNodes' = CancelledNodes
           /\ \A n \in Nodes : node'[n].ws = node[n].ws /\ node'[n].next = node[n].next
           /\ \A n \in Nodes \ {x} : node'[n].prev = node[n].prev
           /\ Shape(order, head, tail, Prev', CancelledNodes)
<1>1. x \in Nodes /\ x \in Range(order) /\ x \notin CancelledNodes /\ x \in Queued(order)
  BY ShapeNow, Zenon DEF Retired
<1>2. /\ Nodes' = Nodes /\ node' \in [Nodes -> NodeRecord] /\ CancelledNodes' = CancelledNodes
      /\ \A n \in Nodes : node'[n].ws = node[n].ws /\ node'[n].next = node[n].next
      /\ \A n \in Nodes \ {x} : node'[n].prev = node[n].prev
      /\ node'[x].prev = NULL
  BY <1>1, PrevSet, Zenon
<1>3. Prev'[x] = NULL /\ \A n \in Queued(order) \ {x} : Prev'[n] = Prev[n]
  BY <1>1, <1>2, ShapeNow, Zenon DEF Prev
<1>4. Shape(order, head, tail, Prev', CancelledNodes)
  <2>1. PICK S : S = Nodes \ {Dummy}
    BY Zenon
  <2> QED BY <1>3, <2>1, ShapeNow, ShapeClear
<1> QED BY <1>1, <1>2, <1>4

\* The thread's live node is marked.
LEMMA Marked ==
    ASSUME IInv, NEW x, ThisLive(x), node' = [node EXCEPT ![x].ws = CANCELLED]
    PROVE  /\ x \in Nodes /\ x \in Range(order) /\ x \in CancelledNodes' /\ node'[x].ws = CANCELLED
           /\ Nodes' = Nodes /\ node' \in [Nodes -> NodeRecord]
           /\ \A n \in Nodes : node'[n].prev = node[n].prev /\ node'[n].next = node[n].next
           /\ \A n \in Nodes \ {x} : node'[n].ws = node[n].ws
           /\ Shape(order, head, tail, Prev', CancelledNodes')
<1>1. x \in Nodes /\ x \in Range(order) /\ x \notin CancelledNodes
  BY ShapeNow, Zenon DEF ThisLive, Live
<1>2. /\ Nodes' = Nodes /\ node' \in [Nodes -> NodeRecord] /\ Prev' = Prev
      /\ \A n \in Nodes : node'[n].prev = node[n].prev /\ node'[n].next = node[n].next
      /\ \A n \in Nodes \ {x} : node'[n].ws = node[n].ws
      /\ node'[x].ws = CANCELLED
  BY <1>1, WsSet, Zenon
<1>3. CancelledNodes' = CancelledNodes \cup {x}
  BY <1>1, <1>2 DEF CancelledNodes
<1>4. Shape(order, head, tail, Prev, CancelledNodes \cup {x})
  <2>1. PICK S : S = Nodes \ {Dummy}
    BY Zenon
  <2> QED BY <2>1, ShapeNow, ShapeMark DEF ThisLive
<1> QED BY <1>1, <1>2, <1>3, <1>4

\* The thread's node, the first live one, becomes head.
LEMMA HeadMoves ==
    ASSUME IInv, NEW t \in Threads, th[t].pc \in FirstPcs, node' = node, order' = order, head' = Me(t)
    PROVE  /\ Me(t) \in Nodes /\ Me(t) \in Range(order)
           /\ Nodes' = Nodes /\ node' \in [Nodes -> NodeRecord] /\ CancelledNodes' = CancelledNodes
           /\ Shape(order, head', tail, Prev', CancelledNodes')
           /\ Retired(order', head', CancelledNodes', Me(t))
           /\ \A u \in Threads \ {t} : th[u].pc \notin FirstPcs
           /\ \A n \in Range(order) : n[1] # t =>
                 /\ ThisLive(n) => Live(order, head', CancelledNodes', n)
                 /\ Retired(order, head, CancelledNodes, n) => Retired(order, head', CancelledNodes', n)
<1>1. ASSUME NEW u \in Threads, th[u].pc \in FirstPcs
      PROVE  /\ ThisLive(Me(u)) /\ Prev[Me(u)] = head /\ Me(u) \in Nodes /\ Me(u) \in Range(order)
             /\ Me(u)[1] = u
  <2>1. ThisLive(Me(u)) /\ th[u].pred = node[Me(u)].prev /\ th[u].pred = head
    BY <1>1 DEF IInv, Sound, NodeSound, LivePcs, LinkedPcs
  <2> QED BY <2>1, LiveBack, NodeForm, Zenon
<1>2. Prev' = Prev /\ CancelledNodes' = CancelledNodes /\ Nodes' = Nodes
  BY DEF Prev, CancelledNodes, Nodes
<1>3. node' \in [Nodes -> NodeRecord]
  BY NodeTypes DEF NodeRecord
<1>4. PICK S : S = Nodes \ {Dummy}
  BY Zenon
<1>5. /\ Shape(order, Me(t), tail, Prev, CancelledNodes) /\ Retired(order, Me(t), CancelledNodes, Me(t))
      /\ \A y : Retired(order, head, CancelledNodes, y) => Retired(order, Me(t), CancelledNodes, y)
      /\ \A y : ThisLive(y) /\ y # Me(t) => Live(order, Me(t), CancelledNodes, y)
  BY <1>1, <1>4, ShapeNow, ShapeHead, Zenon DEF ThisLive
<1>6. ASSUME NEW u \in Threads \ {t} PROVE th[u].pc \notin FirstPcs
  <2> SUFFICES ASSUME th[u].pc \in FirstPcs PROVE FALSE
    OBVIOUS
  <2>1. Me(u) # Me(t) /\ Prev[Me(u)] = head
    BY <1>1
  <2>2. PICK x, y : x = Me(t) /\ y = Me(u)
    OBVIOUS
  <2>3. Live(order, head, CancelledNodes, x) /\ Live(order, head, CancelledNodes, y) /\ Prev[x] = head
    BY <1>1, <2>2 DEF ThisLive
  <2>4. x # y => Prev[y] # head
    BY ONLY <1>4, <2>3, IInv, ShapeNow, OneFirst, Zenon
  <2> QED BY <2>1, <2>2, <2>4
<1> QED BY <1>1, <1>2, <1>3, <1>5, <1>6

\* The cancelled tail moves itself out.
LEMMA TailMoves ==
    ASSUME IInv, tail \in Range(order), tail \in CancelledNodes, node' = node, order' = order,
           head' = head, tail' = node[tail].prev
    PROVE  /\ tail' \in Nodes /\ Shape(order, head', tail', Prev', CancelledNodes')
<1>1. tail' = Prev[tail] /\ tail' \in Nodes
  BY LiveBack
<1>2. Prev' = Prev /\ CancelledNodes' = CancelledNodes
  BY DEF Prev, CancelledNodes, Nodes
<1>3. PICK S : S = Nodes \ {Dummy}
  BY Zenon
<1>4. Shape(order, head, Prev[tail], Prev, CancelledNodes)
  BY <1>3, ShapeNow, ShapeTailBack
<1> QED BY <1>1, <1>2, <1>4

\* A node in the queue does not wait for a signal.
LEMMA QueuedStatus ==
    ASSUME IInv, NEW n \in Range(order)
    PROVE  node[n].ws # CONDITION
  BY NodeForm DEF IInv, ConditionNodes, Queued

\* What is known of a claimed node
LEMMA ClaimedNode ==
    ASSUME IInv, NEW t \in Threads, Claiming(t)
    PROVE  /\ Mine(t) \in Nodes /\ Mine(t) \notin Queued(order) /\ Mine(t) \notin Range(order)
           /\ Mine(t) # Dummy /\ Mine(t) # NULL
           /\ node[Mine(t)].ws \notin {CANCELLED, CONDITION}
           /\ ~Awaiting(t)
           /\ th[t].n # NULL => /\ Mine(t) = th[t].n /\ th[t].n[1] \in Threads \ {t}
                               /\ th[th[t].n[1]].i = th[t].n[2] /\ Awaiting(th[t].n[1])
           /\ At(t, "transfer_tail") => node[th[t].n].prev = th[t].pred
           /\ At(t, "inittail") => tail = NULL /\ head = Dummy
<1>1. /\ Mine(t) \in Nodes \ Queued(order)
      /\ node[Mine(t)].ws \notin {CANCELLED, CONDITION}
      /\ th[t].n # NULL => th[th[t].n[1]].i = th[t].n[2] /\ Awaiting(th[t].n[1])
      /\ At(t, "transfer_tail") => node[th[t].n].prev = th[t].pred
      /\ At(t, "inittail") => tail = NULL /\ head = Dummy
  BY DEF IInv, Sound, ClaimSound
<1>2. ~Awaiting(t)
  BY DEF Awaiting, Claiming, AwaitPcs, UnparkPcs
<1>3. Mine(t) # Dummy /\ Mine(t) # NULL /\ Mine(t) \notin Range(order)
  BY <1>1, NodeForm DEF Queued
<1>4. ASSUME th[t].n # NULL PROVE Mine(t) = th[t].n /\ th[t].n[1] \in Threads \ {t}
  <2>1. Mine(t) = th[t].n
    BY <1>4 DEF Mine
  <2>2. th[t].n[1] \in Threads
    BY <1>1, <1>3, <2>1, NodeForm
  <2> QED BY <1>1, <1>2, <1>4, <2>1, <2>2
<1> QED BY <1>1, <1>2, <1>3, <1>4

\* A claim is kept, or made, for a node x.
LEMMA ClaimKept ==
    ASSUME IInv, NEW t \in Threads, th' = [th EXCEPT ![t] = th'[t]], Nodes' = Nodes, order' = order,
           program' = program, NEW x \in Nodes, x \notin Queued(order),
           node'[x].ws \notin {CANCELLED, CONDITION},
           th'[t].n = NULL => x = <<t, th'[t].i>>,
           th'[t].n # NULL => /\ x = th'[t].n /\ x[1] \in Threads \ {t}
                             /\ th[x[1]].i = x[2] /\ Awaiting(x[1]),
           th'[t].pc \in {"enq", "transfer_tail"},
           th'[t].pc = "transfer_tail" => node'[th'[t].n].prev = th'[t].pred
    PROVE  ClaimSound(t)' /\ (Claiming(t)' => Mine(t)' = x /\ ~At(t, "inittail")')
<1>1. Mine(t)' = x
  BY DEF Mine, Me
<1>2. ASSUME th'[t].n # NULL PROVE th'[x[1]].i = x[2] /\ Awaiting(x[1])'
  <2>1. th'[x[1]] = th[x[1]]
    BY <1>2 DEF IInv
  <2> QED BY <1>2, <2>1 DEF Awaiting, Call
<1> QED BY <1>1, <1>2 DEF ClaimSound, At, Queued

\* The steps on a node in the queue that change the shape of the queue
LEMMA QueueSteps ==
    ASSUME IInv, NEW t \in Threads, program' = program,
           Skip(t) \/ CancelSkip(t) \/ CancelMark(t) \/ SetHeadPrev(t) \/ SetHead(t)
           \/ CancelTail(t)
    PROVE  IInv'
<1> USE Locals, NodeForm, NoReturn
<1>0. th \in [Threads -> Thread] /\ t \in Threads
  OBVIOUS
<1>1. CASE Skip(t) /\ node[th[t].pred].ws > 0
  <2>1. th[t].pc = "skip"
    BY ONLY <1>1 DEF Skip, At
  <2>2. /\ ThisLive(Me(t)) /\ Me(t) \in Range(order) /\ Me(t) \in Nodes /\ Me(t)[1] = t
        /\ node[Me(t)].prev \in Queued(order) /\ node[Me(t)].prev \in Nodes /\ node[Me(t)].prev # NULL
    BY <2>1, LiveBack DEF NodeSound, LivePcs, FirstPcs
  <2>3. th[t].pred = node[Me(t)].prev
    BY <2>1 DEF NodeSound, At, LinkedPcs
  <2>4. /\ node' = [node EXCEPT ![Me(t)].prev = node[node[Me(t)].prev].prev]
        /\ node[node[Me(t)].prev].ws > 0
    BY <1>1, <2>2, <2>3 DEF Skip, CANCELLED, SIGNAL, CONDITION, PROPAGATE
  <2>5. node[Me(t)].prev \in CancelledNodes
    BY <2>2, <2>4 DEF CancelledNodes, CANCELLED, SIGNAL, CONDITION, PROPAGATE
  <2> DEFINE p == node[node[Me(t)].prev].prev
  <2> DEFINE L == [th[t] EXCEPT !.pred = p]
  <2>6. th' = [th EXCEPT ![t] = L]
    BY <1>1, <2>1, <2>2, <2>3, <2>4, <2>5 DEF Skip, CANCELLED, SIGNAL, CONDITION, PROPAGATE
  <2>7. /\ th[t] \in Thread
        /\ p \in Nodes \cup {NULL}
    BY <1>1, <2>1, <2>2, <2>3, <2>4, <2>5 DEF Pcs, LivePcs, FirstPcs, RetiredPcs, CancelledPcs,
       AwaitPcs, UnparkPcs, SharedPcs, TransferPcs, Rets
  <2>8. L \in Thread
    <3> HIDE DEF p
    <3> QED BY ONLY <2>7, Zenon DEF Thread, Rets
  <2>9. th'[t] = L
    BY ONLY <1>0, <2>6
  <2>10. /\ th'[t].pc = "skip" /\ th'[t].i = th[t].i /\ th'[t].was = th[t].was /\ th'[t].pred = p
         /\ th'[t].predNext = th[t].predNext /\ th'[t].ws = th[t].ws /\ th'[t].s = th[t].s
         /\ th'[t].q = th[t].q /\ th'[t].h = th[t].h /\ th'[t].u = th[t].u /\ th'[t].ret = th[t].ret
         /\ th'[t].ret2 = th[t].ret2 /\ th'[t].n = th[t].n /\ th'[t].mode = th[t].mode
    BY ONLY <2>1, <2>9, <2>7 DEF Thread
  <2>11. /\ p \in Queued(order) /\ p \in Nodes /\ p # NULL /\ node'[Me(t)].prev = p
         /\ Nodes' = Nodes /\ node' \in [Nodes -> NodeRecord] /\ CancelledNodes' = CancelledNodes
         /\ \A n \in Nodes : node'[n].ws = node[n].ws /\ node'[n].next = node[n].next
         /\ \A n \in Nodes \ {Me(t)} : node'[n].prev = node[n].prev
         /\ Shape(order, head, tail, Prev', CancelledNodes)
    BY <2>1, <2>2, <2>3, <2>4, <2>5, Bypassed, Zenon
  <2>12. order' = order /\ program' = program /\ state' = state /\ UNCHANGED parking /\ head' = head /\ tail' = tail
    BY <1>1, <2>1, <2>2, <2>3, <2>4, <2>5 DEF Skip, sync
  <2>13. head' \in Nodes \cup {NULL} /\ tail' \in Nodes \cup {NULL}
    BY <1>1, <2>11, <2>1, <2>2, <2>3, <2>4, <2>5 DEF Skip, sync
  <2>14. LocalsSound(t)'
    BY <2>1, <2>2, <2>3, <2>4, <2>5, <2>11, <2>11, <2>12, <2>13, <2>7, <2>10 DEF LocalsSound,
       PredPcs, LinkedPcs, Leaving, At, Call, Pcs, LivePcs, FirstPcs, RetiredPcs, CancelledPcs,
       AwaitPcs, UnparkPcs, SharedPcs, TransferPcs
  <2>15. NodeSound(t)'
    BY <2>1, <2>2, <2>3, <2>4, <2>5, <2>11, <2>11, <2>12, <2>13, <2>14, <2>10, Zenon DEF NodeSound,
       ThisLive, Fresh, Awaiting, Leaving, GivenUp, LinkedPcs, At, Call, Me, Pcs, LivePcs, FirstPcs,
       RetiredPcs, CancelledPcs, AwaitPcs, UnparkPcs, SharedPcs, TransferPcs
  <2>16. ~Claiming(t)' /\ ~Awaiting(t)
    BY <2>1, <2>2, <2>3, <2>4, <2>5, <2>11, <2>12, <2>13, <2>14, <2>15, <2>10, Zenon DEF Claiming,
       Awaiting, At, Call, Me, Pcs, LivePcs, FirstPcs, RetiredPcs, CancelledPcs, AwaitPcs,
       UnparkPcs, SharedPcs, TransferPcs
  <2>17. node'[Me(t)].ws # CONDITION
    BY <2>1, <2>2, <2>3, <2>4, <2>5, <2>11, <2>12, <2>13, <2>14, <2>15, <2>16, QueuedStatus
       DEF CONDITION, CANCELLED
  <2>18. th' = [th EXCEPT ![t] = th'[t]] /\ th'[t] \in Thread /\ th'[t].i = th[t].i
    BY <2>6, <2>8, <2>10, Zenon
  <2> QED BY ONLY IInv, program' = program, <2>11, <2>12, <2>13, <2>14, <2>15, <2>16, <2>17, <2>18,
             <2>1, <2>2, <2>3, <2>4, <2>5, OwnStep
<1>2. CASE CancelSkip(t) /\ node[node[Me(t)].prev].ws > 0
  <2>1. th[t].pc = "cancel_skip"
    BY ONLY <1>2 DEF CancelSkip, At
  <2>2. /\ ThisLive(Me(t)) /\ Me(t) \in Range(order) /\ Me(t) \in Nodes /\ Me(t)[1] = t
        /\ node[Me(t)].prev \in Queued(order) /\ node[Me(t)].prev \in Nodes /\ node[Me(t)].prev # NULL
    BY <2>1, LiveBack DEF NodeSound, LivePcs, FirstPcs
  <2>3. node[Me(t)].prev \in CancelledNodes
    BY <1>2, <1>2, <2>1, <2>2 DEF CancelledNodes, CANCELLED, SIGNAL, CONDITION, PROPAGATE
  <2>4. node' = [node EXCEPT ![Me(t)].prev = node[node[Me(t)].prev].prev] /\ th' = th
    BY <1>2, <1>2, <2>1, <2>2, <2>3 DEF CancelSkip, CANCELLED, SIGNAL, CONDITION, PROPAGATE
  <2> DEFINE L == [th[t] EXCEPT !.pc = "cancel_skip"]
  <2>5. L = th[t]
    BY ONLY <2>1, Locals, IInv DEF Thread
  <2>6. th' = [th EXCEPT ![t] = L]
    BY <1>2, <2>1, <2>2, <2>3, <2>4, <2>5 DEF CancelSkip, Goto
  <2>7. /\ th[t] \in Thread
        /\ "cancel_skip" \in Pcs
    BY <1>2, <2>1, <2>2, <2>3, <2>4 DEF Pcs, LivePcs, FirstPcs, RetiredPcs, CancelledPcs, AwaitPcs,
       UnparkPcs, SharedPcs, TransferPcs, Rets
  <2>8. L \in Thread
    BY ONLY <2>7 DEF Thread, Rets
  <2>9. th'[t] = L
    BY ONLY <1>0, <2>6
  <2>10. /\ th'[t].pc = "cancel_skip" /\ th'[t].i = th[t].i /\ th'[t].was = th[t].was
         /\ th'[t].pred = th[t].pred /\ th'[t].predNext = th[t].predNext /\ th'[t].ws = th[t].ws
         /\ th'[t].s = th[t].s /\ th'[t].q = th[t].q /\ th'[t].h = th[t].h /\ th'[t].u = th[t].u
         /\ th'[t].ret = th[t].ret /\ th'[t].ret2 = th[t].ret2 /\ th'[t].n = th[t].n
         /\ th'[t].mode = th[t].mode
    BY ONLY <2>9, <2>7 DEF Thread
  <2>11. /\ Nodes' = Nodes /\ node' \in [Nodes -> NodeRecord] /\ CancelledNodes' = CancelledNodes
         /\ \A n \in Nodes : node'[n].ws = node[n].ws /\ node'[n].next = node[n].next
         /\ \A n \in Nodes \ {Me(t)} : node'[n].prev = node[n].prev
         /\ Shape(order, head, tail, Prev', CancelledNodes)
    BY <2>1, <2>2, <2>3, <2>4, Bypassed, Zenon
  <2>12. order' = order /\ program' = program /\ state' = state /\ UNCHANGED parking /\ head' = head /\ tail' = tail
    BY <1>2, <2>1, <2>2, <2>3, <2>4 DEF CancelSkip, sync
  <2>13. head' \in Nodes \cup {NULL} /\ tail' \in Nodes \cup {NULL}
    BY <1>2, <2>11, <2>1, <2>2, <2>3, <2>4 DEF CancelSkip, sync
  <2>14. LocalsSound(t)'
    BY <2>1, <2>2, <2>3, <2>4, <2>11, <2>11, <2>12, <2>13, <2>7, <2>10 DEF LocalsSound, PredPcs,
       LinkedPcs, Leaving, At, Call, Pcs, LivePcs, FirstPcs, RetiredPcs, CancelledPcs, AwaitPcs,
       UnparkPcs, SharedPcs, TransferPcs
  <2>15. NodeSound(t)'
    BY <2>1, <2>2, <2>3, <2>4, <2>11, <2>11, <2>12, <2>13, <2>14, <2>10, Zenon DEF NodeSound,
       ThisLive, Fresh, Awaiting, Leaving, GivenUp, LinkedPcs, At, Call, Me, Pcs, LivePcs, FirstPcs,
       RetiredPcs, CancelledPcs, AwaitPcs, UnparkPcs, SharedPcs, TransferPcs
  <2>16. ~Claiming(t)' /\ ~Awaiting(t)
    BY <2>1, <2>2, <2>3, <2>4, <2>11, <2>12, <2>13, <2>14, <2>15, <2>10 DEF Claiming, Awaiting, At,
       Call, Me, Pcs, LivePcs, FirstPcs, RetiredPcs, CancelledPcs, AwaitPcs, UnparkPcs, SharedPcs,
       TransferPcs
  <2>17. node'[Me(t)].ws # CONDITION
    BY <2>1, <2>2, <2>3, <2>4, <2>11, <2>12, <2>13, <2>14, <2>15, <2>16, QueuedStatus DEF CONDITION,
       CANCELLED
  <2>18. th' = [th EXCEPT ![t] = th'[t]] /\ th'[t] \in Thread /\ th'[t].i = th[t].i
    BY <2>6, <2>8, <2>10, Zenon
  <2> QED BY ONLY IInv, program' = program, <2>11, <2>12, <2>13, <2>14, <2>15, <2>16, <2>17, <2>18,
             <2>1, <2>2, <2>3, <2>4, OwnStep
<1>3. CASE CancelSkip(t) /\ ~(node[node[Me(t)].prev].ws > 0)
  <2>1. th[t].pc = "cancel_skip"
    BY ONLY <1>3 DEF CancelSkip, At
  <2>2. /\ ThisLive(Me(t)) /\ Me(t) \in Range(order) /\ Me(t) \in Nodes /\ Me(t)[1] = t
        /\ node[Me(t)].prev \in Queued(order) /\ node[Me(t)].prev \in Nodes /\ node[Me(t)].prev # NULL
    BY <2>1, LiveBack DEF NodeSound, LivePcs, FirstPcs
  <2> DEFINE L == [th[t] EXCEPT !.pc = "cancel_next", !.pred = node[Me(t)].prev]
  <2>3. th' = [th EXCEPT ![t] = L]
    BY <1>3, <2>1, <2>2, Zenon DEF CancelSkip, Goto
  <2>4. /\ th[t] \in Thread
        /\ "cancel_next" \in Pcs
        /\ node[Me(t)].prev \in Nodes \cup {NULL}
    BY <1>3, <2>1, <2>2 DEF Pcs, LivePcs, FirstPcs, RetiredPcs, CancelledPcs, AwaitPcs, UnparkPcs,
       SharedPcs, TransferPcs, Rets
  <2>5. L \in Thread
    BY ONLY <2>4, Zenon DEF Thread, Rets
  <2>6. th'[t] = L
    BY ONLY <1>0, <2>3
  <2>7. /\ th'[t].pc = "cancel_next" /\ th'[t].i = th[t].i /\ th'[t].was = th[t].was
        /\ th'[t].pred = node[Me(t)].prev /\ th'[t].predNext = th[t].predNext /\ th'[t].ws = th[t].ws
        /\ th'[t].s = th[t].s /\ th'[t].q = th[t].q /\ th'[t].h = th[t].h /\ th'[t].u = th[t].u
        /\ th'[t].ret = th[t].ret /\ th'[t].ret2 = th[t].ret2 /\ th'[t].n = th[t].n
        /\ th'[t].mode = th[t].mode
    BY ONLY <2>6, <2>4 DEF Thread
  <2>8. order' = order /\ program' = program /\ head' = head /\ tail' = tail /\ node' = node
    BY ONLY program' = program, <1>3 DEF CancelSkip, sync
  <2>9. LocalsSound(t)'
    BY <2>1, <2>2, <2>4, <2>7, <2>8 DEF LocalsSound, PredPcs, LinkedPcs, Leaving, At, Call, Pcs,
       LivePcs, FirstPcs, RetiredPcs, CancelledPcs, AwaitPcs, UnparkPcs, SharedPcs, TransferPcs
  <2>10. ASSUME CancelledNodes' = CancelledNodes PROVE NodeSound(t)'
    BY <2>1, <2>2, <2>7, <2>8, <2>10 DEF NodeSound, ThisLive, Fresh, Awaiting, Leaving, GivenUp,
       LinkedPcs, At, Call, Me, Pcs, LivePcs, FirstPcs, RetiredPcs, CancelledPcs, AwaitPcs,
       UnparkPcs, SharedPcs, TransferPcs
  <2>11. ~Claiming(t)' /\ (Awaiting(t) /\ Me(t) \notin Range(order) => Awaiting(t)')
    BY <2>1, <2>2, <2>7, <2>8 DEF Claiming, Awaiting, At, Call, Me, Pcs, LivePcs, FirstPcs,
       RetiredPcs, CancelledPcs, AwaitPcs, UnparkPcs, SharedPcs, TransferPcs
  <2>12. Proceeds(t)
    BY ONLY <2>3, <2>5, <2>6, <2>7, <2>9, <2>10, <2>11, Zenon DEF Proceeds
  <2> QED BY <1>3, <2>12, MoveStep DEF CancelSkip
<1>4. CASE CancelMark(t)
  <2>1. th[t].pc = "cancel_mark"
    BY ONLY <1>4 DEF CancelMark, At
  <2>2. /\ ThisLive(Me(t)) /\ Me(t) \in Range(order) /\ Me(t) \in Nodes /\ Me(t)[1] = t
        /\ node[Me(t)].prev \in Queued(order) /\ node[Me(t)].prev \in Nodes /\ node[Me(t)].prev # NULL
    BY <2>1, LiveBack DEF NodeSound, LivePcs, FirstPcs
  <2> DEFINE L == [th[t] EXCEPT !.pc = "cancel_tail"]
  <2>3. th' = [th EXCEPT ![t] = L]
    BY <1>4, <2>1, <2>2 DEF CancelMark, Goto
  <2>4. /\ th[t] \in Thread
        /\ "cancel_tail" \in Pcs
    BY <1>4, <2>1, <2>2 DEF Pcs, LivePcs, FirstPcs, RetiredPcs, CancelledPcs, AwaitPcs, UnparkPcs,
       SharedPcs, TransferPcs, Rets
  <2>5. L \in Thread
    BY ONLY <2>4 DEF Thread, Rets
  <2>6. th'[t] = L
    BY ONLY <1>0, <2>3
  <2>7. /\ th'[t].pc = "cancel_tail" /\ th'[t].i = th[t].i /\ th'[t].was = th[t].was
        /\ th'[t].pred = th[t].pred /\ th'[t].predNext = th[t].predNext /\ th'[t].ws = th[t].ws
        /\ th'[t].s = th[t].s /\ th'[t].q = th[t].q /\ th'[t].h = th[t].h /\ th'[t].u = th[t].u
        /\ th'[t].ret = th[t].ret /\ th'[t].ret2 = th[t].ret2 /\ th'[t].n = th[t].n
        /\ th'[t].mode = th[t].mode
    BY ONLY <2>6, <2>4 DEF Thread
  <2>8. /\ Me(t) \in CancelledNodes' /\ node'[Me(t)].ws = CANCELLED /\ Nodes' = Nodes /\ node' \in [Nodes -> NodeRecord]
        /\ \A n \in Nodes : node'[n].prev = node[n].prev /\ node'[n].next = node[n].next
        /\ \A n \in Nodes \ {Me(t)} : node'[n].ws = node[n].ws
        /\ Shape(order, head, tail, Prev', CancelledNodes')
    BY <1>4, <2>1, <2>2, Marked, Zenon DEF CancelMark
  <2>9. order' = order /\ program' = program /\ state' = state /\ UNCHANGED parking /\ head' = head /\ tail' = tail
    BY <1>4, <2>1, <2>2 DEF CancelMark, sync
  <2>10. head' \in Nodes \cup {NULL} /\ tail' \in Nodes \cup {NULL}
    BY <1>4, <2>8, <2>1, <2>2 DEF CancelMark, sync
  <2>11. LocalsSound(t)'
    BY <2>1, <2>2, <2>8, <2>8, <2>9, <2>10, <2>4, <2>7 DEF LocalsSound, PredPcs, LinkedPcs, Leaving,
       At, Call, Pcs, LivePcs, FirstPcs, RetiredPcs, CancelledPcs, AwaitPcs, UnparkPcs, SharedPcs,
       TransferPcs
  <2>12. NodeSound(t)'
    BY <2>1, <2>2, <2>8, <2>8, <2>9, <2>10, <2>11, <2>7 DEF NodeSound, ThisLive, Fresh, Awaiting,
       Leaving, GivenUp, LinkedPcs, At, Call, Me, Pcs, LivePcs, FirstPcs, RetiredPcs, CancelledPcs,
       AwaitPcs, UnparkPcs, SharedPcs, TransferPcs
  <2>13. ~Claiming(t)' /\ ~Awaiting(t)
    BY <2>1, <2>2, <2>8, <2>9, <2>10, <2>11, <2>12, <2>7 DEF Claiming, Awaiting, At, Call, Me, Pcs,
       LivePcs, FirstPcs, RetiredPcs, CancelledPcs, AwaitPcs, UnparkPcs, SharedPcs, TransferPcs
  <2>14. node'[Me(t)].ws # CONDITION
    BY <2>1, <2>2, <2>8, <2>9, <2>10, <2>11, <2>12, <2>13, QueuedStatus DEF CONDITION, CANCELLED
  <2>15. th' = [th EXCEPT ![t] = th'[t]] /\ th'[t] \in Thread /\ th'[t].i = th[t].i
    BY <2>3, <2>5, <2>7, Zenon
  <2> QED BY ONLY IInv, program' = program, <2>8, <2>9, <2>10, <2>11, <2>12, <2>13, <2>14, <2>15,
             <2>1, <2>2, OwnStep
<1>5. CASE SetHeadPrev(t)
  <2>1. th[t].pc = "sethead_prev"
    BY ONLY <1>5 DEF SetHeadPrev, At
  <2>2. Retired(order, head, CancelledNodes, Me(t))
    BY <2>1 DEF NodeSound, Leaving, RetiredPcs
  <2> DEFINE pc == IF Call(t).shared THEN "propagate" ELSE "pnext"
  <2> DEFINE L == [th[t] EXCEPT !.pc = pc]
  <2>3. th' = [th EXCEPT ![t] = L]
    BY <1>5, <2>1, <2>2 DEF SetHeadPrev, Goto
  <2>4. /\ th[t] \in Thread
        /\ pc \in Pcs
    BY <1>5, <2>1, <2>2 DEF Pcs, LivePcs, FirstPcs, RetiredPcs, CancelledPcs, AwaitPcs, UnparkPcs,
       SharedPcs, TransferPcs, Rets
  <2>5. L \in Thread
    <3> HIDE DEF pc
    <3> QED BY ONLY <2>4 DEF Thread, Rets
  <2>6. th'[t] = L
    BY ONLY <1>0, <2>3
  <2>7. /\ th'[t].pc = pc /\ th'[t].i = th[t].i /\ th'[t].was = th[t].was /\ th'[t].pred = th[t].pred
        /\ th'[t].predNext = th[t].predNext /\ th'[t].ws = th[t].ws /\ th'[t].s = th[t].s
        /\ th'[t].q = th[t].q /\ th'[t].h = th[t].h /\ th'[t].u = th[t].u /\ th'[t].ret = th[t].ret
        /\ th'[t].ret2 = th[t].ret2 /\ th'[t].n = th[t].n /\ th'[t].mode = th[t].mode
    BY ONLY <2>6, <2>4 DEF Thread
  <2>8. /\ Me(t) \in Nodes /\ Me(t) \in Range(order) /\ Nodes' = Nodes /\ node' \in [Nodes -> NodeRecord] /\ CancelledNodes' = CancelledNodes
        /\ \A n \in Nodes : node'[n].ws = node[n].ws /\ node'[n].next = node[n].next
        /\ \A n \in Nodes \ {Me(t)} : node'[n].prev = node[n].prev
        /\ Shape(order, head, tail, Prev', CancelledNodes)
    BY <1>5, <2>1, <2>2, Cleared, Zenon DEF SetHeadPrev
  <2>9. order' = order /\ program' = program /\ state' = state /\ UNCHANGED parking /\ head' = head /\ tail' = tail
    BY <1>5, <2>1, <2>2 DEF SetHeadPrev, sync
  <2>10. head' \in Nodes \cup {NULL} /\ tail' \in Nodes \cup {NULL}
    BY <1>5, <2>8, <2>1, <2>2 DEF SetHeadPrev, sync
  <2>11. LocalsSound(t)'
    BY <2>1, <2>2, <2>8, <2>8, <2>9, <2>10, <2>4, <2>7 DEF LocalsSound, PredPcs, LinkedPcs, Leaving,
       At, Call, Pcs, LivePcs, FirstPcs, RetiredPcs, CancelledPcs, AwaitPcs, UnparkPcs, SharedPcs,
       TransferPcs
  <2>12. NodeSound(t)'
    BY <2>1, <2>2, <2>8, <2>8, <2>9, <2>10, <2>11, <2>7 DEF NodeSound, ThisLive, Fresh, Awaiting,
       Leaving, GivenUp, LinkedPcs, At, Call, Me, Pcs, LivePcs, FirstPcs, RetiredPcs, CancelledPcs,
       AwaitPcs, UnparkPcs, SharedPcs, TransferPcs
  <2>13. ~Claiming(t)' /\ ~Awaiting(t)
    BY <2>1, <2>2, <2>8, <2>9, <2>10, <2>11, <2>12, <2>7 DEF Claiming, Awaiting, At, Call, Me, Pcs,
       LivePcs, FirstPcs, RetiredPcs, CancelledPcs, AwaitPcs, UnparkPcs, SharedPcs, TransferPcs
  <2>14. node'[Me(t)].ws # CONDITION
    BY <2>1, <2>2, <2>8, <2>9, <2>10, <2>11, <2>12, <2>13, QueuedStatus DEF CONDITION, CANCELLED
  <2>15. th' = [th EXCEPT ![t] = th'[t]] /\ th'[t] \in Thread /\ th'[t].i = th[t].i
    BY <2>3, <2>5, <2>7, Zenon
  <2> QED BY ONLY IInv, program' = program, <2>8, <2>9, <2>10, <2>11, <2>12, <2>13, <2>14, <2>15,
             <2>1, <2>2, OwnStep
<1>6. CASE SetHead(t)
  <2>1. th[t].pc = "sethead"
    BY ONLY <1>6 DEF SetHead, At
  <2> DEFINE L == [th[t] EXCEPT !.pc = "sethead_thread"]
  <2>2. th' = [th EXCEPT ![t] = L]
    BY <1>6, <2>1 DEF SetHead, Goto
  <2>3. /\ th[t] \in Thread
        /\ "sethead_thread" \in Pcs
    BY <1>6, <2>1 DEF Pcs, LivePcs, FirstPcs, RetiredPcs, CancelledPcs, AwaitPcs, UnparkPcs,
       SharedPcs, TransferPcs, Rets
  <2>4. L \in Thread
    BY ONLY <2>3 DEF Thread, Rets
  <2>5. th'[t] = L
    BY ONLY <1>0, <2>2
  <2>6. /\ th'[t].pc = "sethead_thread" /\ th'[t].i = th[t].i /\ th'[t].was = th[t].was
        /\ th'[t].pred = th[t].pred /\ th'[t].predNext = th[t].predNext /\ th'[t].ws = th[t].ws
        /\ th'[t].s = th[t].s /\ th'[t].q = th[t].q /\ th'[t].h = th[t].h /\ th'[t].u = th[t].u
        /\ th'[t].ret = th[t].ret /\ th'[t].ret2 = th[t].ret2 /\ th'[t].n = th[t].n
        /\ th'[t].mode = th[t].mode
    BY ONLY <2>5, <2>3 DEF Thread
  <2>7. /\ Me(t) \in Nodes /\ Me(t) \in Range(order)
        /\ Nodes' = Nodes /\ node' \in [Nodes -> NodeRecord] /\ CancelledNodes' = CancelledNodes
        /\ Shape(order, head', tail, Prev', CancelledNodes')
        /\ Retired(order', head', CancelledNodes', Me(t))
        /\ \A u \in Threads \ {t} : th[u].pc \notin FirstPcs
        /\ \A n \in Range(order) : n[1] # t =>
              /\ ThisLive(n) => Live(order, head', CancelledNodes', n)
              /\ Retired(order, head, CancelledNodes, n) => Retired(order, head', CancelledNodes', n)
    BY <1>6, <2>1, HeadMoves DEF SetHead, FirstPcs
  <2>8. order' = order /\ program' = program /\ state' = state /\ UNCHANGED parking /\ tail' = tail /\ node' = node
    BY <1>6, <2>1 DEF SetHead, sync
  <2>9. head' \in Nodes \cup {NULL} /\ tail' \in Nodes \cup {NULL}
    BY <1>6, <2>7, <2>1 DEF SetHead, sync
  <2>10. LocalsSound(t)'
    BY <2>1, <2>7, <2>7, <2>8, <2>9, <2>3, <2>6 DEF LocalsSound, PredPcs, LinkedPcs, Leaving, At,
       Call, Pcs, LivePcs, FirstPcs, RetiredPcs, CancelledPcs, AwaitPcs, UnparkPcs, SharedPcs,
       TransferPcs
  <2>11. NodeSound(t)'
    BY <2>1, <2>7, <2>7, <2>8, <2>9, <2>10, <2>6 DEF NodeSound, ThisLive, Fresh, Awaiting, Leaving,
       GivenUp, LinkedPcs, At, Call, Me, Pcs, LivePcs, FirstPcs, RetiredPcs, CancelledPcs, AwaitPcs,
       UnparkPcs, SharedPcs, TransferPcs
  <2>12. ~Claiming(t)' /\ ~Awaiting(t)
    BY <2>1, <2>7, <2>8, <2>9, <2>10, <2>11, <2>6 DEF Claiming, Awaiting, At, Call, Me, Pcs,
       LivePcs, FirstPcs, RetiredPcs, CancelledPcs, AwaitPcs, UnparkPcs, SharedPcs, TransferPcs
  <2>13. node'[Me(t)].ws # CONDITION
    BY <2>1, <2>7, <2>8, <2>9, <2>10, <2>11, <2>12, QueuedStatus DEF CONDITION, CANCELLED
  <2>14. th' = [th EXCEPT ![t] = th'[t]] /\ th'[t] \in Thread /\ th'[t].i = th[t].i
    BY <2>2, <2>4, <2>6, Zenon
  <2> QED BY ONLY IInv, program' = program, <2>7, <2>8, <2>9, <2>10, <2>11, <2>12, <2>13, <2>14,
             <2>1, OwnStep
<1>7. CASE CancelTail(t)
  <2>1. th[t].pc = "cancel_tail"
    BY ONLY <1>7 DEF CancelTail, At
  <2>2. /\ Me(t) \in Range(order) /\ Me(t) \in CancelledNodes /\ Me(t) \in Nodes
        /\ th[t].pred = node[Me(t)].prev /\ node[Me(t)].prev \in Nodes
    BY <2>1, LiveBack DEF NodeSound, At, LinkedPcs, GivenUp, CancelledPcs
  <2> DEFINE pc == IF tail = Me(t) THEN "cancel_cut" ELSE "cancel_head"
  <2> DEFINE L == [th[t] EXCEPT !.pc = pc]
  <2>3. th' = [th EXCEPT ![t] = L]
    BY <1>7, <2>1, <2>2 DEF CancelTail, Goto
  <2>4. /\ th[t] \in Thread
        /\ pc \in Pcs
    BY <1>7, <2>1, <2>2 DEF Pcs, LivePcs, FirstPcs, RetiredPcs, CancelledPcs, AwaitPcs, UnparkPcs,
       SharedPcs, TransferPcs, Rets
  <2>5. L \in Thread
    <3> HIDE DEF pc
    <3> QED BY ONLY <2>4 DEF Thread, Rets
  <2>6. th'[t] = L
    BY ONLY <1>0, <2>3
  <2>7. /\ th'[t].pc = pc /\ th'[t].i = th[t].i /\ th'[t].was = th[t].was /\ th'[t].pred = th[t].pred
        /\ th'[t].predNext = th[t].predNext /\ th'[t].ws = th[t].ws /\ th'[t].s = th[t].s
        /\ th'[t].q = th[t].q /\ th'[t].h = th[t].h /\ th'[t].u = th[t].u /\ th'[t].ret = th[t].ret
        /\ th'[t].ret2 = th[t].ret2 /\ th'[t].n = th[t].n /\ th'[t].mode = th[t].mode
    BY ONLY <2>6, <2>4 DEF Thread
  <2>8. /\ Nodes' = Nodes /\ node' \in [Nodes -> NodeRecord] /\ CancelledNodes' = CancelledNodes
        /\ node' = node /\ head' = head
    BY <1>7, NodeTypes DEF CancelTail, Nodes, CancelledNodes, NodeRecord
  <2>9. /\ \A n \in Nodes : node'[n].ws = node[n].ws /\ node'[n].next = node[n].next
        /\ \A n \in Nodes \ {Me(t)} : node'[n].prev = node[n].prev
    BY <2>8
  <2>10. order' = order /\ program' = program /\ state' = state /\ UNCHANGED parking /\ tail' \in {tail, node[Me(t)].prev}
    BY <1>7, <2>1, <2>2 DEF CancelTail, sync
  <2>11. head' \in Nodes \cup {NULL} /\ tail' \in Nodes \cup {NULL}
    BY <1>7, <2>8, <2>1, <2>2 DEF CancelTail, sync
  <2>12. LocalsSound(t)'
    BY <2>1, <2>2, <2>8, <2>8, <2>9, <2>10, <2>11, <2>4, <2>7 DEF LocalsSound, PredPcs, LinkedPcs,
       Leaving, At, Call, Pcs, LivePcs, FirstPcs, RetiredPcs, CancelledPcs, AwaitPcs, UnparkPcs,
       SharedPcs, TransferPcs
  <2>13. NodeSound(t)'
    BY <2>1, <2>2, <2>8, <2>8, <2>9, <2>10, <2>11, <2>12, <2>7 DEF NodeSound, ThisLive, Fresh,
       Awaiting, Leaving, GivenUp, LinkedPcs, At, Call, Me, Pcs, LivePcs, FirstPcs, RetiredPcs,
       CancelledPcs, AwaitPcs, UnparkPcs, SharedPcs, TransferPcs
  <2>14. ~Claiming(t)' /\ ~Awaiting(t)
    BY <2>1, <2>2, <2>8, <2>9, <2>10, <2>11, <2>12, <2>13, <2>7 DEF Claiming, Awaiting, At, Call,
       Me, Pcs, LivePcs, FirstPcs, RetiredPcs, CancelledPcs, AwaitPcs, UnparkPcs, SharedPcs,
       TransferPcs
  <2>15. node'[Me(t)].ws # CONDITION
    BY <2>1, <2>2, <2>8, <2>9, <2>10, <2>11, <2>12, <2>13, <2>14, QueuedStatus DEF CONDITION,
       CANCELLED
  <2>16. th' = [th EXCEPT ![t] = th'[t]] /\ th'[t] \in Thread /\ th'[t].i = th[t].i
    BY <2>3, <2>5, <2>7, Zenon
  <2>17. Shape(order, head', tail', Prev', CancelledNodes')
    BY <1>7, <2>1, <2>2, <2>8, <2>9, <2>10, <2>11, <2>12, <2>13, <2>14, <2>15, <2>16, TailMoves
       DEF CancelTail, IInv, Prev
  <2> QED BY ONLY IInv, program' = program, <2>8, <2>9, <2>10, <2>11, <2>12, <2>13, <2>14, <2>15,
             <2>16, <2>17, <2>1, <2>2, OwnStep
<1>8. CASE Skip(t) /\ ~(node[th[t].pred].ws > 0)
  <2>1. th[t].pc = "skip"
    BY ONLY <1>8 DEF Skip, At
  <2>2. /\ ThisLive(Me(t)) /\ Me(t) \in Range(order) /\ Me(t) \in Nodes /\ Me(t)[1] = t
        /\ node[Me(t)].prev \in Queued(order) /\ node[Me(t)].prev \in Nodes /\ node[Me(t)].prev # NULL
    BY <2>1, LiveBack DEF NodeSound, LivePcs, FirstPcs
  <2> DEFINE L == [th[t] EXCEPT !.pc = "skipnext"]
  <2>3. th' = [th EXCEPT ![t] = L]
    BY <1>8, <2>1, <2>2, Zenon DEF Skip, Goto
  <2>4. /\ th[t] \in Thread
        /\ "skipnext" \in Pcs
    BY <1>8, <2>1, <2>2 DEF Pcs, LivePcs, FirstPcs, RetiredPcs, CancelledPcs, AwaitPcs, UnparkPcs,
       SharedPcs, TransferPcs, Rets
  <2>5. L \in Thread
    BY ONLY <2>4, Zenon DEF Thread, Rets
  <2>6. th'[t] = L
    BY ONLY <1>0, <2>3
  <2>7. /\ th'[t].pc = "skipnext" /\ th'[t].i = th[t].i /\ th'[t].was = th[t].was
        /\ th'[t].pred = th[t].pred /\ th'[t].predNext = th[t].predNext /\ th'[t].ws = th[t].ws
        /\ th'[t].s = th[t].s /\ th'[t].q = th[t].q /\ th'[t].h = th[t].h /\ th'[t].u = th[t].u
        /\ th'[t].ret = th[t].ret /\ th'[t].ret2 = th[t].ret2 /\ th'[t].n = th[t].n
        /\ th'[t].mode = th[t].mode
    BY ONLY <2>6, <2>4 DEF Thread
  <2>8. order' = order /\ program' = program /\ head' = head /\ tail' = tail /\ node' = node
    BY ONLY program' = program, <1>8 DEF Skip, sync
  <2>9. LocalsSound(t)'
    BY <2>1, <2>2, <2>4, <2>7, <2>8 DEF LocalsSound, PredPcs, LinkedPcs, Leaving, At, Call, Pcs,
       LivePcs, FirstPcs, RetiredPcs, CancelledPcs, AwaitPcs, UnparkPcs, SharedPcs, TransferPcs
  <2>10. ASSUME CancelledNodes' = CancelledNodes PROVE NodeSound(t)'
    BY <2>1, <2>2, <2>7, <2>8, <2>10 DEF NodeSound, ThisLive, Fresh, Awaiting, Leaving, GivenUp,
       LinkedPcs, At, Call, Me, Pcs, LivePcs, FirstPcs, RetiredPcs, CancelledPcs, AwaitPcs,
       UnparkPcs, SharedPcs, TransferPcs
  <2>11. ~Claiming(t)' /\ (Awaiting(t) /\ Me(t) \notin Range(order) => Awaiting(t)')
    BY <2>1, <2>2, <2>7, <2>8 DEF Claiming, Awaiting, At, Call, Me, Pcs, LivePcs, FirstPcs,
       RetiredPcs, CancelledPcs, AwaitPcs, UnparkPcs, SharedPcs, TransferPcs
  <2>12. Proceeds(t)
    BY ONLY <2>3, <2>5, <2>6, <2>7, <2>9, <2>10, <2>11, Zenon DEF Proceeds
  <2> QED BY <1>8, <2>12, MoveStep DEF Skip
<1> QED BY <1>1, <1>2, <1>3, <1>4, <1>5, <1>6, <1>7, <1>8

\* An acquire that fails and is queued
LEMMA AcquireEnqueues ==
    ASSUME IInv, NEW t \in Threads, program' = program,
           At(t, "start") /\ Call(t).call = "acquire" /\ Goto(t, "enq"),
           node' = [node EXCEPT ![Me(t)] = NewNode(t)],
           UNCHANGED <<state, intr, head, tail, permit, victims, order>>
    PROVE  IInv'
<1> USE Locals, NodeForm, NoReturn
<1>0. th \in [Threads -> Thread] /\ t \in Threads
  OBVIOUS
<1>1. CASE /\ At(t, "start") /\ Call(t).call = "acquire" /\ Goto(t, "enq")
          /\ node' = [node EXCEPT ![Me(t)] = NewNode(t)]
          /\ UNCHANGED <<state, intr, head, tail, permit, victims, order>>
  <2>1. th[t].pc = "start" /\ Call(t).call = "acquire"
    BY ONLY <1>1 DEF Goto, At
  <2>2. /\ Me(t) \in Nodes /\ Me(t) # Dummy /\ Me(t) \notin Queued(order) /\ Me(t) \notin Range(order)
        /\ ~Awaiting(t) /\ th[t].n = NULL
    BY <1>1, <2>1, MyNode DEF NodeSound, LocalsSound, Queued, Fresh, Awaiting, Call, Pcs, LivePcs,
       FirstPcs, RetiredPcs, CancelledPcs, AwaitPcs, UnparkPcs, SharedPcs, TransferPcs
  <2>3. node' = [node EXCEPT ![Me(t)] = [ws |-> 0, prev |-> NULL, next |-> NULL, thread |-> t]]
    BY <1>1 DEF NewNode
  <2> DEFINE L == [th[t] EXCEPT !.pc = "enq"]
  <2>4. th' = [th EXCEPT ![t] = L]
    BY <1>1, <2>1, <2>2, <2>3 DEF Goto, Goto
  <2>5. /\ th[t] \in Thread
        /\ "enq" \in Pcs
    BY <1>1, <2>1, <2>2, <2>3 DEF Pcs, LivePcs, FirstPcs, RetiredPcs, CancelledPcs, AwaitPcs,
       UnparkPcs, SharedPcs, TransferPcs, Rets
  <2>6. L \in Thread
    BY ONLY <2>5 DEF Thread, Rets
  <2>7. th'[t] = L
    BY ONLY <1>0, <2>4
  <2>8. /\ th'[t].pc = "enq" /\ th'[t].i = th[t].i /\ th'[t].was = th[t].was /\ th'[t].pred = th[t].pred
        /\ th'[t].predNext = th[t].predNext /\ th'[t].ws = th[t].ws /\ th'[t].s = th[t].s
        /\ th'[t].q = th[t].q /\ th'[t].h = th[t].h /\ th'[t].u = th[t].u /\ th'[t].ret = th[t].ret
        /\ th'[t].ret2 = th[t].ret2 /\ th'[t].n = th[t].n /\ th'[t].mode = th[t].mode
    BY ONLY <2>7, <2>5 DEF Thread
  <2>9. /\ Nodes' = Nodes /\ node' \in [Nodes -> NodeRecord]
        /\ \A n \in Nodes \ {Me(t)} : node'[n] = node[n]
        /\ node'[Me(t)].ws = 0 /\ node'[Me(t)].next = NULL
    BY <2>1, <2>2, <2>3, NodeSet, Zenon
  <2>10. order' = order /\ program' = program /\ head' = head /\ tail' = tail /\ UNCHANGED parking /\ state' \in Nat
    BY <1>1, <2>1, <2>2, <2>3 DEF Goto, parking
  <2>11. th' = [th EXCEPT ![t] = th'[t]] /\ th'[t] \in Thread /\ th'[t].i = th[t].i
    BY <2>4, <2>6, <2>8, Zenon
  <2>12. LocalsSound(t)'
    BY <2>1, <2>2, <2>3, <2>9, <2>10, <2>5, <2>8 DEF LocalsSound, PredPcs, LinkedPcs, Leaving, At,
       Call, Pcs, LivePcs, FirstPcs, RetiredPcs, CancelledPcs, AwaitPcs, UnparkPcs, SharedPcs,
       TransferPcs
  <2>13. NodeSound(t)'
    BY <2>1, <2>2, <2>3, <2>9, <2>10, <2>8 DEF NodeSound, ThisLive, Fresh, Awaiting, Leaving,
       GivenUp, LinkedPcs, At, Call, Me, Pcs, LivePcs, FirstPcs, RetiredPcs, CancelledPcs, AwaitPcs,
       UnparkPcs, SharedPcs, TransferPcs
  <2>14. ClaimSound(t)' /\ (Claiming(t)' => Mine(t)' = Me(t) /\ ~At(t, "inittail")')
    BY <2>9, <2>10, <2>11, <2>1, <2>2, <2>3, <2>8, ClaimKept DEF Me, CANCELLED, CONDITION
  <2>15. \A u \in Threads \ {t} : Claiming(u) => Mine(u) # Me(t)
    BY <2>1, <2>2, <2>3, NotClaimed
  <2>16. \A n \in Nodes : node[n].ws = CONDITION => n[1] # t \/ n = Me(t)
    BY <2>1, <2>2, <2>3, NoneWaits
  <2>17. node'[Me(t)].ws = CONDITION => Me(t) = Me(t) /\ Awaiting(t)'
    BY <2>1, <2>2, <2>3, <2>9, <2>10, <2>8 DEF Claiming, Awaiting, At, Call, Me, Pcs, LivePcs,
       FirstPcs, RetiredPcs, CancelledPcs, AwaitPcs, UnparkPcs, SharedPcs, TransferPcs, CONDITION
  <2>18. \A n \in Nodes \ {Me(t)} : node'[n].prev = node[n].prev /\ node'[n].ws = node[n].ws
    BY <2>9
  <2>19. \A n \in Nodes \ Queued(order) : node'[n].next = node[n].next \/ node'[n].next = NULL
    BY <2>9
  <2> QED BY ONLY IInv, program' = program, <2>9, <2>10, <2>11, <2>12, <2>13, <2>14, <2>15, <2>16,
             <2>17, <2>18, <2>19, <2>1, <2>2, <2>3, UnqueuedStep
<1> QED BY <1>1

\* The node enters the condition queue and the lock is released.
LEMMA AppendAndReleaseStep ==
    ASSUME IInv, NEW t \in Threads, program' = program,
           AppendAndRelease(t)
    PROVE  IInv'
<1> USE Locals, NodeForm, NoReturn
<1>0. th \in [Threads -> Thread] /\ t \in Threads
  OBVIOUS
<1>1. CASE AppendAndRelease(t)
  <2>1. th[t].pc = "append"
    BY ONLY <1>1 DEF AppendAndRelease, At
  <2>2. Call(t).call = "await"
    BY <2>1 DEF LocalsSound
  <2>3. /\ Me(t) \in Nodes /\ Me(t) # Dummy /\ Me(t) \notin Queued(order) /\ Me(t) \notin Range(order)
        /\ ~Awaiting(t) /\ th[t].n = NULL
    BY <1>1, <2>1, <2>2, MyNode DEF NodeSound, LocalsSound, Queued, Fresh, Awaiting, Call, Pcs,
       LivePcs, FirstPcs, RetiredPcs, CancelledPcs, AwaitPcs, UnparkPcs, SharedPcs, TransferPcs
  <2>4. node' = [node EXCEPT ![Me(t)] = [ws |-> CONDITION, prev |-> NULL, next |-> NULL, thread |-> t]]
    BY <1>1, Zenon DEF AppendAndRelease, NewNode
  <2> DEFINE L == FreshAt("rhead", th[t].i, th[t].was, th[t].mode, NULL, NULL, NoRet)
  <2>5. th' = [th EXCEPT ![t] = L]
    BY <1>1, <2>1, <2>2, <2>3, <2>4, Continuations, Zenon DEF AppendAndRelease, Goto
  <2>6. /\ th[t] \in Thread
        /\ "rhead" \in Pcs
        /\ th[t].i \in Nat \ {0}
        /\ th[t].was \in BOOLEAN
        /\ th[t].mode \in {"none", "THROW_IE", "REINTERRUPT"}
        /\ NULL \in Nodes \cup {NULL}
        /\ NULL \in Nodes \cup {NULL}
        /\ NoRet \in Rets
    BY <1>1, <2>1, <2>2, <2>3, <2>4 DEF Pcs, LivePcs, FirstPcs, RetiredPcs, CancelledPcs, AwaitPcs,
       UnparkPcs, SharedPcs, TransferPcs, Rets, Thread
  <2>7. /\ L \in Thread
        /\ L.pc = "rhead" /\ L.i = th[t].i /\ L.was = th[t].was /\ L.pred = NULL /\ L.predNext = NULL
        /\ L.ws = 0 /\ L.s = NULL /\ L.q = NULL /\ L.h = NULL /\ L.u = NULL /\ L.ret = NoRet
        /\ L.ret2 = NoRet /\ L.n = NULL /\ L.mode = th[t].mode
    <3>1. L = [pc |-> "rhead", i |-> th[t].i, was |-> th[t].was, pred |-> NULL,
              predNext |-> NULL, ws |-> 0, s |-> NULL, q |-> NULL, h |-> NULL, u |-> NULL,
              ret |-> NoRet, ret2 |-> NoRet, n |-> NULL, mode |-> th[t].mode]
      BY ONLY DEF FreshAt
    <3> HIDE DEF L
    <3>2. L \in Thread
      BY ONLY <3>1, <2>6 DEF Thread
    <3> QED BY ONLY <3>1, <3>2
  <2> HIDE DEF L
  <2>8. th'[t] = L
    BY ONLY <1>0, <2>5
  <2>9. /\ th'[t].pc = "rhead" /\ th'[t].i = th[t].i /\ th'[t].was = th[t].was /\ th'[t].pred = NULL
        /\ th'[t].predNext = NULL /\ th'[t].ws = 0 /\ th'[t].s = NULL /\ th'[t].q = NULL
        /\ th'[t].h = NULL /\ th'[t].u = NULL /\ th'[t].ret = NoRet /\ th'[t].ret2 = NoRet
        /\ th'[t].n = NULL /\ th'[t].mode = th[t].mode
    BY ONLY <2>8, <2>7
  <2>10. /\ Nodes' = Nodes /\ node' \in [Nodes -> NodeRecord]
         /\ \A n \in Nodes \ {Me(t)} : node'[n] = node[n]
         /\ node'[Me(t)].ws = CONDITION /\ node'[Me(t)].next = NULL
    BY <2>1, <2>2, <2>3, <2>4, NodeSet, Zenon
  <2>11. order' = order /\ program' = program /\ head' = head /\ tail' = tail /\ UNCHANGED parking /\ state' \in Nat
    BY <1>1, <2>1, <2>2, <2>3, <2>4 DEF AppendAndRelease, parking, tryRelease, Kind
  <2>12. th' = [th EXCEPT ![t] = th'[t]] /\ th'[t] \in Thread /\ th'[t].i = th[t].i
    BY <2>5, <2>7, <2>9, Zenon
  <2>13. LocalsSound(t)'
    BY <2>1, <2>2, <2>3, <2>4, <2>10, <2>11, <2>6, <2>9 DEF LocalsSound, PredPcs, LinkedPcs,
       Leaving, At, Call, Pcs, LivePcs, FirstPcs, RetiredPcs, CancelledPcs, AwaitPcs, UnparkPcs,
       SharedPcs, TransferPcs
  <2>14. NodeSound(t)'
    BY <2>1, <2>2, <2>3, <2>4, <2>10, <2>11, <2>9 DEF NodeSound, ThisLive, Fresh, Awaiting, Leaving,
       GivenUp, LinkedPcs, At, Call, Me, Pcs, LivePcs, FirstPcs, RetiredPcs, CancelledPcs, AwaitPcs,
       UnparkPcs, SharedPcs, TransferPcs
  <2>15. ClaimSound(t)' /\ (Claiming(t)' => Mine(t)' = Me(t) /\ ~At(t, "inittail")')
    BY <2>9 DEF ClaimSound, Claiming
  <2>16. \A u \in Threads \ {t} : Claiming(u) => Mine(u) # Me(t)
    BY <2>1, <2>2, <2>3, <2>4, NotClaimed
  <2>17. \A n \in Nodes : node[n].ws = CONDITION => n[1] # t \/ n = Me(t)
    BY <2>1, <2>2, <2>3, <2>4, NoneWaits
  <2>18. node'[Me(t)].ws = CONDITION => Me(t) = Me(t) /\ Awaiting(t)'
    BY <2>1, <2>2, <2>3, <2>4, <2>10, <2>11, <2>9 DEF Claiming, Awaiting, At, Call, Me, Pcs,
       LivePcs, FirstPcs, RetiredPcs, CancelledPcs, AwaitPcs, UnparkPcs, SharedPcs, TransferPcs,
       CONDITION
  <2>19. \A n \in Nodes \ {Me(t)} : node'[n].prev = node[n].prev /\ node'[n].ws = node[n].ws
    BY <2>10
  <2>20. \A n \in Nodes \ Queued(order) : node'[n].next = node[n].next \/ node'[n].next = NULL
    BY <2>10
  <2> QED BY ONLY IInv, program' = program, <2>10, <2>11, <2>12, <2>13, <2>14, <2>15, <2>16, <2>17,
             <2>18, <2>19, <2>20, <2>1, <2>2, <2>3, <2>4, UnqueuedStep
<1> QED BY <1>1

\* A waiter gives up, or finds that it was signalled.
LEMMA GiveUpStep ==
    ASSUME IInv, NEW t \in Threads, program' = program,
           TransferAfterCancelledWait(t)
    PROVE  IInv'
<1> USE Locals, NodeForm, NoReturn
<1>0. th \in [Threads -> Thread] /\ t \in Threads
  OBVIOUS
<1>1. CASE TransferAfterCancelledWait(t) /\ node[Me(t)].ws = CONDITION
  <2>1. th[t].pc = "cancelwait"
    BY ONLY <1>1 DEF TransferAfterCancelledWait, At
  <2>2. /\ Me(t) \in Nodes /\ Me(t) # Dummy /\ Me(t) \notin Queued(order) /\ Me(t) \notin Range(order)
        /\ Call(t).call = "await" /\ th[t].n = NULL
    BY <1>1, <2>1, MyNode, Zenon DEF LocalsSound, Queued, ConditionNodes, IInv, Pcs, LivePcs,
       FirstPcs, RetiredPcs, CancelledPcs, AwaitPcs, UnparkPcs, SharedPcs, TransferPcs
  <2>3. node[Me(t)].ws = CONDITION /\ node' = [node EXCEPT ![Me(t)].ws = 0]
    BY <1>1 DEF TransferAfterCancelledWait, compareAndSetWaitStatus
  <2> DEFINE L == FreshAt("enq", th[t].i, th[t].was, th[t].mode, NULL, NULL, NoRet)
  <2>4. th' = [th EXCEPT ![t] = L]
    BY <1>1, <2>1, <2>2, <2>3, Continuations, Zenon DEF TransferAfterCancelledWait, Goto
  <2>5. /\ th[t] \in Thread
        /\ "enq" \in Pcs
        /\ th[t].i \in Nat \ {0}
        /\ th[t].was \in BOOLEAN
        /\ th[t].mode \in {"none", "THROW_IE", "REINTERRUPT"}
        /\ NULL \in Nodes \cup {NULL}
        /\ NULL \in Nodes \cup {NULL}
        /\ NoRet \in Rets
    BY <1>1, <2>1, <2>2, <2>3 DEF Pcs, LivePcs, FirstPcs, RetiredPcs, CancelledPcs, AwaitPcs,
       UnparkPcs, SharedPcs, TransferPcs, Rets, Thread
  <2>6. /\ L \in Thread
        /\ L.pc = "enq" /\ L.i = th[t].i /\ L.was = th[t].was /\ L.pred = NULL /\ L.predNext = NULL
        /\ L.ws = 0 /\ L.s = NULL /\ L.q = NULL /\ L.h = NULL /\ L.u = NULL /\ L.ret = NoRet
        /\ L.ret2 = NoRet /\ L.n = NULL /\ L.mode = th[t].mode
    <3>1. L = [pc |-> "enq", i |-> th[t].i, was |-> th[t].was, pred |-> NULL, predNext |-> NULL,
              ws |-> 0, s |-> NULL, q |-> NULL, h |-> NULL, u |-> NULL, ret |-> NoRet,
              ret2 |-> NoRet, n |-> NULL, mode |-> th[t].mode]
      BY ONLY DEF FreshAt
    <3> HIDE DEF L
    <3>2. L \in Thread
      BY ONLY <3>1, <2>5 DEF Thread
    <3> QED BY ONLY <3>1, <3>2
  <2> HIDE DEF L
  <2>7. th'[t] = L
    BY ONLY <1>0, <2>4
  <2>8. /\ th'[t].pc = "enq" /\ th'[t].i = th[t].i /\ th'[t].was = th[t].was /\ th'[t].pred = NULL
        /\ th'[t].predNext = NULL /\ th'[t].ws = 0 /\ th'[t].s = NULL /\ th'[t].q = NULL
        /\ th'[t].h = NULL /\ th'[t].u = NULL /\ th'[t].ret = NoRet /\ th'[t].ret2 = NoRet
        /\ th'[t].n = NULL /\ th'[t].mode = th[t].mode
    BY ONLY <2>7, <2>6
  <2>9. /\ Nodes' = Nodes /\ node' \in [Nodes -> NodeRecord]
        /\ \A n \in Nodes : node'[n].prev = node[n].prev /\ node'[n].next = node[n].next
        /\ \A n \in Nodes \ {Me(t)} : node'[n].ws = node[n].ws
        /\ node'[Me(t)].ws = 0
    BY <2>1, <2>2, <2>3, WsSet, Zenon
  <2>10. order' = order /\ program' = program /\ head' = head /\ tail' = tail /\ UNCHANGED parking /\ state' \in Nat
    BY <1>1, <2>1, <2>2, <2>3 DEF TransferAfterCancelledWait, sync
  <2>11. th' = [th EXCEPT ![t] = th'[t]] /\ th'[t] \in Thread /\ th'[t].i = th[t].i
    BY <2>4, <2>6, <2>8, Zenon
  <2>12. LocalsSound(t)'
    BY <2>1, <2>2, <2>3, <2>9, <2>10, <2>5, <2>8 DEF LocalsSound, PredPcs, LinkedPcs, Leaving, At,
       Call, Pcs, LivePcs, FirstPcs, RetiredPcs, CancelledPcs, AwaitPcs, UnparkPcs, SharedPcs,
       TransferPcs
  <2>13. NodeSound(t)'
    BY <2>1, <2>2, <2>3, <2>9, <2>10, <2>8 DEF NodeSound, ThisLive, Fresh, Awaiting, Leaving,
       GivenUp, LinkedPcs, At, Call, Me, Pcs, LivePcs, FirstPcs, RetiredPcs, CancelledPcs, AwaitPcs,
       UnparkPcs, SharedPcs, TransferPcs
  <2>14. ClaimSound(t)' /\ (Claiming(t)' => Mine(t)' = Me(t) /\ ~At(t, "inittail")')
    BY <2>9, <2>10, <2>11, <2>1, <2>2, <2>3, <2>8, ClaimKept DEF Me, CANCELLED, CONDITION
  <2>15. \A u \in Threads \ {t} : Claiming(u) => Mine(u) # Me(t)
    BY <2>1, <2>2, <2>3, NotClaimed
  <2>16. \A n \in Nodes : node[n].ws = CONDITION => n[1] # t \/ n = Me(t)
    BY NodeForm DEF IInv, ConditionNodes, Me, Queued
  <2>17. node'[Me(t)].ws = CONDITION => Me(t) = Me(t) /\ Awaiting(t)'
    BY <2>1, <2>2, <2>3, <2>9, <2>10, <2>8 DEF Claiming, Awaiting, At, Call, Me, Pcs, LivePcs,
       FirstPcs, RetiredPcs, CancelledPcs, AwaitPcs, UnparkPcs, SharedPcs, TransferPcs, CONDITION
  <2>18. \A n \in Nodes \ {Me(t)} : node'[n].prev = node[n].prev /\ node'[n].ws = node[n].ws
    BY <2>9
  <2>19. \A n \in Nodes \ Queued(order) : node'[n].next = node[n].next \/ node'[n].next = NULL
    BY <2>9
  <2> QED BY ONLY IInv, program' = program, <2>9, <2>10, <2>11, <2>12, <2>13, <2>14, <2>15, <2>16,
             <2>17, <2>18, <2>19, <2>1, <2>2, <2>3, UnqueuedStep
<1>2. CASE TransferAfterCancelledWait(t) /\ node[Me(t)].ws # CONDITION
  <2>1. th[t].pc = "cancelwait" /\ th[t].pc \in AwaitPcs
    BY ONLY <1>2 DEF TransferAfterCancelledWait, AwaitPcs, At
  <2> DEFINE mode == IF th[t].mode = "THROW_IE" THEN "REINTERRUPT" ELSE th[t].mode
  <2> DEFINE L == [th[t] EXCEPT !.pc = "onqueue", !.ret = "yield", !.mode = mode]
  <2>2. th' = [th EXCEPT ![t] = L]
    BY <1>2, <2>1, Zenon DEF TransferAfterCancelledWait, AwaitPcs, Goto
  <2>3. /\ th[t] \in Thread
        /\ "onqueue" \in Pcs
        /\ mode \in {"none", "THROW_IE", "REINTERRUPT"}
    BY <1>2, <2>1 DEF Pcs, LivePcs, FirstPcs, RetiredPcs, CancelledPcs, AwaitPcs, UnparkPcs,
       SharedPcs, TransferPcs, Rets, Thread
  <2>4. L \in Thread
    <3> HIDE DEF mode
    <3> QED BY ONLY <2>3, Zenon DEF Thread, Rets
  <2>5. th'[t] = L
    BY ONLY <1>0, <2>2
  <2>6. /\ th'[t].pc = "onqueue" /\ th'[t].i = th[t].i /\ th'[t].was = th[t].was
        /\ th'[t].pred = th[t].pred /\ th'[t].predNext = th[t].predNext /\ th'[t].ws = th[t].ws
        /\ th'[t].s = th[t].s /\ th'[t].q = th[t].q /\ th'[t].h = th[t].h /\ th'[t].u = th[t].u
        /\ th'[t].ret = "yield" /\ th'[t].ret2 = th[t].ret2 /\ th'[t].n = th[t].n /\ th'[t].mode = mode
    BY ONLY <2>5, <2>3 DEF Thread
  <2>7. order' = order /\ program' = program /\ head' = head /\ tail' = tail
    BY ONLY program' = program, <1>2 DEF TransferAfterCancelledWait, AwaitPcs, sync
  <2>8. LocalsSound(t)'
    BY <2>1, <2>3, <2>6, <2>7 DEF LocalsSound, PredPcs, LinkedPcs, Leaving, At, Call, Pcs, LivePcs,
       FirstPcs, RetiredPcs, CancelledPcs, AwaitPcs, UnparkPcs, SharedPcs, TransferPcs
  <2>9. ASSUME CancelledNodes' = CancelledNodes PROVE NodeSound(t)'
    BY <2>1, <2>6, <2>7, <2>9 DEF NodeSound, ThisLive, Fresh, Awaiting, Leaving, GivenUp, LinkedPcs,
       At, Call, Me, Pcs, LivePcs, FirstPcs, RetiredPcs, CancelledPcs, AwaitPcs, UnparkPcs,
       SharedPcs, TransferPcs
  <2>10. ~Claiming(t)' /\ (Awaiting(t) /\ Me(t) \notin Range(order) => Awaiting(t)')
    BY <2>1, <2>6, <2>7 DEF Claiming, Awaiting, At, Call, Me, Pcs, LivePcs, FirstPcs, RetiredPcs,
       CancelledPcs, AwaitPcs, UnparkPcs, SharedPcs, TransferPcs
  <2>11. Proceeds(t)
    BY ONLY <2>2, <2>4, <2>5, <2>6, <2>8, <2>9, <2>10, Zenon DEF Proceeds
  <2>12. QuietNodes
    BY <1>2, <1>2, <2>1, SameNodes DEF TransferAfterCancelledWait, compareAndSetWaitStatus
  <2>13. state' \in Nat /\ permit' \in [Threads -> BOOLEAN] /\ intr' \in [Threads -> BOOLEAN]
    BY <1>2, <2>1 DEF TransferAfterCancelledWait, AwaitPcs, sync, parking
  <2> QED BY <2>7, <2>11, <2>13, <2>12, LocalStep
<1> QED BY <1>1, <1>2

\* The signaller tries to append the node of a waiter.
LEMMA TransferSteps ==
    ASSUME IInv, NEW t \in Threads, program' = program,
           TransferPrev(t) \/ (TransferTail(t) /\ tail # th[t].pred)
    PROVE  IInv'
<1> USE Locals, NodeForm, NoReturn
<1>0. th \in [Threads -> Thread] /\ t \in Threads
  OBVIOUS
<1>1. CASE TransferPrev(t)
  <2>1. th[t].pc = "enq" /\ th[t].n # NULL
    BY ONLY <1>1 DEF TransferPrev, At
  <2>2. PICK x : x = th[t].n
    OBVIOUS
  <2>3. tail # NULL /\ tail \in Nodes /\ tail \in Queued(order)
    BY <1>1, LinksQueued DEF TransferPrev
  <2>4. /\ x \in Nodes /\ x \notin Queued(order) /\ x \notin Range(order) /\ x # NULL /\ x # Dummy
        /\ node[x].ws \notin {CANCELLED, CONDITION} /\ ~Awaiting(t) /\ Claiming(t) /\ Mine(t) = x
    BY <1>1, <2>1, <2>2, <2>3, ClaimedNode DEF Claiming
  <2>5. /\ x = th[t].n /\ x[1] \in Threads \ {t} /\ th[x[1]].i = x[2] /\ Awaiting(x[1])
    BY <1>1, <2>1, <2>2, <2>3, <2>4, ClaimedNode
  <2>6. node' = [node EXCEPT ![x].prev = tail]
    BY <1>1, <1>1, <2>1, <2>2, <2>3, <2>4, <2>5 DEF TransferPrev
  <2> DEFINE L == [th[t] EXCEPT !.pc = "transfer_tail", !.pred = tail]
  <2>7. th' = [th EXCEPT ![t] = L]
    BY <1>1, <2>1, <2>2, <2>3, <2>4, <2>5, <2>6, Zenon DEF TransferPrev, Goto
  <2>8. /\ th[t] \in Thread
        /\ "transfer_tail" \in Pcs
        /\ tail \in Nodes \cup {NULL}
    BY <1>1, <2>1, <2>2, <2>3, <2>4, <2>5, <2>6 DEF Pcs, LivePcs, FirstPcs, RetiredPcs,
       CancelledPcs, AwaitPcs, UnparkPcs, SharedPcs, TransferPcs, Rets
  <2>9. L \in Thread
    BY ONLY <2>8, Zenon DEF Thread, Rets
  <2>10. th'[t] = L
    BY ONLY <1>0, <2>7
  <2>11. /\ th'[t].pc = "transfer_tail" /\ th'[t].i = th[t].i /\ th'[t].was = th[t].was
         /\ th'[t].pred = tail /\ th'[t].predNext = th[t].predNext /\ th'[t].ws = th[t].ws
         /\ th'[t].s = th[t].s /\ th'[t].q = th[t].q /\ th'[t].h = th[t].h /\ th'[t].u = th[t].u
         /\ th'[t].ret = th[t].ret /\ th'[t].ret2 = th[t].ret2 /\ th'[t].n = th[t].n
         /\ th'[t].mode = th[t].mode
    BY ONLY <2>10, <2>8 DEF Thread
  <2>12. /\ Nodes' = Nodes /\ node' \in [Nodes -> NodeRecord]
         /\ \A n \in Nodes : node'[n].ws = node[n].ws /\ node'[n].next = node[n].next
         /\ \A n \in Nodes \ {x} : node'[n].prev = node[n].prev
         /\ node'[x].prev = tail
    BY <2>1, <2>2, <2>3, <2>4, <2>5, <2>6, PrevSet, Zenon
  <2>13. order' = order /\ program' = program /\ head' = head /\ tail' = tail /\ UNCHANGED parking /\ state' \in Nat
    BY <1>1, <2>1, <2>2, <2>3, <2>4, <2>5, <2>6 DEF TransferPrev, sync
  <2>14. th' = [th EXCEPT ![t] = th'[t]] /\ th'[t] \in Thread /\ th'[t].i = th[t].i
    BY <2>7, <2>9, <2>11, Zenon
  <2>15. LocalsSound(t)'
    BY <2>1, <2>2, <2>3, <2>4, <2>5, <2>6, <2>12, <2>13, <2>8, <2>11 DEF LocalsSound, PredPcs,
       LinkedPcs, Leaving, At, Call, Pcs, LivePcs, FirstPcs, RetiredPcs, CancelledPcs, AwaitPcs,
       UnparkPcs, SharedPcs, TransferPcs
  <2>16. NodeSound(t)'
    BY <2>1, <2>2, <2>3, <2>4, <2>5, <2>6, <2>12, <2>13, <2>11, Zenon DEF NodeSound, ThisLive,
       Fresh, Awaiting, Leaving, GivenUp, LinkedPcs, At, Call, Me, Pcs, LivePcs, FirstPcs,
       RetiredPcs, CancelledPcs, AwaitPcs, UnparkPcs, SharedPcs, TransferPcs
  <2>17. ClaimSound(t)' /\ (Claiming(t)' => Mine(t)' = x /\ ~At(t, "inittail")')
    BY <2>12, <2>13, <2>14, <2>1, <2>2, <2>3, <2>4, <2>5, <2>6, <2>11, ClaimKept
  <2>18. \A u \in Threads \ {t} : Claiming(u) => Mine(u) # x
    BY <2>1, <2>2, <2>3, <2>4, <2>5, <2>6, OtherClaims
  <2>19. \A n \in Nodes : node[n].ws = CONDITION => n[1] # t \/ n = x
    BY <2>1, <2>2, <2>3, <2>4, <2>5, <2>6, NoneWaits
  <2>20. node'[x].ws = CONDITION => x = Me(t) /\ Awaiting(t)'
    BY <2>1, <2>2, <2>3, <2>4, <2>5, <2>6, <2>12, <2>13, <2>11, Zenon DEF Claiming, Awaiting, At,
       Call, Me, Pcs, LivePcs, FirstPcs, RetiredPcs, CancelledPcs, AwaitPcs, UnparkPcs, SharedPcs,
       TransferPcs, CONDITION
  <2>21. \A n \in Nodes \ {x} : node'[n].prev = node[n].prev /\ node'[n].ws = node[n].ws
    BY <2>12
  <2>22. \A n \in Nodes \ Queued(order) : node'[n].next = node[n].next \/ node'[n].next = NULL
    BY <2>12
  <2> QED BY ONLY IInv, program' = program, <2>12, <2>13, <2>14, <2>15, <2>16, <2>17, <2>18, <2>19,
             <2>20, <2>21, <2>22, <2>1, <2>2, <2>3, <2>4, <2>5, <2>6, UnqueuedStep
<1>2. CASE TransferTail(t) /\ tail # th[t].pred
  <2>1. th[t].pc = "transfer_tail"
    BY ONLY <1>2 DEF TransferTail, At
  <2>2. th[t].n # NULL
    BY <2>1 DEF LocalsSound, TransferPcs
  <2>3. PICK x : x = th[t].n
    OBVIOUS
  <2>4. /\ x \in Nodes /\ x \notin Queued(order) /\ x \notin Range(order) /\ x # NULL /\ x # Dummy
        /\ node[x].ws \notin {CANCELLED, CONDITION} /\ ~Awaiting(t) /\ Claiming(t) /\ Mine(t) = x
    BY <1>2, <2>1, <2>2, <2>3, ClaimedNode DEF Claiming
  <2>5. /\ x = th[t].n /\ x[1] \in Threads \ {t} /\ th[x[1]].i = x[2] /\ Awaiting(x[1])
    BY <1>2, <2>1, <2>2, <2>3, <2>4, ClaimedNode
  <2> DEFINE L == [th[t] EXCEPT !.pc = "enq"]
  <2>6. th' = [th EXCEPT ![t] = L]
    BY <1>2, <2>1, <2>2, <2>3, <2>4, <2>5 DEF TransferTail, Goto
  <2>7. /\ th[t] \in Thread
        /\ "enq" \in Pcs
    BY <1>2, <2>1, <2>2, <2>3, <2>4, <2>5 DEF Pcs, LivePcs, FirstPcs, RetiredPcs, CancelledPcs,
       AwaitPcs, UnparkPcs, SharedPcs, TransferPcs, Rets
  <2>8. L \in Thread
    BY ONLY <2>7 DEF Thread, Rets
  <2>9. th'[t] = L
    BY ONLY <1>0, <2>6
  <2>10. /\ th'[t].pc = "enq" /\ th'[t].i = th[t].i /\ th'[t].was = th[t].was /\ th'[t].pred = th[t].pred
         /\ th'[t].predNext = th[t].predNext /\ th'[t].ws = th[t].ws /\ th'[t].s = th[t].s
         /\ th'[t].q = th[t].q /\ th'[t].h = th[t].h /\ th'[t].u = th[t].u /\ th'[t].ret = th[t].ret
         /\ th'[t].ret2 = th[t].ret2 /\ th'[t].n = th[t].n /\ th'[t].mode = th[t].mode
    BY ONLY <2>9, <2>7 DEF Thread
  <2>11. /\ Nodes' = Nodes /\ node' \in [Nodes -> NodeRecord]
         /\ \A n \in Nodes : node'[n].ws = node[n].ws /\ node'[n].next = node[n].next
         /\ \A n \in Nodes \ {x} : node'[n].prev = node[n].prev
    BY <1>2, <2>1, <2>2, <2>3, <2>4, <2>5, NodeTypes DEF TransferTail, Nodes, NodeRecord
  <2>12. order' = order /\ program' = program /\ head' = head /\ tail' = tail /\ UNCHANGED parking /\ state' \in Nat
    BY <1>2, <2>1, <2>2, <2>3, <2>4, <2>5 DEF TransferTail, sync
  <2>13. th' = [th EXCEPT ![t] = th'[t]] /\ th'[t] \in Thread /\ th'[t].i = th[t].i
    BY <2>6, <2>8, <2>10, Zenon
  <2>14. LocalsSound(t)'
    BY <2>1, <2>2, <2>3, <2>4, <2>5, <2>11, <2>12, <2>7, <2>10 DEF LocalsSound, PredPcs, LinkedPcs,
       Leaving, At, Call, Pcs, LivePcs, FirstPcs, RetiredPcs, CancelledPcs, AwaitPcs, UnparkPcs,
       SharedPcs, TransferPcs
  <2>15. NodeSound(t)'
    BY <2>1, <2>2, <2>3, <2>4, <2>5, <2>11, <2>12, <2>10, Zenon DEF NodeSound, ThisLive, Fresh,
       Awaiting, Leaving, GivenUp, LinkedPcs, At, Call, Me, Pcs, LivePcs, FirstPcs, RetiredPcs,
       CancelledPcs, AwaitPcs, UnparkPcs, SharedPcs, TransferPcs
  <2>16. ClaimSound(t)' /\ (Claiming(t)' => Mine(t)' = x /\ ~At(t, "inittail")')
    BY <2>11, <2>12, <2>13, <2>1, <2>2, <2>3, <2>4, <2>5, <2>10, ClaimKept, Zenon
  <2>17. \A u \in Threads \ {t} : Claiming(u) => Mine(u) # x
    BY <2>1, <2>2, <2>3, <2>4, <2>5, OtherClaims
  <2>18. \A n \in Nodes : node[n].ws = CONDITION => n[1] # t \/ n = x
    BY <2>1, <2>2, <2>3, <2>4, <2>5, NoneWaits
  <2>19. node'[x].ws = CONDITION => x = Me(t) /\ Awaiting(t)'
    BY <2>1, <2>2, <2>3, <2>4, <2>5, <2>11, <2>12, <2>10 DEF Claiming, Awaiting, At, Call, Me, Pcs,
       LivePcs, FirstPcs, RetiredPcs, CancelledPcs, AwaitPcs, UnparkPcs, SharedPcs, TransferPcs,
       CONDITION
  <2>20. \A n \in Nodes \ {x} : node'[n].prev = node[n].prev /\ node'[n].ws = node[n].ws
    BY <2>11
  <2>21. \A n \in Nodes \ Queued(order) : node'[n].next = node[n].next \/ node'[n].next = NULL
    BY <2>11
  <2> QED BY ONLY IInv, program' = program, <2>11, <2>12, <2>13, <2>14, <2>15, <2>16, <2>17, <2>18,
             <2>19, <2>20, <2>21, <2>1, <2>2, <2>3, <2>4, <2>5, UnqueuedStep
<1> QED BY <1>1, <1>2

\* transferForSignal, up to the enq
LEMMA SignalledStep ==
    ASSUME IInv, NEW t \in Threads, program' = program,
           NEW n \in Nodes,
           th[t].pc \in {"start", "all"},
           CondTypes,
           transferForSignal(t, n, th[t].pc),
           UNCHANGED <<sync, parking, order>>
    PROVE  IInv'
<1> USE Locals, NodeForm, NoReturn
<1>0. th \in [Threads -> Thread] /\ t \in Threads
  OBVIOUS
<1>1. CASE node[n].ws = CONDITION
  <2>1. th[t].pc \in {"start", "all"}
    BY <1>1 DEF transferForSignal, At
  <2>2. /\ th[t].i \in DOMAIN program[t] /\ th[t].ret2 # "pnext" /\ th[t].n = NULL
        /\ th[t].pred \in Queued(order) \cup {NULL} /\ th[t].h \in Queued(order) \cup {NULL}
    BY <2>1 DEF LocalsSound, Pcs, LivePcs, FirstPcs, RetiredPcs, CancelledPcs, AwaitPcs, UnparkPcs,
       SharedPcs, TransferPcs
  <2>3. ~Awaiting(t) /\ n # NULL
    BY <2>1 DEF Awaiting, AwaitPcs, UnparkPcs
  <2>4. n # Dummy /\ n \notin Queued(order) /\ th[n[1]].i = n[2] /\ Awaiting(n[1]) /\ n[1] \in Threads \ {t}
    BY <1>1, <1>1, <2>1, <2>2, <2>3, NodeForm DEF IInv, ConditionNodes, Queued
  <2>5. node[n].ws = CONDITION /\ node' = [node EXCEPT ![n].ws = 0]
    BY <1>1 DEF transferForSignal, compareAndSetWaitStatus
  <2> DEFINE L == [th[t] EXCEPT !.pc = "enq", !.n = n, !.q = nextWaiter[n]]
  <2>6. th' = [th EXCEPT ![t] = L]
    BY <1>1, <2>1, <2>2, <2>3, <2>4, <2>5, Zenon DEF transferForSignal, transferForSignal, Goto
  <2>7. /\ th[t] \in Thread
        /\ "enq" \in Pcs
        /\ n \in Nodes \cup {NULL}
        /\ nextWaiter[n] \in Nodes \cup {NULL}
    BY <1>1, <2>1, <2>2, <2>3, <2>4, <2>5 DEF Pcs, LivePcs, FirstPcs, RetiredPcs, CancelledPcs,
       AwaitPcs, UnparkPcs, SharedPcs, TransferPcs, Rets, CondTypes
  <2>8. L \in Thread
    BY ONLY <2>7, Zenon DEF Thread, Rets
  <2>9. th'[t] = L
    BY ONLY <1>0, <2>6
  <2>10. /\ th'[t].pc = "enq" /\ th'[t].i = th[t].i /\ th'[t].was = th[t].was /\ th'[t].pred = th[t].pred
         /\ th'[t].predNext = th[t].predNext /\ th'[t].ws = th[t].ws /\ th'[t].s = th[t].s
         /\ th'[t].q = nextWaiter[n] /\ th'[t].h = th[t].h /\ th'[t].u = th[t].u
         /\ th'[t].ret = th[t].ret /\ th'[t].ret2 = th[t].ret2 /\ th'[t].n = n
         /\ th'[t].mode = th[t].mode
    BY ONLY <2>9, <2>7 DEF Thread
  <2>11. /\ Nodes' = Nodes /\ node' \in [Nodes -> NodeRecord]
         /\ \A m \in Nodes : node'[m].prev = node[m].prev /\ node'[m].next = node[m].next
         /\ \A m \in Nodes \ {n} : node'[m].ws = node[m].ws
         /\ node'[n].ws = 0
    BY <2>1, <2>2, <2>3, <2>4, <2>5, WsSet, Zenon
  <2>12. order' = order /\ program' = program /\ head' = head /\ tail' = tail /\ UNCHANGED parking /\ state' \in Nat
    BY <1>1, <2>1, <2>2, <2>3, <2>4, <2>5 DEF sync
  <2>13. th' = [th EXCEPT ![t] = th'[t]] /\ th'[t] \in Thread /\ th'[t].i = th[t].i
    BY <2>6, <2>8, <2>10, Zenon
  <2>14. LocalsSound(t)'
    BY <2>1, <2>2, <2>3, <2>4, <2>5, <2>11, <2>12, <2>7, <2>10 DEF LocalsSound, PredPcs, LinkedPcs,
       Leaving, At, Call, Pcs, LivePcs, FirstPcs, RetiredPcs, CancelledPcs, AwaitPcs, UnparkPcs,
       SharedPcs, TransferPcs
  <2>15. NodeSound(t)'
    BY <2>1, <2>2, <2>3, <2>4, <2>5, <2>11, <2>12, <2>10 DEF NodeSound, ThisLive, Fresh, Awaiting,
       Leaving, GivenUp, LinkedPcs, At, Call, Me, Pcs, LivePcs, FirstPcs, RetiredPcs, CancelledPcs,
       AwaitPcs, UnparkPcs, SharedPcs, TransferPcs
  <2>16. ClaimSound(t)' /\ (Claiming(t)' => Mine(t)' = n /\ ~At(t, "inittail")')
    BY <2>11, <2>12, <2>13, <2>1, <2>2, <2>3, <2>4, <2>5, <2>10, ClaimKept DEF CANCELLED, CONDITION
  <2>17. \A u \in Threads \ {t} : Claiming(u) => Mine(u) # n
    BY <2>1, <2>2, <2>3, <2>4, <2>5, ClaimedNode
  <2>18. \A m \in Nodes : node[m].ws = CONDITION => m[1] # t \/ m = n
    BY <2>1, <2>2, <2>3, <2>4, <2>5, NoneWaits
  <2>19. node'[n].ws = CONDITION => n = Me(t) /\ Awaiting(t)'
    BY <2>1, <2>2, <2>3, <2>4, <2>5, <2>11, <2>12, <2>10 DEF Claiming, Awaiting, At, Call, Me, Pcs,
       LivePcs, FirstPcs, RetiredPcs, CancelledPcs, AwaitPcs, UnparkPcs, SharedPcs, TransferPcs,
       CONDITION
  <2>20. \A m \in Nodes \ {n} : node'[m].prev = node[m].prev /\ node'[m].ws = node[m].ws
    BY <2>11
  <2>21. \A m \in Nodes \ Queued(order) : node'[m].next = node[m].next \/ node'[m].next = NULL
    BY <2>11
  <2> QED BY ONLY IInv, program' = program, <2>11, <2>12, <2>13, <2>14, <2>15, <2>16, <2>17, <2>18,
             <2>19, <2>20, <2>21, <2>1, <2>2, <2>3, <2>4, <2>5, UnqueuedStep
<1>2. CASE node[n].ws # CONDITION /\ nextWaiter[n] = NULL
  <2>1. th[t].pc \in {"start", "all"} /\ th[t].pc # "done"
    BY <1>2 DEF transferForSignal, At
  <2>2. /\ th[t].i + 1 \in Nat \ {0} /\ <<t, th[t].i + 1>> \notin Range(order)
        /\ th[t].i # Len(program[t]) => th[t].i + 1 \in DOMAIN program[t]
    BY <2>1, NextCall
  <2> DEFINE pc == IF th[t].i = Len(program[t]) THEN "done" ELSE "start"
  <2> DEFINE L == FreshAt(pc, th[t].i + 1, FALSE, "none", NULL, NULL, NoRet)
  <2>3. th' = [th EXCEPT ![t] = L]
    BY <1>2, <2>1, <2>2, Continuations, Zenon DEF transferForSignal, Goto
  <2>4. /\ th[t] \in Thread
        /\ pc \in Pcs
        /\ th[t].i + 1 \in Nat \ {0}
        /\ FALSE \in BOOLEAN
        /\ "none" \in {"none", "THROW_IE", "REINTERRUPT"}
        /\ NULL \in Nodes \cup {NULL}
        /\ NULL \in Nodes \cup {NULL}
        /\ NoRet \in Rets
    BY <1>2, <2>1, <2>2 DEF Pcs, LivePcs, FirstPcs, RetiredPcs, CancelledPcs, AwaitPcs, UnparkPcs,
       SharedPcs, TransferPcs, Rets, Thread
  <2>5. /\ L \in Thread
        /\ L.pc = pc /\ L.i = th[t].i + 1 /\ L.was = FALSE /\ L.pred = NULL /\ L.predNext = NULL
        /\ L.ws = 0 /\ L.s = NULL /\ L.q = NULL /\ L.h = NULL /\ L.u = NULL /\ L.ret = NoRet
        /\ L.ret2 = NoRet /\ L.n = NULL /\ L.mode = "none"
    <3>1. L = [pc |-> pc, i |-> th[t].i + 1, was |-> FALSE, pred |-> NULL, predNext |-> NULL,
              ws |-> 0, s |-> NULL, q |-> NULL, h |-> NULL, u |-> NULL, ret |-> NoRet,
              ret2 |-> NoRet, n |-> NULL, mode |-> "none"]
      BY ONLY DEF FreshAt
    <3> HIDE DEF L, pc
    <3>2. L \in Thread
      BY ONLY <3>1, <2>4 DEF Thread
    <3> QED BY ONLY <3>1, <3>2
  <2> HIDE DEF L
  <2>6. th'[t] = L
    BY ONLY <1>0, <2>3
  <2>7. /\ th'[t].pc = pc /\ th'[t].i = th[t].i + 1 /\ th'[t].was = FALSE /\ th'[t].pred = NULL
        /\ th'[t].predNext = NULL /\ th'[t].ws = 0 /\ th'[t].s = NULL /\ th'[t].q = NULL
        /\ th'[t].h = NULL /\ th'[t].u = NULL /\ th'[t].ret = NoRet /\ th'[t].ret2 = NoRet
        /\ th'[t].n = NULL /\ th'[t].mode = "none"
    BY ONLY <2>6, <2>5
  <2>8. order' = order /\ program' = program /\ head' = head /\ tail' = tail
    BY <1>2 DEF transferForSignal, sync
  <2>9. LocalsSound(t)'
    BY <2>1, <2>2, <2>4, <2>7, <2>8 DEF LocalsSound, PredPcs, LinkedPcs, Leaving, At, Call, Pcs,
       LivePcs, FirstPcs, RetiredPcs, CancelledPcs, AwaitPcs, UnparkPcs, SharedPcs, TransferPcs
  <2>10. ASSUME CancelledNodes' = CancelledNodes PROVE NodeSound(t)'
    <3>1. th'[t].pc \in {"start", "done"}
      BY <2>7
    <3>2. th'[t].i = th[t].i + 1 /\ order' = order /\ <<t, th[t].i + 1>> \notin Range(order)
      BY ONLY <2>2, <2>7, <2>8
    <3>3. <<t, th'[t].i>> \notin Range(order')
      BY ONLY <3>2
    <3> QED BY <3>1, <3>3, <2>7, IdleSound
  <2>11. ~Claiming(t)' /\ ~(Awaiting(t) /\ Me(t) \notin Range(order))
    BY <2>1, <2>2, <2>7, <2>8 DEF Claiming, Awaiting, At, Call, Me, Pcs, LivePcs, FirstPcs,
       RetiredPcs, CancelledPcs, AwaitPcs, UnparkPcs, SharedPcs, TransferPcs
  <2>12. Proceeds(t)
    BY ONLY <2>3, <2>5, <2>6, <2>7, <2>9, <2>10, <2>11, Zenon DEF Proceeds
  <2>13. QuietNodes
    BY <1>2, SameNodes DEF transferForSignal, compareAndSetWaitStatus
  <2>14. state' \in Nat /\ permit' \in [Threads -> BOOLEAN] /\ intr' \in [Threads -> BOOLEAN]
    BY <1>2, <2>1, <2>2 DEF transferForSignal, sync, parking
  <2> QED BY <2>8, <2>12, <2>14, <2>13, LocalStep
<1>3. CASE node[n].ws # CONDITION /\ nextWaiter[n] # NULL
  <2>1. th[t].pc \in {"start", "all"}
    BY <1>3 DEF transferForSignal, At
  <2>2. /\ th[t].i \in DOMAIN program[t] /\ th[t].ret2 # "pnext" /\ th[t].n = NULL
        /\ th[t].pred \in Queued(order) \cup {NULL} /\ th[t].h \in Queued(order) \cup {NULL}
    BY <2>1 DEF LocalsSound, Pcs, LivePcs, FirstPcs, RetiredPcs, CancelledPcs, AwaitPcs, UnparkPcs,
       SharedPcs, TransferPcs
  <2>3. nextWaiter[n] # NULL
    BY <1>3
  <2> DEFINE L == [th[t] EXCEPT !.pc = th[t].pc, !.q = nextWaiter[n]]
  <2>4. th' = [th EXCEPT ![t] = L]
    BY <1>3, <2>1, <2>2, <2>3, Zenon DEF transferForSignal, Goto
  <2>5. /\ th[t] \in Thread
        /\ nextWaiter[n] \in Nodes \cup {NULL}
    BY <1>3, <2>1, <2>2, <2>3 DEF Pcs, LivePcs, FirstPcs, RetiredPcs, CancelledPcs, AwaitPcs,
       UnparkPcs, SharedPcs, TransferPcs, Rets, CondTypes, Thread
  <2>6. L \in Thread
    BY ONLY <2>5, Zenon DEF Thread, Rets
  <2>7. th'[t] = L
    BY ONLY <1>0, <2>4
  <2>8. /\ th'[t].pc = th[t].pc /\ th'[t].i = th[t].i /\ th'[t].was = th[t].was
        /\ th'[t].pred = th[t].pred /\ th'[t].predNext = th[t].predNext /\ th'[t].ws = th[t].ws
        /\ th'[t].s = th[t].s /\ th'[t].q = nextWaiter[n] /\ th'[t].h = th[t].h /\ th'[t].u = th[t].u
        /\ th'[t].ret = th[t].ret /\ th'[t].ret2 = th[t].ret2 /\ th'[t].n = th[t].n
        /\ th'[t].mode = th[t].mode
    BY ONLY <2>7, <2>5 DEF Thread
  <2>9. order' = order /\ program' = program /\ head' = head /\ tail' = tail
    BY <1>3 DEF transferForSignal, sync
  <2>10. LocalsSound(t)'
    BY <2>1, <2>2, <2>3, <2>5, <2>8, <2>9 DEF LocalsSound, PredPcs, LinkedPcs, Leaving, At, Call,
       Pcs, LivePcs, FirstPcs, RetiredPcs, CancelledPcs, AwaitPcs, UnparkPcs, SharedPcs, TransferPcs
  <2>11. ASSUME CancelledNodes' = CancelledNodes PROVE NodeSound(t)'
    BY <2>1, <2>2, <2>3, <2>8, <2>9, <2>11 DEF NodeSound, ThisLive, Fresh, Awaiting, Leaving,
       GivenUp, LinkedPcs, At, Call, Me, Pcs, LivePcs, FirstPcs, RetiredPcs, CancelledPcs, AwaitPcs,
       UnparkPcs, SharedPcs, TransferPcs
  <2>12. ~Claiming(t)' /\ (Awaiting(t) /\ Me(t) \notin Range(order) => Awaiting(t)')
    BY <2>1, <2>2, <2>3, <2>8, <2>9 DEF Claiming, Awaiting, At, Call, Me, Pcs, LivePcs, FirstPcs,
       RetiredPcs, CancelledPcs, AwaitPcs, UnparkPcs, SharedPcs, TransferPcs
  <2>13. Proceeds(t)
    BY ONLY <2>4, <2>6, <2>7, <2>8, <2>10, <2>11, <2>12, Zenon DEF Proceeds
  <2>14. QuietNodes
    BY <1>3, SameNodes DEF transferForSignal, compareAndSetWaitStatus
  <2>15. state' \in Nat /\ permit' \in [Threads -> BOOLEAN] /\ intr' \in [Threads -> BOOLEAN]
    BY <1>3, <2>1, <2>2, <2>3 DEF transferForSignal, sync, parking
  <2> QED BY <2>9, <2>13, <2>15, <2>14, LocalStep
<1> QED BY <1>1, <1>2, <1>3

\* enq on an empty queue: the head is new, or the tail.
LEMMA EmptyStep ==
    ASSUME IInv, NEW t \in Threads, program' = program, Claiming(t), th[t].pc # "transfer_tail", tail = NULL,
           state' = state, UNCHANGED parking, node' = node, order' = order,
           head' = Dummy, tail' \in {NULL, Dummy},
           \A u \in Threads \ {t} : ~At(u, "inittail"),
           th' = [th EXCEPT ![t] = th'[t]], th'[t] \in Thread, th'[t].i = th[t].i, th'[t].n = th[t].n,
           LocalsSound(t)', NodeSound(t)',
           th'[t].pc \in {"enq", "inittail"}, th'[t].pc = "inittail" => tail' = NULL
    PROVE  IInv'
<1>1. Nodes' = Nodes /\ Prev' = Prev /\ CancelledNodes' = CancelledNodes
  BY DEF Nodes, Prev, CancelledNodes
<1>2. /\ order = <<>> /\ head \in {NULL, Dummy} /\ Shape(order, head, NULL, Prev, CancelledNodes)
      /\ order \in Seq(Nodes \ {Dummy})
  BY DEF IInv, Shape
<1>3. Shape(order, Dummy, tail', Prev, CancelledNodes)
  BY <1>2, ShapeFirst, AQSAssumption
<1>4. Range(order) = {}
  BY <1>2 DEF Range
<1>5. \A u \in Threads : th[u].pc \notin FirstPcs
  BY <1>4 DEF IInv, Sound, NodeSound, LivePcs, ThisLive, Live
<1>6. ~Awaiting(t)
  BY ClaimedNode
<1>7. Spares(t)
  BY <1>1, <1>4, <1>5, <1>6 DEF Spares
<1>8. Sound(t)'
  <2>1. PICK x : x = Mine(t)
    OBVIOUS
  <2>2. /\ x \in Nodes /\ x \notin Queued(order) /\ node'[x].ws \notin {CANCELLED, CONDITION}
        /\ th[t].n # NULL => /\ x = th[t].n /\ x[1] \in Threads \ {t}
                             /\ th[x[1]].i = x[2] /\ Awaiting(x[1])
        /\ th[t].n = NULL => x = <<t, th[t].i>>
    BY <2>1, ClaimedNode DEF Mine, Me
  <2>3. Mine(t)' = x
    BY <2>2 DEF Mine, Me
  <2>4. ASSUME th'[t].n # NULL PROVE th'[x[1]].i = x[2] /\ Awaiting(x[1])'
    <3>1. th'[x[1]] = th[x[1]]
      BY <2>2, <2>4 DEF IInv
    <3> QED BY <2>2, <2>4, <3>1 DEF Awaiting, Call
  <2>5. ClaimSound(t)'
    BY <1>1, <2>2, <2>3, <2>4 DEF ClaimSound, At
  <2> QED BY <2>5 DEF Sound
<1>9. TypeOK'
  BY <1>1, NodeForm DEF IInv, TypeOK, parking
<1>10. \A n \in Nodes : node'[n].ws = CONDITION => n \notin Queued(order') /\ n[1] # t /\ node[n].ws = CONDITION
  BY <1>6, NoneWaits
<1>11. Mine(t)' = Mine(t)
  BY DEF Mine, Me
<1>12. \A u \in Threads \ {t} : Claiming(t)' /\ Claiming(u) =>
          Mine(u) # Mine(t)' /\ ~(At(t, "inittail")' /\ At(u, "inittail"))
  BY <1>11, OtherClaims
<1>13. Shape(order', head', tail', Prev', CancelledNodes') /\ Range(order') \ Range(order) = {}
  BY <1>1, <1>3
<1> QED BY <1>1, <1>2, <1>7, <1>8, <1>9, <1>10, <1>12, <1>13, StepSound

\* Somebody interrupts a thread.
LEMMA InterruptStep ==
    ASSUME IInv, NEW t \in Threads, program' = program, Interrupt(t)
    PROVE  IInv'
<1>1. /\ state' = state /\ head' = head /\ tail' = tail /\ node' = node /\ th' = th /\ permit' = permit
      /\ order' = order /\ intr' \in [Threads -> BOOLEAN]
  BY Locals DEF Interrupt, sync
<1>2. Nodes' = Nodes
  BY <1>1 DEF Nodes
<1>3. TypeOK'
  BY <1>1, <1>2 DEF IInv, TypeOK
<1>4. LocalsSound(t)' /\ (CancelledNodes' = CancelledNodes => NodeSound(t)')
  BY <1>1, Locals DEF LocalsSound, NodeSound, ThisLive, Leaving, GivenUp, Awaiting, Fresh, At, Call,
     Me
<1>5. /\ (Claiming(t)' <=> Claiming(t)) /\ Mine(t)' = Mine(t) /\ (Awaiting(t)' <=> Awaiting(t))
      /\ (At(t, "inittail")' <=> At(t, "inittail")) /\ (At(t, "transfer_tail")' <=> At(t, "transfer_tail"))
  BY <1>1 DEF Claiming, Mine, Me, Awaiting, Call, At
<1>6. th' \in [Threads -> Thread] /\ th'[t].i \in Nat
  BY <1>1 DEF IInv, Thread
<1> QED BY <1>1, <1>2, <1>3, <1>4, <1>5, <1>6, QuietStep

\* enq creates the head of an empty queue.
LEMMA EmptySteps ==
    ASSUME IInv, NEW t \in Threads, program' = program,
           EnqHead(t) \/ EnqTail(t)
    PROVE  IInv'
<1> USE Locals, NodeForm, NoReturn
<1>0. th \in [Threads -> Thread] /\ t \in Threads
  OBVIOUS
<1>1. CASE EnqHead(t)
  <2>1. th[t].pc = "enq"
    BY ONLY <1>1 DEF EnqHead, At
  <2>2. Claiming(t) /\ tail = NULL /\ head = NULL
    BY <1>1, <2>1 DEF EnqHead, Claiming
  <2>3. \A u \in Threads \ {t} : ~At(u, "inittail")
    BY <2>2, AQSAssumption DEF IInv, Sound, ClaimSound, Claiming, At
  <2> DEFINE L == [th[t] EXCEPT !.pc = "inittail"]
  <2>4. th' = [th EXCEPT ![t] = L]
    BY <1>1, <2>1, <2>2, <2>3 DEF EnqHead, Goto
  <2>5. /\ th[t] \in Thread
        /\ "inittail" \in Pcs
    BY <1>1, <2>1, <2>2, <2>3 DEF Pcs, LivePcs, FirstPcs, RetiredPcs, CancelledPcs, AwaitPcs,
       UnparkPcs, SharedPcs, TransferPcs, Rets
  <2>6. L \in Thread
    BY ONLY <2>5 DEF Thread, Rets
  <2>7. th'[t] = L
    BY ONLY <1>0, <2>4
  <2>8. /\ th'[t].pc = "inittail" /\ th'[t].i = th[t].i /\ th'[t].was = th[t].was
        /\ th'[t].pred = th[t].pred /\ th'[t].predNext = th[t].predNext /\ th'[t].ws = th[t].ws
        /\ th'[t].s = th[t].s /\ th'[t].q = th[t].q /\ th'[t].h = th[t].h /\ th'[t].u = th[t].u
        /\ th'[t].ret = th[t].ret /\ th'[t].ret2 = th[t].ret2 /\ th'[t].n = th[t].n
        /\ th'[t].mode = th[t].mode
    BY ONLY <2>7, <2>5 DEF Thread
  <2>9. order' = order /\ program' = program /\ head' = Dummy /\ tail' \in {NULL, Dummy} /\ UNCHANGED parking /\ state' = state /\ node' = node
    BY <1>1, <2>1, <2>2, <2>3 DEF EnqHead
  <2>10. th' = [th EXCEPT ![t] = th'[t]] /\ th'[t] \in Thread /\ th'[t].i = th[t].i /\ th'[t].n = th[t].n
    BY <2>4, <2>6, <2>8, Zenon
  <2>11. LocalsSound(t)'
    BY <2>1, <2>2, <2>3, <2>9, <2>10, <2>5, <2>8 DEF LocalsSound, PredPcs, LinkedPcs, Leaving, At,
       Call, Pcs, LivePcs, FirstPcs, RetiredPcs, CancelledPcs, AwaitPcs, UnparkPcs, SharedPcs,
       TransferPcs
  <2>12. NodeSound(t)'
    BY <2>1, <2>2, <2>3, <2>9, <2>10, <2>8 DEF NodeSound, ThisLive, Fresh, Awaiting, Leaving,
       GivenUp, LinkedPcs, At, Call, Me, Pcs, LivePcs, FirstPcs, RetiredPcs, CancelledPcs, AwaitPcs,
       UnparkPcs, SharedPcs, TransferPcs
  <2>13. th'[t].pc \in {"enq", "inittail"} /\ (th'[t].pc = "inittail" => tail' = NULL)
    BY <1>1, <2>1, <2>2, <2>3, <2>8 DEF EnqHead
  <2> QED BY ONLY IInv, program' = program, <2>9, <2>10, <2>11, <2>12, <2>13, <2>1, <2>2, <2>3,
             EmptyStep
<1>2. CASE EnqTail(t)
  <2>1. th[t].pc = "inittail"
    BY ONLY <1>2 DEF EnqTail, At
  <2>2. Claiming(t) /\ tail = NULL /\ head = Dummy
    BY <1>2, <2>1, ClaimedNode DEF Claiming, At
  <2>3. \A u \in Threads \ {t} : ~At(u, "inittail")
    BY <2>1 DEF IInv, ClaimsExclusive, At
  <2> DEFINE L == [th[t] EXCEPT !.pc = "enq"]
  <2>4. th' = [th EXCEPT ![t] = L]
    BY <1>2, <2>1, <2>2, <2>3 DEF EnqTail, Goto
  <2>5. /\ th[t] \in Thread
        /\ "enq" \in Pcs
    BY <1>2, <2>1, <2>2, <2>3 DEF Pcs, LivePcs, FirstPcs, RetiredPcs, CancelledPcs, AwaitPcs,
       UnparkPcs, SharedPcs, TransferPcs, Rets
  <2>6. L \in Thread
    BY ONLY <2>5 DEF Thread, Rets
  <2>7. th'[t] = L
    BY ONLY <1>0, <2>4
  <2>8. /\ th'[t].pc = "enq" /\ th'[t].i = th[t].i /\ th'[t].was = th[t].was /\ th'[t].pred = th[t].pred
        /\ th'[t].predNext = th[t].predNext /\ th'[t].ws = th[t].ws /\ th'[t].s = th[t].s
        /\ th'[t].q = th[t].q /\ th'[t].h = th[t].h /\ th'[t].u = th[t].u /\ th'[t].ret = th[t].ret
        /\ th'[t].ret2 = th[t].ret2 /\ th'[t].n = th[t].n /\ th'[t].mode = th[t].mode
    BY ONLY <2>7, <2>5 DEF Thread
  <2>9. order' = order /\ program' = program /\ head' = Dummy /\ tail' \in {NULL, Dummy} /\ UNCHANGED parking /\ state' = state /\ node' = node
    BY <1>2, <2>1, <2>2, <2>3 DEF EnqTail
  <2>10. th' = [th EXCEPT ![t] = th'[t]] /\ th'[t] \in Thread /\ th'[t].i = th[t].i /\ th'[t].n = th[t].n
    BY <2>4, <2>6, <2>8, Zenon
  <2>11. LocalsSound(t)'
    BY <2>1, <2>2, <2>3, <2>9, <2>10, <2>5, <2>8 DEF LocalsSound, PredPcs, LinkedPcs, Leaving, At,
       Call, Pcs, LivePcs, FirstPcs, RetiredPcs, CancelledPcs, AwaitPcs, UnparkPcs, SharedPcs,
       TransferPcs
  <2>12. NodeSound(t)'
    BY <2>1, <2>2, <2>3, <2>9, <2>10, <2>8 DEF NodeSound, ThisLive, Fresh, Awaiting, Leaving,
       GivenUp, LinkedPcs, At, Call, Me, Pcs, LivePcs, FirstPcs, RetiredPcs, CancelledPcs, AwaitPcs,
       UnparkPcs, SharedPcs, TransferPcs
  <2>13. th'[t].pc \in {"enq", "inittail"} /\ (th'[t].pc = "inittail" => tail' = NULL)
    BY <1>2, <2>1, <2>2, <2>3, <2>8 DEF EnqTail
  <2> QED BY ONLY IInv, program' = program, <2>9, <2>10, <2>11, <2>12, <2>13, <2>1, <2>2, <2>3,
             EmptyStep
<1> QED BY <1>1, <1>2

\* enq appends the node of the thread or of the waiter.
LEMMA AppendSteps ==
    ASSUME IInv, NEW t \in Threads, program' = program,
           Enq(t) \/ (TransferTail(t) /\ tail = th[t].pred)
    PROVE  IInv'
<1> USE Locals, NodeForm, NoReturn
<1>0. th \in [Threads -> Thread] /\ t \in Threads
  OBVIOUS
<1>1. CASE Enq(t)
  <2>1. th[t].pc = "enq" /\ th[t].n = NULL
    BY ONLY <1>1 DEF Enq, At
  <2>2. PICK x : x = Me(t) /\ x = Mine(t)
    BY <2>1 DEF Mine
  <2>3. /\ x \in Nodes /\ x \notin Queued(order) /\ x \notin Range(order) /\ x # NULL /\ x # Dummy
        /\ Claiming(t) /\ Mine(t) = x
    BY <1>1, <2>1, <2>2, ClaimedNode DEF Claiming
  <2>4. tail # NULL /\ tail \in Nodes /\ tail \in Queued(order)
    BY <1>1, LinksQueued DEF Enq
  <2>5. node' = [node EXCEPT ![x].prev = tail]
    BY <1>1, <1>1, <2>1, <2>2, <2>3, <2>4 DEF Enq
  <2> DEFINE L == [th[t] EXCEPT !.pc = "link", !.pred = tail]
  <2>6. th' = [th EXCEPT ![t] = L]
    BY <1>1, <2>1, <2>2, <2>3, <2>4, <2>5, Zenon DEF Enq, Goto
  <2>7. /\ th[t] \in Thread
        /\ "link" \in Pcs
        /\ tail \in Nodes \cup {NULL}
    BY <1>1, <2>1, <2>2, <2>3, <2>4, <2>5 DEF Pcs, LivePcs, FirstPcs, RetiredPcs, CancelledPcs,
       AwaitPcs, UnparkPcs, SharedPcs, TransferPcs, Rets
  <2>8. L \in Thread
    BY ONLY <2>7, Zenon DEF Thread, Rets
  <2>9. th'[t] = L
    BY ONLY <1>0, <2>6
  <2>10. /\ th'[t].pc = "link" /\ th'[t].i = th[t].i /\ th'[t].was = th[t].was /\ th'[t].pred = tail
         /\ th'[t].predNext = th[t].predNext /\ th'[t].ws = th[t].ws /\ th'[t].s = th[t].s
         /\ th'[t].q = th[t].q /\ th'[t].h = th[t].h /\ th'[t].u = th[t].u /\ th'[t].ret = th[t].ret
         /\ th'[t].ret2 = th[t].ret2 /\ th'[t].n = th[t].n /\ th'[t].mode = th[t].mode
    BY ONLY <2>9, <2>7 DEF Thread
  <2>11. /\ Nodes' = Nodes /\ node' \in [Nodes -> NodeRecord]
         /\ \A n \in Nodes : node'[n].ws = node[n].ws /\ node'[n].next = node[n].next
         /\ \A n \in Nodes \ {x} : node'[n].prev = node[n].prev
         /\ node'[x].prev = tail
    BY <2>1, <2>2, <2>3, <2>4, <2>5, PrevSet, Zenon
  <2>12. order' = Append(order, x) /\ program' = program /\ head' = head /\ tail' = x /\ UNCHANGED parking /\ state' = state
    BY <1>1, <2>1, <2>2, <2>3, <2>4, <2>5 DEF Enq
  <2>13. th' = [th EXCEPT ![t] = th'[t]] /\ th'[t] \in Thread /\ th'[t].i = th[t].i
    BY <2>6, <2>8, <2>10, Zenon
  <2>14. ~Claiming(t)'
    BY <2>10 DEF Claiming
  <2>15. Range(order') = Range(order) \cup {x} /\ Live(order', head', CancelledNodes', x) => LocalsSound(t)'
    BY <2>1, <2>2, <2>3, <2>4, <2>5, <2>11, <2>12, <2>7, <2>10 DEF Queued, LocalsSound, PredPcs,
       LinkedPcs, Leaving, At, Call, Pcs, LivePcs, FirstPcs, RetiredPcs, CancelledPcs, AwaitPcs,
       UnparkPcs, SharedPcs, TransferPcs
  <2>16. Range(order') = Range(order) \cup {x} /\ Live(order', head', CancelledNodes', x) => NodeSound(t)'
    BY <2>1, <2>2, <2>3, <2>4, <2>5, <2>11, <2>12, <2>10 DEF NodeSound, ThisLive, Fresh, Awaiting,
       Leaving, GivenUp, LinkedPcs, At, Call, Me, Pcs, LivePcs, FirstPcs, RetiredPcs, CancelledPcs,
       AwaitPcs, UnparkPcs, SharedPcs, TransferPcs
  <2> QED BY ONLY IInv, program' = program, <2>11, <2>12, <2>13, <2>14, <2>15, <2>16, <2>1, <2>2,
             <2>3, <2>4, <2>5, AppendStep
<1>2. CASE TransferTail(t) /\ tail = th[t].pred
  <2>1. th[t].pc = "transfer_tail"
    BY ONLY <1>2 DEF TransferTail, At
  <2>2. th[t].n # NULL
    BY <2>1 DEF LocalsSound, TransferPcs
  <2>3. PICK x : x = th[t].n
    OBVIOUS
  <2>4. /\ x \in Nodes /\ x \notin Queued(order) /\ x \notin Range(order) /\ x # NULL /\ x # Dummy
        /\ Claiming(t) /\ Mine(t) = x
    BY <1>2, <2>1, <2>2, <2>3, ClaimedNode DEF Claiming
  <2>5. tail # NULL /\ tail \in Nodes /\ tail \in Queued(order)
    BY <1>2, <2>1, LinksQueued DEF LocalsSound, PredPcs, TransferPcs
  <2>6. node[x].prev = tail
    BY <1>2, <1>2, <2>1, <2>2, <2>3, <2>4, <2>5, ClaimedNode DEF At
  <2> DEFINE L == [th[t] EXCEPT !.pc = "transfer_link"]
  <2>7. th' = [th EXCEPT ![t] = L]
    BY <1>2, <2>1, <2>2, <2>3, <2>4, <2>5, <2>6 DEF TransferTail, Goto
  <2>8. /\ th[t] \in Thread
        /\ "transfer_link" \in Pcs
    BY <1>2, <2>1, <2>2, <2>3, <2>4, <2>5, <2>6 DEF Pcs, LivePcs, FirstPcs, RetiredPcs,
       CancelledPcs, AwaitPcs, UnparkPcs, SharedPcs, TransferPcs, Rets
  <2>9. L \in Thread
    BY ONLY <2>8 DEF Thread, Rets
  <2>10. th'[t] = L
    BY ONLY <1>0, <2>7
  <2>11. /\ th'[t].pc = "transfer_link" /\ th'[t].i = th[t].i /\ th'[t].was = th[t].was
         /\ th'[t].pred = th[t].pred /\ th'[t].predNext = th[t].predNext /\ th'[t].ws = th[t].ws
         /\ th'[t].s = th[t].s /\ th'[t].q = th[t].q /\ th'[t].h = th[t].h /\ th'[t].u = th[t].u
         /\ th'[t].ret = th[t].ret /\ th'[t].ret2 = th[t].ret2 /\ th'[t].n = th[t].n
         /\ th'[t].mode = th[t].mode
    BY ONLY <2>10, <2>8 DEF Thread
  <2>12. /\ Nodes' = Nodes /\ node' \in [Nodes -> NodeRecord]
         /\ \A n \in Nodes : node'[n].ws = node[n].ws /\ node'[n].next = node[n].next
         /\ \A n \in Nodes \ {x} : node'[n].prev = node[n].prev
         /\ node'[x].prev = tail
    BY <1>2, <2>1, <2>2, <2>3, <2>4, <2>5, <2>6, NodeTypes DEF TransferTail, Nodes, NodeRecord
  <2>13. order' = Append(order, x) /\ program' = program /\ head' = head /\ tail' = x /\ UNCHANGED parking /\ state' = state
    BY <1>2, <2>1, <2>2, <2>3, <2>4, <2>5, <2>6 DEF TransferTail
  <2>14. th' = [th EXCEPT ![t] = th'[t]] /\ th'[t] \in Thread /\ th'[t].i = th[t].i
    BY <2>7, <2>9, <2>11, Zenon
  <2>15. ~Claiming(t)'
    BY <2>11 DEF Claiming
  <2>16. Range(order') = Range(order) \cup {x} /\ Live(order', head', CancelledNodes', x) => LocalsSound(t)'
    BY <2>1, <2>2, <2>3, <2>4, <2>5, <2>6, <2>12, <2>13, <2>8, <2>11 DEF Queued, LocalsSound,
       PredPcs, LinkedPcs, Leaving, At, Call, Pcs, LivePcs, FirstPcs, RetiredPcs, CancelledPcs,
       AwaitPcs, UnparkPcs, SharedPcs, TransferPcs
  <2>17. Range(order') = Range(order) \cup {x} /\ Live(order', head', CancelledNodes', x) => NodeSound(t)'
    BY <2>1, <2>2, <2>3, <2>4, <2>5, <2>6, <2>12, <2>13, <2>11 DEF NodeSound, ThisLive, Fresh,
       Awaiting, Leaving, GivenUp, LinkedPcs, At, Call, Me, Pcs, LivePcs, FirstPcs, RetiredPcs,
       CancelledPcs, AwaitPcs, UnparkPcs, SharedPcs, TransferPcs
  <2> QED BY ONLY IInv, program' = program, <2>12, <2>13, <2>14, <2>15, <2>16, <2>17, <2>1, <2>2,
             <2>3, <2>4, <2>5, <2>6, AppendStep
<1> QED BY <1>1, <1>2
-----------------------------------------------------------------------------
(* The invariant *)

\* The initial states
LEMMA InitSound ==
    ASSUME Init
    PROVE  IInv
<1>1. /\ program \in Programs /\ state = 0 /\ head = NULL /\ tail = NULL /\ order = <<>>
      /\ node = [n \in NewNodes |-> NewNode(NULL)] /\ th = [t \in Threads |-> Start]
      /\ permit \in [Threads -> BOOLEAN] /\ intr \in [Threads -> BOOLEAN]
  BY DEF Init
<1>2. Nodes = NewNodes /\ NULL \notin Nodes /\ Dummy \in Nodes
  BY <1>1, NodesAre DEF Nodes
<1>3. \A n \in Nodes : node[n] = [ws |-> 0, prev |-> NULL, next |-> NULL, thread |-> NULL]
  BY <1>1, <1>2 DEF NewNode
<1>4. node \in [Nodes -> NodeRecord]
  BY <1>1, <1>2 DEF NewNode, NodeRecord
<1>5. TypeOK
  BY <1>1, <1>4 DEF TypeOK, NodeRecord
<1>6. PICK L : L = FreshAt("start", 1, FALSE, "none", NULL, NULL, NoRet)
  BY Zenon
<1>7. /\ L \in Thread
      /\ L.pc = "start" /\ L.i = 1 /\ L.was = FALSE /\ L.pred = NULL /\ L.predNext = NULL /\ L.ws = 0
      /\ L.s = NULL /\ L.q = NULL /\ L.h = NULL /\ L.u = NULL /\ L.ret = NoRet /\ L.ret2 = NoRet
      /\ L.n = NULL /\ L.mode = "none"
  <2>1. PICK pc, mode, i : pc = "start" /\ mode = "none" /\ i = 1
    OBVIOUS
  <2>2. /\ pc \in Pcs /\ i \in Nat \ {0} /\ FALSE \in BOOLEAN
        /\ mode \in {"none", "THROW_IE", "REINTERRUPT"} /\ NULL \in Nodes \cup {NULL} /\ NoRet \in Rets
    BY ONLY <2>1 DEF Pcs, Rets
  <2>3. L = FreshAt(pc, i, FALSE, mode, NULL, NULL, NoRet)
    BY ONLY <1>6, <2>1
  <2>4. /\ L \in Thread
        /\ L.pc = pc /\ L.i = i /\ L.was = FALSE /\ L.pred = NULL /\ L.predNext = NULL /\ L.ws = 0
        /\ L.s = NULL /\ L.q = NULL /\ L.h = NULL /\ L.u = NULL /\ L.ret = NoRet /\ L.ret2 = NoRet
        /\ L.n = NULL /\ L.mode = mode
    BY ONLY <2>2, <2>3 DEF FreshAt, Thread
  <2> QED BY ONLY <2>1, <2>4
<1>8. \A t \in Threads : th[t] = L
  <2>1. Start = L
    BY ONLY <1>6, Zenon DEF Start, FreshAt, NoRet
  <2> HIDE <1>6
  <2> QED BY <1>1, <2>1
<1>9. th \in [Threads -> Thread]
  <2>1. th = [t \in Threads |-> L]
    BY <1>1, <1>8
  <2> QED BY <1>7, <2>1
<1>10. Range(order) = {} /\ CancelledNodes = {} /\ order \in Seq(Nodes \ {Dummy}) /\ IsInjective(order)
  BY <1>1, <1>3 DEF Range, CancelledNodes, CANCELLED, IsInjective
<1>11. Shape(order, head, tail, Prev, CancelledNodes)
  <2>1. \A n \in Queued(order) : Prev[n] = NULL
    BY <1>2, <1>3, <1>10 DEF Queued, Prev
  <2> QED BY <1>1, <1>10, <2>1, AQSAssumption DEF Shape
<1>12. ASSUME NEW t \in Threads PROVE Sound(t)
  <2>1. th[t].i \in DOMAIN program[t]
    BY <1>1, <1>7, <1>8, Calls
  <2>2. LocalsSound(t)
    BY <1>1, <1>2, <1>7, <1>8, <2>1, NoReturn DEF LocalsSound, PredPcs, LinkedPcs, Leaving, At,
       Call,
       Pcs, LivePcs, FirstPcs, RetiredPcs, CancelledPcs, AwaitPcs, UnparkPcs, SharedPcs, TransferPcs
  <2>3. NodeSound(t)
    BY <1>7, <1>8, <1>10, NoReturn DEF NodeSound, Fresh, Awaiting, Leaving, GivenUp, LinkedPcs, At,
       Call, Me,
       LivePcs, FirstPcs, RetiredPcs, CancelledPcs, AwaitPcs, UnparkPcs, SharedPcs
  <2>4. ~Claiming(t)
    BY <1>7, <1>8 DEF Claiming
  <2> QED BY <2>2, <2>3, <2>4 DEF Sound, ClaimSound
<1>13. ClaimsExclusive
  BY <1>7, <1>8 DEF ClaimsExclusive, Claiming, At
<1>14. ConditionNodes /\ Unqueued /\ Past
  BY <1>3, <1>10 DEF ConditionNodes, Unqueued, Past, CONDITION
<1> QED BY <1>1, <1>2, <1>5, <1>9, <1>10, <1>11, <1>12, <1>13, <1>14 DEF IInv

\* The steps of the acquiring and releasing methods
LEMMA StepKeeps ==
    ASSUME IInv, NEW t \in Threads, program' = program,
           Step(t) \/ SpuriousWakeup(t) \/ Interrupt(t)
    PROVE  IInv'
<1>1. CASE Acquire(t)
  <2>1. At(t, "start") /\ Call(t).call = "acquire" /\ UNCHANGED <<head, tail, permit, victims, order>>
    BY <1>1 DEF Acquire
  <2>2. CASE intr' = [intr EXCEPT ![t] = FALSE] /\ Fail(t) /\ UNCHANGED <<state, node>>
    <3>1. intr' \in [Threads -> BOOLEAN] /\ Fail(t) /\ UNCHANGED <<state, node, head, tail, permit, victims, order>>
      BY <2>1, <2>2 DEF IInv, TypeOK
    <3> QED BY ONLY IInv, program' = program, <2>1, <3>1, AcquireQuietly
  <2>3. CASE tryAcquire >= 0 /\ state' = AfterAcquire /\ EndCall(t) /\ UNCHANGED <<node, intr>>
    <3>1. UNCHANGED <<node, intr, head, tail, permit, victims, order>>
      BY <2>1, <2>3
    <3> QED BY ONLY IInv, program' = program, <2>1, <2>3, <3>1, AcquireQuietly
  <2>4. CASE node' = [node EXCEPT ![Me(t)] = NewNode(t)] /\ Goto(t, "enq") /\ UNCHANGED <<state, intr>>
    <3>1. UNCHANGED <<state, intr, head, tail, permit, victims, order>>
      BY <2>1, <2>4
    <3> QED BY ONLY IInv, program' = program, <2>1, <2>4, <3>1, AcquireEnqueues, Zenon
  <2>5. CASE Fail(t) /\ UNCHANGED <<state, node, intr>>
    <3>1. intr' \in [Threads -> BOOLEAN] /\ UNCHANGED <<state, node, head, tail, permit, victims, order>>
      BY <2>1, <2>5 DEF IInv, TypeOK
    <3> QED BY ONLY IInv, program' = program, <2>1, <2>5, <3>1, AcquireQuietly
  <2> QED BY <1>1, <2>2, <2>3, <2>4, <2>5 DEF Acquire
<1>2. CASE Enqueue(t)
  <2>1. ~(Enq(t) /\ Link(t))
    BY DEF Enq, Link, At
  <2> QED BY <1>2, EmptySteps, AppendSteps, LinkStep DEF Enqueue
<1>3. CASE AcquireQueued(t)
  BY <1>3, AcquireQueuedSteps, QueueSteps DEF AcquireQueued
<1>4. CASE Dequeue(t)
  BY <1>4, DequeueSteps, QueueSteps DEF Dequeue
<1>5. CASE CancelAcquire(t)
  BY <1>5, CancelSteps, QueueSteps DEF CancelAcquire
<1>6. CASE UnparkSuccessor(t)
  BY <1>6, UnparkSteps DEF UnparkSuccessor
<1>7. CASE Releasing(t)
  BY <1>7, ReleaseSteps DEF Releasing
<1>8. CASE SpuriousWakeup(t)
  BY <1>8, AcquireQueuedSteps
<1>9. CASE Interrupt(t)
  BY <1>9, InterruptStep
<1> QED BY <1>1, <1>2, <1>3, <1>4, <1>5, <1>6, <1>7, <1>8, <1>9 DEF Step

\* Nothing changes.
LEMMA StutterKeeps ==
    ASSUME IInv, UNCHANGED vars
    PROVE  IInv'
<1>1. /\ program' = program /\ state' = state /\ head' = head /\ tail' = tail /\ node' = node /\ th' = th
      /\ permit' = permit /\ intr' = intr /\ order' = order
  BY DEF vars
<1>2. Nodes' = Nodes /\ Prev' = Prev /\ CancelledNodes' = CancelledNodes /\ (Nodes = NewNodes)'
  BY <1>1 DEF IInv, Nodes, Prev, CancelledNodes, NewNodes
<1>3. TypeOK'
  BY <1>1, <1>2 DEF IInv, TypeOK
<1>4. ASSUME NEW t \in Threads PROVE Sound(t)'
  <2>1. Sound(t)
    BY DEF IInv
  <2>2. LocalsSound(t)'
    BY <1>1, <2>1 DEF Sound, LocalsSound, Leaving, At, Call
  <2>3. NodeSound(t)'
    BY <1>1, <1>2, <2>1 DEF Sound, NodeSound, ThisLive, Leaving, GivenUp, Fresh, Awaiting, At,
       Call, Me
  <2>4. ClaimSound(t)'
    BY <1>1, <1>2, <2>1 DEF Sound, ClaimSound, Awaiting, Claiming, At, Call, Mine, Me
  <2> QED BY <2>2, <2>3, <2>4 DEF Sound
<1>5. ClaimsExclusive' /\ ConditionNodes' /\ Unqueued' /\ Past'
  BY <1>1, <1>2 DEF IInv, ClaimsExclusive, ConditionNodes, Unqueued, Past, Claiming, At, Mine, Me,
     Awaiting, Call
<1>6. th' \in [Threads -> Thread]'
  BY <1>1, <1>2 DEF IInv, Thread
<1> QED BY <1>1, <1>2, <1>3, <1>4, <1>5, <1>6 DEF IInv

\* Every step
LEMMA NextKeeps ==
    ASSUME IInv, [Next]_vars
    PROVE  IInv'
<1>1. CASE UNCHANGED vars
  BY <1>1, StutterKeeps
<1>2. ASSUME program' = program, NEW t \in Threads, Step(t) \/ SpuriousWakeup(t) \/ Interrupt(t)
      PROVE  IInv'
  BY <1>2, StepKeeps
<1> QED BY <1>1, <1>2 DEF Next, Terminated

\* The steps of ConditionObject
LEMMA CondStepKeeps ==
    ASSUME IInv, CondTypes, NEW t \in Threads, CondStep(t)
    PROVE  IInv'
<1>1. program' = program
  BY DEF CondStep
<1>2. CASE AppendAndRelease(t)
  BY <1>1, <1>2, AppendAndReleaseStep
<1>3. CASE TransferAfterCancelledWait(t)
  BY <1>1, <1>3, GiveUpStep
<1>4. CASE DoSignal(t)
  <2>1. firstWaiter \in Nodes /\ th[t].pc = "start"
    BY <1>4 DEF DoSignal, CondTypes, At
  <2>2. transferForSignal(t, firstWaiter, th[t].pc) /\ UNCHANGED <<sync, parking, order>>
    BY <1>4, <2>1 DEF DoSignal
  <2>3. th[t].pc \in {"start", "all"}
    BY <2>1
  <2> QED BY ONLY IInv, CondTypes, <1>1, <2>1, <2>2, <2>3, SignalledStep
<1>5. CASE SignalNext(t)
  <2>1. th[t].q \in Nodes /\ th[t].pc = "all"
    BY <1>5, Locals DEF SignalNext, LocalsSound, Thread, At
  <2>2. transferForSignal(t, th[t].q, th[t].pc) /\ UNCHANGED <<sync, parking, order>>
    BY <1>5, <2>1 DEF SignalNext
  <2>3. th[t].pc \in {"start", "all"}
    BY <2>1
  <2> QED BY ONLY IInv, CondTypes, <1>1, <2>1, <2>2, <2>3, SignalledStep
<1>6. CASE TransferPrev(t) \/ TransferTail(t)
  BY <1>1, <1>6, TransferSteps, AppendSteps
<1>7. CASE AwaitStep(t)
  BY <1>1, <1>2, <1>3, <1>7, AwaitSteps DEF AwaitStep
<1>8. CASE SignalStep(t)
  BY <1>1, <1>4, <1>5, <1>6, <1>8, SignalSteps DEF SignalStep
<1> QED BY <1>7, <1>8 DEF CondStep

\* The types of the condition queue
LEMMA CondStepTypes ==
    ASSUME IInv, CondTypes, NEW t \in Threads, CondStep(t), Nodes' = Nodes
    PROVE  CondTypes'
<1>1. /\ firstWaiter \in Nodes \cup {NULL} /\ lastWaiter \in Nodes \cup {NULL}
      /\ nextWaiter \in [Nodes -> Nodes \cup {NULL}]
  BY DEF CondTypes
<1>2. CASE UNCHANGED condition
  BY <1>1, <1>2 DEF CondTypes, condition
<1>3. CASE UnlinkCancelledWaiters(t) /\ ~UNCHANGED condition
  <2> DEFINE n == th[t].q
             trail == th[t].s
  <2>1. /\ n \in Nodes /\ trail \in Nodes \cup {NULL}
        /\ firstWaiter' = IF trail = NULL THEN nextWaiter[n] ELSE firstWaiter
        /\ nextWaiter' = [x \in Nodes |-> IF x = n THEN NULL
                                          ELSE IF x = trail THEN nextWaiter[n]
                                          ELSE nextWaiter[x]]
        /\ lastWaiter' = IF nextWaiter[n] = NULL THEN trail ELSE lastWaiter
    BY <1>3, Locals, Zenon DEF UnlinkCancelledWaiters, Thread
  <2> QED BY <1>1, <2>1 DEF CondTypes
<1>4. CASE AppendAndRelease(t)
  <2>1. Me(t) \in Nodes
    <3>1. th[t].pc = "append" /\ Call(t).call = "await"
      BY <1>4, Locals DEF AppendAndRelease, LocalsSound, At
    <3> QED BY <3>1, MyNode
  <2> QED BY <1>1, <1>4, <2>1 DEF AppendAndRelease, CondTypes
<1>5. CASE DoSignal(t)
  BY <1>1, <1>5 DEF DoSignal, CondTypes
<1>6. CASE DoSignalAll(t)
  BY <1>1, <1>6 DEF DoSignalAll, CondTypes
<1>7. CASE SignalNext(t)
  BY <1>1, <1>7, Zenon DEF SignalNext, CondTypes
<1>8. CASE AwaitStep(t)
  BY <1>2, <1>3, <1>4, <1>8 DEF AwaitStep, Await, AddConditionWaiter, OnSyncQueue, OnSyncQueuePrev,
     OnSyncQueueNext, FindNodeFromTail, FindNodeScan, CondPark, CheckInterruptWhileWaiting,
     TransferAfterCancelledWait, Reacquired, ReportInterruptAfterWait
<1>9. CASE SignalStep(t)
  BY <1>2, <1>5, <1>6, <1>7, <1>9 DEF SignalStep, SignalNobody, TransferPrev, TransferTail,
     TransferLink,
     TransferWs, TransferSignal, Transferred
<1> QED BY <1>8, <1>9 DEF CondStep

\* Every step, with conditions
LEMMA CondNextKeeps ==
    ASSUME IInv, CondTypes, [CondNext]_condVars
    PROVE  IInv' /\ CondTypes'
<1>1. ASSUME IInv', program' = program PROVE Nodes' = Nodes
  BY <1>1 DEF IInv, NewNodes
<1>2. CASE (Next \/ UNCHANGED vars) /\ UNCHANGED condition
  <2>1. IInv' /\ program' = program
    BY <1>2, NextKeeps DEF Next, vars
  <2> QED BY <1>1, <1>2, <2>1 DEF CondTypes, condition
<1>3. ASSUME NEW t \in Threads, CondStep(t) PROVE IInv' /\ CondTypes'
  <2>1. IInv' /\ program' = program
    BY <1>3, CondStepKeeps DEF CondStep
  <2> QED BY <1>1, <1>3, <2>1, CondStepTypes
<1> QED BY <1>2, <1>3 DEF CondNext, condVars

-----------------------------------------------------------------------------
(* What the invariant implies *)

\* The links behind Chain, one after the other
LEMMA ChainFunction ==
    ASSUME NEW n, NEW K \in Nat, K = Cardinality(Nodes)
    PROVE  \E back : /\ \A k \in 0 .. K :
                           back[k] = IF k = 0 THEN n
                                     ELSE IF back[k - 1] = NULL THEN NULL
                                          ELSE node[back[k - 1]].prev
                     /\ Chain(n) = {back[k] : k \in 0 .. K} \ {NULL}
<1> DEFINE Back(g, k) == IF k = 0 THEN n
                         ELSE IF g[k - 1] = NULL THEN NULL ELSE node[g[k - 1]].prev
           Is(g, m) == g = [k \in 0 .. m |-> Back(g, k)]
           P == {m \in Nat : \E g : Is(g, m)}
<1>1. 0 \in P
  <2>1. Is([k \in 0 .. 0 |-> n], 0)
    OBVIOUS
  <2> QED BY <2>1, Zenon
<1>2. ASSUME NEW m \in Nat, m \in P PROVE m + 1 \in P
  <2>1. PICK g : Is(g, m)
    BY <1>2
  <2> DEFINE h == [k \in 0 .. m + 1 |-> IF k = m + 1 THEN Back(g, m + 1) ELSE g[k]]
  <2>2. ASSUME NEW k \in 0 .. m + 1 PROVE h[k] = Back(h, k)
    <3>1. CASE k = m + 1
      <4>1. h[k] = Back(g, m + 1) /\ h[m] = g[m] /\ k - 1 = m
        BY <3>1
      <4> QED BY <3>1, <4>1
    <3>2. CASE k \in 0 .. m
      <4>1. h[k] = g[k] /\ g[k] = Back(g, k)
        BY <2>1, <3>2
      <4>2. k # 0 => h[k - 1] = g[k - 1]
        BY <3>2
      <4> QED BY <4>1, <4>2
    <3> QED BY <3>1, <3>2
  <2>3. Is(h, m + 1)
    BY <2>2
  <2> HIDE DEF h
  <2>4. \E k : Is(k, m + 1)
    BY <2>3
  <2> QED BY <2>4
<1>3. P = Nat
  <2> HIDE DEF P
  <2> QED BY <1>1, <1>2, AllNumbers, Zenon DEF P
<1>4. \E g : Is(g, K)
  BY <1>3
<1> DEFINE back == CHOOSE g : Is(g, K)
<1>5. Is(back, K)
  BY <1>4, Zenon
<1>6. Chain(n) = {back[k] : k \in 0 .. K} \ {NULL}
  BY DEF Chain
<1> HIDE DEF back
<1>7. \A k \in 0 .. K : back[k] = Back(back, k)
  BY <1>5
<1> QED BY <1>6, <1>7

\* The queue has no more nodes than there are.
LEMMA QueueFits ==
    ASSUME IInv
    PROVE  /\ Cardinality(Nodes) \in Nat
           /\ \A n \in Queued(order) : Place(order, n) \in 0 .. Cardinality(Nodes)
<1>1. /\ IsFiniteSet(Nodes) /\ order \in Seq(Nodes \ {Dummy}) /\ IsInjective(order)
  BY NodesAre DEF IInv, Shape
<1> DEFINE N == Nodes
           S == Nodes \ {Dummy}
<1>2. /\ Len(order) \in Nat /\ order \in [1 .. Len(order) -> N]
      /\ \A i, j \in 1 .. Len(order) : order[i] = order[j] => i = j
      /\ \A n \in Queued(order) : Place(order, n) \in 0 .. Len(order)
  <2>1. order \in Seq(S) /\ Dummy \notin S
    BY <1>1
  <2> HIDE DEF S
  <2>2. /\ Len(order) \in Nat /\ order \in [1 .. Len(order) -> S]
        /\ \A i, j \in 1 .. Len(order) : order[i] = order[j] => i = j
        /\ \A n \in Queued(order) : Place(order, n) \in 0 .. Len(order)
    BY <1>1, <2>1, Elements, Places, LenProperties
  <2>3. S \subseteq N
    BY DEF S
  <2> HIDE DEF N
  <2> QED BY <2>2, <2>3
<1>3. order \in Injection(1 .. Len(order), N)
  <2> HIDE DEF N
  <2> DEFINE D == 1 .. Len(order)
  <2>1. order \in [D -> N] /\ \A i, j \in D : order[i] = order[j] => i = j
    BY <1>2
  <2> HIDE DEF D
  <2>2. order \in Injection(D, N)
    BY <2>1 DEF Injection, IsInjective
  <2> QED BY <2>2 DEF D
<1>4. Cardinality(N) \in Nat
  BY <1>1, FS_CardinalityType
<1>5. Cardinality(1 .. Len(order)) <= Cardinality(N)
  <2> HIDE DEF N
  <2>1. IsFiniteSet(N)
    BY <1>1 DEF N
  <2> QED BY <1>3, <2>1, FS_Injection
<1>6. Cardinality(1 .. Len(order)) = Len(order)
  BY <1>2, FS_Interval
<1> QED BY <1>2, <1>4, <1>5, <1>6

\* Going back from x one gets to every node m between head and x that is not cancelled.
LEMMA LeadsBack ==
    ASSUME IInv, tail # NULL, NEW x \in Queued(order), NEW m \in Queued(order),
           m \notin CancelledNodes,
           Place(order, head) <= Place(order, m), Place(order, m) <= Place(order, x)
    PROVE  m \in Chain(x)
<1> DEFINE K == Cardinality(Nodes)
           pl(n) == Place(order, n)
           Q == Queued(order)
<1>1. /\ K \in Nat /\ \A n \in Q : pl(n) \in 0 .. K /\ n \in Nodes /\ n # NULL
  BY QueueFits, NodeForm
<1>2. PICK back : /\ \A k \in 0 .. K : back[k] = IF k = 0 THEN x
                                                 ELSE IF back[k - 1] = NULL THEN NULL
                                                      ELSE node[back[k - 1]].prev
                  /\ Chain(x) = {back[k] : k \in 0 .. K} \ {NULL}
  BY <1>1, ChainFunction
<1>3. /\ head \in Q /\ \A n \in Q, n2 \in Q : pl(n) = pl(n2) => n = n2
      /\ pl(Dummy) = 0
  <2> DEFINE S == Nodes \ {Dummy}
  <2>1. order \in Seq(S) /\ Dummy \notin S /\ IsInjective(order) /\ head \in Q
    BY DEF IInv, Shape
  <2> HIDE DEF S
  <2> QED BY <2>1, Places
<1>4. ASSUME NEW y \in Q, pl(m) < pl(y)
      PROVE  node[y].prev \in Q /\ pl(node[y].prev) < pl(y) /\ pl(m) <= pl(node[y].prev)
  <2>1. y \in Range(order) /\ y \in Nodes /\ pl(head) < pl(y)
    <3>1. pl(y) \in 0 .. K /\ pl(m) \in 0 .. K /\ pl(head) \in 0 .. K
      BY <1>1, <1>3
    <3>2. y # Dummy
      BY <1>3, <1>4, <3>1
    <3> QED BY <1>1, <1>4, <3>1, <3>2 DEF Queued
  <2>2. Bypasses(order, Prev, CancelledNodes, y) /\ Prev[y] = node[y].prev
    BY <2>1 DEF IInv, Shape, Prev
  <2> DEFINE p == node[y].prev
  <2>3. /\ p \in Q /\ pl(p) < pl(y)
        /\ \A z \in Range(order) : pl(p) < pl(z) /\ pl(z) < pl(y) => z \in CancelledNodes
    BY <2>2 DEF Bypasses
  <2>4. pl(m) <= pl(p)
    <3>1. pl(m) \in 0 .. K /\ pl(p) \in 0 .. K
      BY <1>1, <2>3
    <3>2. SUFFICES ASSUME pl(p) < pl(m) PROVE FALSE
      BY <3>1
    <3>3. m # Dummy
      BY <1>3, <3>1, <3>2
    <3> QED BY <1>4, <2>3, <3>2, <3>3 DEF Queued
  <2> QED BY <2>3, <2>4
<1> HIDE DEF pl, Q
<1> DEFINE Met(k) == \E j \in 0 .. k : back[j] = m
           OnTheWay(k) == back[k] \in Q /\ pl(m) < pl(back[k]) /\ pl(back[k]) + k <= pl(x)
           P == {k \in Nat : k <= K => Met(k) \/ OnTheWay(k)}
<1>5. 0 \in P
  <2>1. back[0] = x /\ pl(x) \in 0 .. K /\ pl(m) \in 0 .. K /\ x \in Q
    BY <1>1, <1>2 DEF Q
  <2>2. pl(m) <= pl(x) /\ (pl(m) = pl(x) => x = m)
    BY <1>3, <2>1 DEF pl, Q
  <2> QED BY <2>1, <2>2
<1>6. ASSUME NEW k \in Nat, k \in P, k + 1 <= K PROVE Met(k + 1) \/ OnTheWay(k + 1)
  <2>1. CASE Met(k)
    <3>1. PICK j \in 0 .. k : back[j] = m
      BY <2>1
    <3>2. j \in 0 .. k + 1
      OBVIOUS
    <3> QED BY <3>1, <3>2
  <2>2. CASE OnTheWay(k)
    <3> DEFINE y == back[k]
               p == back[k + 1]
    <3>1. y \in Q /\ pl(m) < pl(y) /\ pl(y) + k <= pl(x) /\ y # NULL
      BY <1>1, <2>2 DEF Q
    <3>2. p = node[y].prev
      <4>1. k + 1 \in 0 .. K /\ k + 1 # 0 /\ (k + 1) - 1 = k
        BY <1>1, <1>6
      <4> QED BY <1>2, <3>1, <4>1
    <3>3. p \in Q /\ pl(p) < pl(y) /\ pl(m) <= pl(p)
      BY <1>4, <3>1, <3>2
    <3>4. pl(p) \in Nat /\ pl(y) \in Nat /\ pl(m) \in Nat /\ pl(x) \in Nat /\ m \in Q
      BY <1>1, <3>1, <3>3 DEF Q, pl
    <3>5. CASE pl(p) = pl(m)
      <4>1. p = m /\ k + 1 \in 0 .. k + 1
        BY <1>3, <3>3, <3>4, <3>5
      <4> QED BY <4>1
    <3>6. CASE pl(p) # pl(m)
      <4>1. pl(m) < pl(p) /\ pl(p) + (k + 1) <= pl(x)
        BY <3>1, <3>3, <3>4, <3>6
      <4> QED BY <3>3, <4>1
    <3> QED BY <3>5, <3>6
  <2>3. Met(k) \/ OnTheWay(k)
    <3>1. k <= K
      BY <1>1, <1>6
    <3> QED BY <1>6, <3>1
  <2> QED BY <2>1, <2>2, <2>3
<1>7. P = Nat
  <2>1. \A k \in Nat : k \in P => k + 1 \in P
    BY <1>6
  <2>2. P \in SUBSET Nat
    OBVIOUS
  <2> HIDE DEF P
  <2> QED BY <1>5, <2>1, <2>2, AllNumbers
<1>8. Met(K) \/ OnTheWay(K)
  BY <1>1, <1>7
<1>9. ~OnTheWay(K)
  <2> SUFFICES ASSUME OnTheWay(K) PROVE FALSE
    OBVIOUS
  <2>1. pl(back[K]) \in 0 .. K /\ pl(m) \in 0 .. K /\ pl(x) \in 0 .. K
    BY <1>1 DEF Q, pl
  <2>2. pl(m) < pl(back[K]) /\ pl(back[K]) + K <= pl(x)
    OBVIOUS
  <2> QED BY <1>1, <2>1, <2>2
<1>10. PICK j \in 0 .. K : back[j] = m
  BY <1>8, <1>9
<1>11. m # NULL
  BY <1>1 DEF Q
<1> QED BY <1>2, <1>10, <1>11

\* A waiting node is neither cancelled nor has it become head.
LEMMA WaitingAreLive ==
    ASSUME IInv, NEW n \in Waiting
    PROVE  n \in Range(order) /\ ThisLive(n)
<1>1. /\ n \in {order[i] : i \in DOMAIN order}
      /\ th[n[1]].i = n[2]
      /\ th[n[1]].pc \in LivePcs \cup AwaitPcs
  BY DEF Waiting, LivePcs, FirstPcs, AwaitPcs
<1>2. n \in Range(order)
  BY <1>1 DEF Range
<1>3. n[1] \in Threads /\ n = <<n[1], n[2]>>
  BY <1>2, NodeForm
<1>4. n = Me(n[1])
  BY <1>1, <1>3 DEF Me
<1>5. NodeSound(n[1])
  BY <1>3 DEF IInv, Sound
<1> QED BY <1>1, <1>2, <1>4, <1>5 DEF NodeSound, Awaiting

\* The queue can be scanned from the tail.
LEMMA InvIntact ==
    ASSUME IInv
    PROVE  QueueIntact
<1> DEFINE S == Nodes \ {Dummy}
           pl(n) == Place(order, n)
<1>1. /\ order \in Seq(S) /\ Dummy \notin S /\ NULL \notin S
      /\ Shape(order, head, tail, Prev, CancelledNodes) /\ IsInjective(order)
  BY NodeForm DEF IInv, Shape
<1>2. /\ Len(order) \in Nat /\ pl(Dummy) = 0
      /\ \A n \in Queued(order) : pl(n) \in 0 .. Len(order)
      /\ \A n \in Range(order) : n \in Queued(order)
  <2> HIDE DEF S
  <2> QED BY <1>1, Places DEF Queued
<1>3. ASSUME tail # NULL
      PROVE  /\ tail \in Queued(order) /\ head \in Queued(order) /\ head \notin CancelledNodes
             /\ \A n \in Queued(order) : n \notin CancelledNodes => pl(n) <= pl(tail)
  <2>1. tail \in Queued(order) /\ head \in Queued(order) /\ head \notin CancelledNodes
    BY <1>1, <1>3 DEF Shape
  <2>2. ASSUME NEW n \in Queued(order), n \notin CancelledNodes PROVE pl(n) <= pl(tail)
    <3>1. pl(n) \in 0 .. Len(order) /\ pl(tail) \in 0 .. Len(order)
      BY <1>2, <2>1
    <3>2. CASE n = Dummy
      BY <1>2, <3>1, <3>2
    <3>3. CASE n \in Range(order)
      <4>1. ~(pl(tail) < pl(n))
        BY <1>1, <2>2, <3>3 DEF Shape
      <4> QED BY <1>2, <3>1, <4>1
    <3> QED BY <3>2, <3>3 DEF Queued
  <2> QED BY <2>1, <2>2
<1>4. ASSUME tail # NULL PROVE head \in Chain(tail)
  <2>1. pl(head) <= pl(head)
    BY <1>2, <1>3, <1>4
  <2> QED BY <1>3, <1>4, <2>1, LeadsBack
<1>5. ASSUME NEW n \in Waiting PROVE n \in Chain(tail) /\ head \in Chain(node[n].prev)
  <2>1. n \in Range(order) /\ ThisLive(n)
    BY <1>5, WaitingAreLive
  <2>2. n \notin CancelledNodes /\ pl(head) < pl(n) /\ n \in Queued(order)
    BY <1>2, <2>1 DEF ThisLive, Live
  <2>3. /\ tail # NULL /\ Prev[n] \in Queued(order) /\ pl(head) <= pl(Prev[n])
    <3> HIDE DEF S
    <3> QED BY <1>1, <2>1, <2>2, WayBack DEF ThisLive
  <2>4. Prev[n] = node[n].prev
    BY <2>2, NodeForm DEF Prev
  <2>5. pl(head) <= pl(n)
    BY <1>2, <1>3, <2>2, <2>3
  <2>6. n \in Chain(tail)
    BY <1>3, <2>2, <2>3, <2>5, LeadsBack
  <2>7. head \in Chain(node[n].prev)
    <3>1. pl(head) <= pl(head)
      BY <1>2, <1>3, <2>3
    <3> QED BY <1>3, <2>3, <2>4, <3>1, LeadsBack
  <2> QED BY <2>6, <2>7
<1> QED BY <1>4, <1>5 DEF QueueIntact

\* Nobody is overtaken.
LEMMA InvFIFO ==
    ASSUME IInv
    PROVE  FIFO
<1> DEFINE S == Nodes \ {Dummy}
<1> SUFFICES ASSUME NEW i \in DOMAIN order, NEW j \in DOMAIN order, i < j, order[j] = head,
                    order[i] \in Waiting
             PROVE  FALSE
  BY DEF FIFO
<1>1. order \in Seq(S) /\ Dummy \notin S /\ IsInjective(order)
  BY DEF IInv, Shape
<1>2. i \in 1 .. Len(order) /\ j \in 1 .. Len(order)
  BY <1>1, LenProperties
<1>3. Place(order, order[i]) = i /\ Place(order, head) = j
  <2> HIDE DEF S
  <2> QED BY <1>1, <1>2, Places
<1>4. Place(order, head) < Place(order, order[i])
  BY WaitingAreLive DEF ThisLive, Live
<1>5. i \in Int /\ j \in Int
  BY <1>2
<1> QED BY <1>3, <1>4, <1>5

\* The head is not cancelled.
LEMMA InvHead ==
    ASSUME IInv
    PROVE  HeadNeverCancelled
BY DEF IInv, Shape, TypeOK, HeadNeverCancelled, CancelledNodes

-----------------------------------------------------------------------------
(* The theorems *)

\* The invariant holds in every state of the plain acquiring and releasing methods.
LEMMA Invariance == Spec => []IInv
<1>1. Init => IInv
  BY InitSound
<1>2. IInv /\ [Next]_vars => IInv'
  BY NextKeeps
<1> QED BY <1>1, <1>2, PTL DEF Spec

\* It also holds when threads use a condition.
LEMMA CondInvariance == CondSpec => [](IInv /\ CondTypes)
<1>1. Init /\ CondInit => IInv /\ CondTypes
  <2> SUFFICES ASSUME Init, CondInit PROVE IInv /\ CondTypes
    OBVIOUS
  <2>1. IInv
    BY InitSound
  <2> QED BY <2>1 DEF CondInit, CondTypes
<1>2. IInv /\ CondTypes /\ [CondNext]_condVars => IInv' /\ CondTypes'
  BY CondNextKeeps
<1> QED BY <1>1, <1>2, PTL DEF CondSpec

\* "We can scan prev's from the tail": the fields have their types, the prev links lead from the
\* tail to every waiting node and on to the head, and the head is never cancelled, whatever
\* acquires, cancellations and releases are under way.
THEOREM QueueSoundAlways == Spec => []QueueSound
<1>1. IInv => QueueSound
  BY InvIntact, InvHead DEF IInv, QueueSound
<1> QED BY <1>1, Invariance, PTL

\* Nobody overtakes a waiting node: acquireQueued hands the head on in the order of enq.
THEOREM FIFOAlways == Spec => []FIFO
<1>1. IInv => FIFO
  BY InvFIFO
<1> QED BY <1>1, Invariance, PTL

\* Neither signals that transfer nodes nor waiters that give up break the queue.
THEOREM CondQueueSoundAlways == CondSpec => []QueueSound
<1>1. IInv => QueueSound
  BY InvIntact, InvHead DEF IInv, QueueSound
<1> QED BY <1>1, CondInvariance, PTL

\* Nor do they let one node overtake another.
THEOREM CondFIFOAlways == CondSpec => []FIFO
<1>1. IInv => FIFO
  BY InvFIFO
<1> QED BY <1>1, CondInvariance, PTL

=============================================================================
