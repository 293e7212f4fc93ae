------------------------ MODULE LockFreeStackProofs ------------------------
(***************************************************************************)
(* Proofs about the lock-free stack, for any number of threads, nodes and  *)
(* tags and any pushes.                                                    *)
(***************************************************************************)
EXTENDS LockFreeStack, ListsProofs, FiniteSetTheorems

\* The links nx lead from each node of s to the next one, and from the last one to q
Path(nx, s, q) == \A i \in 1 .. Len(s) : nx[s[i]] = IF i = Len(s) THEN q ELSE s[i + 1]

\* Where a link to the nodes of s points, when q follows them
First(s, q) == IF s = <<>> THEN q ELSE s[1]

\* Both lists are intact.
ChainsSound ==
    \A L \in Lists : /\ IsInjective(chain[L])
                     /\ top[L].ptr = First(chain[L], NULL)
                     /\ Path(next, chain[L], NULL)

\* Every node is at one place.
Placed(free, listed, owned) ==
    /\ \A n \in Nodes : \/ n \in free
                        \/ \E L \in Lists : n \in listed[L]
                        \/ \E t \in Threads : n \in owned[t]
    /\ \A L \in Lists : listed[L] \cap free = {}
    /\ listed["tos"] \cap listed["pool"] = {}
    /\ \A t \in Threads : /\ owned[t] \cap free = {}
                          /\ \A L \in Lists : owned[t] \cap listed[L] = {}
                          /\ \A u \in Threads : u # t => owned[t] \cap owned[u] = {}

NodesPlaced == Placed(fresh, [L \in Lists |-> ToSet(chain[L])], [t \in Threads |-> ToSet(own[t])])

\* What a thread does depends on the operation it is in.
CallSound(t) ==
    /\ pc[t] \in {"alloc_load", "alloc_next", "alloc_cas", "construct"} =>
          call[t].kind \in {"push", "range"} /\ call[t].done < Len(call[t].arg)
    /\ pc[t] \in {"link_load", "link_next", "link_cas"} => call[t].kind \in {"push", "range"}
    /\ pc[t] \in {"pop_load", "pop_next", "pop_cas", "consume"} => call[t].kind \in {"pop", "all"}
    /\ pc[t] = "unwind" => call[t].kind = "range"
    /\ pc[t] \in Freeing => call[t].kind \in {"range", "pop", "all"}
    /\ call[t].kind = "push" => Len(call[t].arg) = 1

\* How the nodes in the hands of one thread are linked, at every point of its loops
OwnSound(t) ==
    /\ IsInjective(own[t])
    /\ pc[t] \in Idle \cup {"pop_load", "pop_next", "pop_cas"} => own[t] = <<>>
    /\ pc[t] \in {"alloc_load", "alloc_next", "alloc_cas"} =>
          /\ Path(next, own[t], NULL)
          /\ call[t].kind = "push" => own[t] = <<>>
    /\ pc[t] \in {"construct", "unwind", "consume"} \cup Freeing =>
          /\ own[t] # <<>> /\ cur[t] = own[t][1]
          /\ Path(next, Tail(own[t]), NULL)
          /\ call[t].kind \in {"push", "pop"} => Tail(own[t]) = <<>>
    /\ pc[t] = "unwind" \/ (pc[t] = "consume" /\ call[t].kind = "all") =>
          next[cur[t]] = First(Tail(own[t]), NULL)
    /\ pc[t] \in Freeing => nxt[t] = First(Tail(own[t]), NULL)
    /\ pc[t] = "free_cas" => next[cur[t]] = old[t].ptr
    /\ pc[t] \in {"link_load", "link_next", "link_cas"} =>
          own[t] # <<>> /\ \E q \in Nodes \cup {NULL} : Path(next, own[t], q)
    /\ pc[t] = "link_cas" => Path(next, own[t], old[t].ptr)

\* The number of removals that take a head from tag a to tag b
Ahead(a, b) == IF a <= b THEN b - a ELSE b + TagMod - a

\* A thread that is going to remove knows how old its copy of the head is, by the tag; while
\* nothing was removed since, the node it names is still in the list, and the link that was
\* read from it still right.
CopySound(t) ==
    pc[t] \in Removing =>
       LET L == ListOf(pc[t])
       IN  /\ age[t] = Ahead(old[t].tag, top[L].tag)
           /\ pc[t] \in {"alloc_cas", "pop_cas"} => old[t].ptr # NULL
           /\ age[t] = 0 /\ old[t].ptr # NULL =>
                 /\ old[t].ptr \in ToSet(chain[L])
                 /\ pc[t] \in {"alloc_cas", "pop_cas"} =>
                       nxt[t] = IF call[t].kind = "all" THEN NULL ELSE next[old[t].ptr]

IInv ==
    /\ TypeOK
    /\ ChainsSound
    /\ NodesPlaced
    /\ \A t \in Threads : CallSound(t) /\ OwnSound(t) /\ CopySound(t)

----------------------------------------------------------------------------
(* Paths *)

\* A path stays when the links of its nodes stay.
LEMMA PathKept ==
    ASSUME NEW S, NEW s \in Seq(S), NEW nx, NEW ny, NEW q,
           Path(nx, s, q), \A x \in ToSet(s) : ny[x] = nx[x]
    PROVE  Path(ny, s, q)
<1>1. \A i \in 1 .. Len(s) : s[i] \in ToSet(s)
  BY Elements
<1> QED
  BY <1>1 DEF Path

\* The path of nodes s goes on with the path of nodes t.
LEMMA PathConcat ==
    ASSUME NEW S, NEW s \in Seq(S), NEW t \in Seq(S), NEW nx, NEW q,
           Path(nx, s, First(t, q)), Path(nx, t, q)
    PROVE  Path(nx, s \o t, q) /\ First(s \o t, q) = First(s, First(t, q))
<1>1. /\ Len(s) \in Nat /\ Len(t) \in Nat /\ s \o t \in Seq(S) /\ Len(s \o t) = Len(s) + Len(t)
      /\ \A i \in 1 .. Len(s) + Len(t) : (s \o t)[i] = IF i <= Len(s) THEN s[i] ELSE t[i - Len(s)]
      /\ (s = <<>> <=> Len(s) = 0) /\ (t = <<>> <=> Len(t) = 0)
  BY LenProperties, ConcatProperties, EmptySeq
<1> DEFINE r == s \o t
<1>2. r \in Seq(S) /\ (r = <<>> <=> Len(r) = 0)
  BY <1>1, EmptySeq
<1>3. /\ Len(r) = Len(s) + Len(t)
      /\ \A i \in 1 .. Len(s) + Len(t) : r[i] = IF i <= Len(s) THEN s[i] ELSE t[i - Len(s)]
  BY <1>1
<1> HIDE DEF r
<1>4. ASSUME NEW i \in 1 .. Len(r) PROVE nx[r[i]] = IF i = Len(r) THEN q ELSE r[i + 1]
  <2>1. CASE i < Len(s)
    <3>1. r[i] = s[i] /\ r[i + 1] = s[i + 1] /\ i \in 1 .. Len(s) /\ i # Len(s) /\ i # Len(r)
      BY <1>1, <1>3, <2>1
    <3> QED
      BY <3>1 DEF Path
  <2>2. CASE i = Len(s)
    <3>1. r[i] = s[i] /\ nx[s[i]] = First(t, q)
      BY <1>1, <1>3, <2>2 DEF Path
    <3>2. CASE t = <<>>
      BY <1>1, <1>3, <2>2, <3>1, <3>2 DEF First
    <3>3. CASE t # <<>>
      <4>1. i # Len(r) /\ r[i + 1] = t[1]
        BY <1>1, <1>3, <2>2, <3>3
      <4> QED
        BY <3>1, <3>3, <4>1 DEF First
    <3> QED
      BY <3>2, <3>3
  <2>3. CASE i > Len(s)
    <3> DEFINE j == i - Len(s)
    <3>1. j \in 1 .. Len(t) /\ r[i] = t[j]
      BY <1>1, <1>3, <2>3
    <3>2. nx[t[j]] = IF j = Len(t) THEN q ELSE t[j + 1]
      BY <3>1 DEF Path
    <3>3. i # Len(r) => r[i + 1] = t[j + 1]
      BY <1>1, <1>3, <2>3
    <3>4. i = Len(r) <=> j = Len(t)
      BY <1>1, <1>3
    <3> QED
      BY <3>1, <3>2, <3>3, <3>4
  <2> QED
    BY <1>1, <1>3, <2>1, <2>2, <2>3
<1>5. Path(nx, r, q)
  BY <1>4 DEF Path
<1>6. First(r, q) = First(s, First(t, q))
  BY <1>1, <1>2, <1>3 DEF First
<1> QED
  BY <1>5, <1>6 DEF r

\* One node in front of a path
LEMMA PathPush ==
    ASSUME NEW S, NEW x \in S, NEW t \in Seq(S), NEW nx, NEW q,
           nx[x] = First(t, q), Path(nx, t, q)
    PROVE  Path(nx, <<x>> \o t, q) /\ First(<<x>> \o t, q) = x
<1> DEFINE s == <<x>>
<1>1. s \in Seq(S) /\ Len(s) = 1 /\ s[1] = x /\ s # <<>>
  OBVIOUS
<1> HIDE DEF s
<1>2. Path(nx, s, First(t, q))
  BY <1>1 DEF Path
<1>3. Path(nx, s \o t, q) /\ First(s \o t, q) = First(s, First(t, q))
  BY <1>1, <1>2, PathConcat
<1>4. First(s, First(t, q)) = x
  BY <1>1 DEF First
<1> QED
  BY <1>3, <1>4 DEF s

\* The rest of a path
LEMMA PathTail ==
    ASSUME NEW S, NEW s \in Seq(S), s # <<>>, NEW nx, NEW q, Path(nx, s, q)
    PROVE  Path(nx, Tail(s), q) /\ nx[s[1]] = First(Tail(s), q)
<1> DEFINE t == Tail(s)
<1>1. /\ Len(s) \in Nat \ {0} /\ t \in Seq(S) /\ Len(t) = Len(s) - 1
      /\ \A i \in 1 .. Len(t) : t[i] = s[i + 1]
      /\ t = <<>> <=> Len(t) = 0
  BY HeadTailProperties, EmptySeq, LenProperties
<1> HIDE DEF t
<1>2. Path(nx, t, q)
  <2> SUFFICES ASSUME NEW i \in 1 .. Len(t) PROVE nx[t[i]] = IF i = Len(t) THEN q ELSE t[i + 1]
    BY DEF Path
  <2>1. t[i] = s[i + 1] /\ i + 1 \in 1 .. Len(s) /\ (i + 1 = Len(s) <=> i = Len(t))
    BY <1>1
  <2>2. i # Len(t) => t[i + 1] = s[i + 2]
    BY <1>1
  <2>3. nx[s[i + 1]] = IF i + 1 = Len(s) THEN q ELSE s[i + 2]
    BY <2>1 DEF Path
  <2> QED
    BY <2>1, <2>2, <2>3
<1>3. nx[s[1]] = First(t, q)
  BY <1>1 DEF Path, First
<1> QED
  BY <1>2, <1>3 DEF t

\* The last node of a path is linked to something else.
LEMMA PathRelink ==
    ASSUME NEW S, NEW s \in Seq(S), s # <<>>, IsInjective(s), NEW T, NEW nx \in [S -> T], NEW p,
           NEW q, Path(nx, s, p)
    PROVE  Path([nx EXCEPT ![s[Len(s)]] = q], s, q)
<1>1. Len(s) \in Nat \ {0} /\ \A i \in 1 .. Len(s) : s[i] \in S
  BY LenProperties, EmptySeq
<1>2. \A i, j \in 1 .. Len(s) : s[i] = s[j] => i = j
  BY Elements
<1> QED
  BY <1>1, <1>2 DEF Path

----------------------------------------------------------------------------
(* Tags and places *)

\* One more removal makes a copy of the head one older: with fewer than TagMod removals since
\* the read, two equal tags mean that there was none.
LEMMA AheadNext ==
    ASSUME NEW h \in Handle, NEW a \in 0 .. (TagMod - 1), Ahead(a, h.tag) + 1 < TagMod
    PROVE  Ahead(a, get_next_tag(h)) = Ahead(a, h.tag) + 1
<1>1. TagMod \in Nat \ {0} /\ h.tag \in 0 .. (TagMod - 1)
  BY StackAssumption DEF Handle
<1> QED
  BY <1>1 DEF Ahead, get_next_tag

\* A node leaves the allocator.
LEMMA PlacedFromFresh ==
    ASSUME NEW F, NEW C, NEW O \in [Threads -> SUBSET Nodes], Placed(F, C, O),
           NEW n \in F, NEW t \in Threads
    PROVE  Placed(F \ {n}, C, [O EXCEPT ![t] = @ \cup {n}])
<1> DEFINE P == [O EXCEPT ![t] = @ \cup {n}]
<1>1. P[t] = O[t] \cup {n} /\ \A u \in Threads : u # t => P[u] = O[u]
  OBVIOUS
<1>2. \A u \in Threads : O[u] \subseteq P[u] /\ P[u] \subseteq O[u] \cup {n}
  BY <1>1
<1> HIDE DEF P
<1>3. /\ \A L \in Lists : C[L] \cap (F \ {n}) = {} /\ n \notin C[L]
      /\ \A u \in Threads : n \notin O[u]
  BY DEF Placed
<1>4. \A m \in Nodes : \/ m \in F \ {n}
                       \/ \E L \in Lists : m \in C[L]
                       \/ \E u \in Threads : m \in P[u]
  <2> SUFFICES ASSUME NEW m \in Nodes, m \notin F \ {n}, \A L \in Lists : m \notin C[L]
               PROVE  \E u \in Threads : m \in P[u]
    OBVIOUS
  <2>1. CASE m = n
    BY <1>1, <2>1
  <2>2. CASE m # n
    <3>1. PICK u \in Threads : m \in O[u]
      BY <2>2 DEF Placed
    <3> QED
      BY <3>1, <1>2
  <2> QED
    BY <2>1, <2>2
<1>5. ASSUME NEW u \in Threads, NEW v \in Threads, v # u PROVE P[u] \cap P[v] = {}
  <2>1. O[u] \cap O[v] = {}
    BY <1>5 DEF Placed
  <2> QED
    BY <1>1, <1>3, <2>1, <1>5
<1>6. \A u \in Threads : /\ P[u] \cap (F \ {n}) = {}
                         /\ \A L \in Lists : P[u] \cap C[L] = {}
  <2> TAKE u \in Threads
  <2>1. O[u] \cap F = {} /\ \A L \in Lists : O[u] \cap C[L] = {}
    BY DEF Placed
  <2> QED
    BY <1>2, <1>3, <2>1
<1>7. C["tos"] \cap C["pool"] = {}
  BY DEF Placed
<1> QED
  BY <1>3, <1>4, <1>5, <1>6, <1>7 DEF Placed, P

\* Nodes X leave a list: a thread has them now.
LEMMA PlacedFromList ==
    ASSUME NEW F, NEW C \in [Lists -> SUBSET Nodes], NEW O \in [Threads -> SUBSET Nodes],
           Placed(F, C, O), NEW K \in Lists, NEW t \in Threads, NEW X \in SUBSET C[K]
    PROVE  Placed(F, [C EXCEPT ![K] = @ \ X], [O EXCEPT ![t] = @ \cup X])
<1> DEFINE P == [O EXCEPT ![t] = @ \cup X]
           D == [C EXCEPT ![K] = @ \ X]
<1>1. P[t] = O[t] \cup X /\ \A u \in Threads : u # t => P[u] = O[u]
  OBVIOUS
<1>2. D[K] = C[K] \ X /\ \A L \in Lists : L # K => D[L] = C[L]
  OBVIOUS
<1> HIDE DEF P, D
<1>3. /\ X \cap F = {} /\ \A u \in Threads : O[u] \cap X = {}
      /\ \A L \in Lists : L # K => C[L] \cap X = {}
  BY DEF Placed, Lists
<1>4. \A m \in Nodes : \/ m \in F
                       \/ \E L \in Lists : m \in D[L]
                       \/ \E u \in Threads : m \in P[u]
  <2> SUFFICES ASSUME NEW m \in Nodes, m \notin F, m \notin X
               PROVE  \/ \E L \in Lists : m \in D[L]
                      \/ \E u \in Threads : m \in P[u]
    BY <1>1
  <2>1. CASE \E L \in Lists : m \in C[L]
    BY <1>2, <2>1
  <2>2. CASE \E u \in Threads : m \in O[u]
    BY <1>1, <2>2
  <2> QED
    BY <2>1, <2>2 DEF Placed
<1>5. ASSUME NEW u \in Threads, NEW v \in Threads, v # u PROVE P[u] \cap P[v] = {}
  <2>1. O[u] \cap O[v] = {} /\ O[u] \cap X = {} /\ O[v] \cap X = {}
    BY <1>3, <1>5 DEF Placed
  <2> QED
    BY <1>1, <2>1, <1>5
<1>6. ASSUME NEW u \in Threads PROVE P[u] \cap F = {} /\ \A L \in Lists : P[u] \cap D[L] = {}
  <2>1. O[u] \cap F = {} /\ \A L \in Lists : O[u] \cap C[L] = {}
    BY DEF Placed
  <2>2. P[u] \cap F = {}
    BY <1>1, <1>3, <2>1
  <2>3. \A L \in Lists : D[L] \subseteq C[L] /\ D[L] \cap X = {}
    BY <1>2, <1>3
  <2> QED
    BY <1>1, <2>1, <2>2, <2>3
<1>7. D["tos"] \cap D["pool"] = {} /\ \A L \in Lists : D[L] \cap F = {}
  BY <1>2 DEF Placed, Lists
<1> QED
  BY <1>4, <1>5, <1>6, <1>7 DEF Placed, P, D

\* A thread puts nodes X of its own in a list.
LEMMA PlacedToList ==
    ASSUME NEW F, NEW C \in [Lists -> SUBSET Nodes], NEW O \in [Threads -> SUBSET Nodes],
           Placed(F, C, O), NEW K \in Lists, NEW t \in Threads, NEW X \in SUBSET O[t]
    PROVE  Placed(F, [C EXCEPT ![K] = @ \cup X], [O EXCEPT ![t] = @ \ X])
<1> DEFINE P == [O EXCEPT ![t] = @ \ X]
           D == [C EXCEPT ![K] = @ \cup X]
<1>1. P[t] = O[t] \ X /\ \A u \in Threads : u # t => P[u] = O[u]
  OBVIOUS
<1>2. D[K] = C[K] \cup X /\ \A L \in Lists : L # K => D[L] = C[L]
  OBVIOUS
<1> HIDE DEF P, D
<1>3. /\ X \cap F = {} /\ \A u \in Threads : u # t => O[u] \cap X = {}
      /\ \A L \in Lists : C[L] \cap X = {}
  BY DEF Placed, Lists
<1>4. \A m \in Nodes : \/ m \in F
                       \/ \E L \in Lists : m \in D[L]
                       \/ \E u \in Threads : m \in P[u]
  <2> SUFFICES ASSUME NEW m \in Nodes, m \notin F, m \notin X
               PROVE  \/ \E L \in Lists : m \in D[L]
                      \/ \E u \in Threads : m \in P[u]
    BY <1>2
  <2>1. CASE \E L \in Lists : m \in C[L]
    BY <1>2, <2>1
  <2>2. CASE \E u \in Threads : m \in O[u]
    BY <1>1, <2>2
  <2> QED
    BY <2>1, <2>2 DEF Placed
<1>5. ASSUME NEW u \in Threads, NEW v \in Threads, v # u PROVE P[u] \cap P[v] = {}
  <2>1. O[u] \cap O[v] = {}
    BY <1>5 DEF Placed
  <2> QED
    BY <1>1, <2>1, <1>5
<1>6. ASSUME NEW u \in Threads PROVE P[u] \cap F = {} /\ \A L \in Lists : P[u] \cap D[L] = {}
  <2>1. O[u] \cap F = {} /\ \A L \in Lists : O[u] \cap C[L] = {}
    BY DEF Placed
  <2>2. P[u] \subseteq O[u] /\ P[u] \cap X = {}
    BY <1>1, <1>3
  <2>3. \A L \in Lists : D[L] \subseteq C[L] \cup X
    BY <1>2
  <2> QED
    BY <2>1, <2>2, <2>3
<1>7. D["tos"] \cap D["pool"] = {} /\ \A L \in Lists : D[L] \cap F = {}
  BY <1>2, <1>3 DEF Placed, Lists
<1> QED
  BY <1>4, <1>5, <1>6, <1>7 DEF Placed, P, D

----------------------------------------------------------------------------
(* What a step leaves alone *)

\* The part of the invariant that is about the other threads' locals is left alone by what a
\* thread does with its own nodes.
LEMMA OthersKeep ==
    ASSUME IInv, NEW t \in Threads, NEW u \in Threads, u # t,
           pc'[u] = pc[u], call'[u] = call[u], own'[u] = own[u], cur'[u] = cur[u],
           nxt'[u] = nxt[u], old'[u] = old[u],
           \A n \in Nodes \ ToSet(own[t]) : next'[n] = next[n]
    PROVE  CallSound(u)' /\ OwnSound(u)'
<1>1. CallSound(u) /\ OwnSound(u)
  BY DEF IInv
<1>2. own[u] \in Seq(Nodes)
  BY DEF IInv, TypeOK
<1>3. ToSet(own[u]) \cap ToSet(own[t]) = {}
  BY DEF IInv, NodesPlaced, Placed
<1>4. \A n \in ToSet(own[u]) : next'[n] = next[n]
  BY <1>2, <1>3, Elements
<1>5. \A q : Path(next, own[u], q) => Path(next', own[u], q)
  <2> TAKE q
  <2> HAVE Path(next, own[u], q)
  <2> QED
    BY <1>2, <1>4, PathKept
<1>6. own[u] # <<>> =>
         /\ \A q : Path(next, Tail(own[u]), q) => Path(next', Tail(own[u]), q)
         /\ own[u][1] \in ToSet(own[u])
  <2> HAVE own[u] # <<>>
  <2>1. Tail(own[u]) \in Seq(Nodes) /\ ToSet(Tail(own[u])) \subseteq ToSet(own[u])
    BY <1>2, PopOne
  <2>2. \A n \in ToSet(Tail(own[u])) : next'[n] = next[n]
    BY <2>1, <1>4
  <2>3. ASSUME NEW q, Path(next, Tail(own[u]), q) PROVE Path(next', Tail(own[u]), q)
    BY <2>1, <2>2, <2>3, PathKept
  <2>4. Len(own[u]) \in Nat /\ Len(own[u]) # 0
    BY <1>2, LenProperties, EmptySeq
  <2>5. own[u][1] \in ToSet(own[u])
    BY <1>2, <2>4, Elements
  <2> QED
    BY <2>3, <2>5
<1>7. CallSound(u)'
  BY <1>1 DEF CallSound
<1>8. OwnSound(u)'
  <2>1. IsInjective(own[u])'
    BY <1>1 DEF OwnSound
  <2>2. (pc[u] \in Idle \cup {"pop_load", "pop_next", "pop_cas"} => own[u] = <<>>)'
    BY <1>1 DEF OwnSound
  <2>3. (pc[u] \in {"alloc_load", "alloc_next", "alloc_cas"} =>
          /\ Path(next, own[u], NULL)
          /\ call[u].kind = "push" => own[u] = <<>>)'
    BY <1>1, <1>5 DEF OwnSound
  <2>4. (pc[u] \in {"construct", "unwind", "consume"} \cup Freeing =>
          /\ own[u] # <<>> /\ cur[u] = own[u][1]
          /\ Path(next, Tail(own[u]), NULL)
          /\ call[u].kind \in {"push", "pop"} => Tail(own[u]) = <<>>)'
    BY <1>1, <1>6 DEF OwnSound
  <2>5. (pc[u] = "unwind" \/ (pc[u] = "consume" /\ call[u].kind = "all") =>
          next[cur[u]] = First(Tail(own[u]), NULL))'
    BY <1>1, <1>4, <1>6 DEF OwnSound
  <2>6. (pc[u] \in Freeing => nxt[u] = First(Tail(own[u]), NULL))'
    BY <1>1 DEF OwnSound
  <2>7. (pc[u] = "free_cas" => next[cur[u]] = old[u].ptr)'
    BY <1>1, <1>4, <1>6 DEF OwnSound, Freeing
  <2>8. (pc[u] \in {"link_load", "link_next", "link_cas"} =>
          own[u] # <<>> /\ \E q \in Nodes \cup {NULL} : Path(next, own[u], q))'
    BY <1>1, <1>5 DEF OwnSound
  <2>9. (pc[u] = "link_cas" => Path(next, own[u], old[u].ptr))'
    BY <1>1, <1>5 DEF OwnSound
  <2> QED
    BY <2>1, <2>2, <2>3, <2>4, <2>5, <2>6, <2>7, <2>8, <2>9 DEF OwnSound
<1> QED
  BY <1>7, <1>8

\* The copy of a head that another thread holds stays sound: the list only grows, or the copy
\* grows older.
LEMMA CopiesKeep ==
    ASSUME IInv, TypeOK', NEW t \in Threads, NEW u \in Threads, u # t,
           pc'[u] = pc[u], call'[u] = call[u], nxt'[u] = nxt[u], old'[u] = old[u],
           \A n \in Nodes \ ToSet(own[t]) : next'[n] = next[n],
           \/ /\ age'[u] = age[u]
              /\ top'[ListOf(pc[u])].tag = top[ListOf(pc[u])].tag
              /\ ToSet(chain[ListOf(pc[u])]) \subseteq ToSet(chain'[ListOf(pc[u])])
           \/ /\ pc[u] \in Removing => /\ age[u] + 1 < TagMod
                                       /\ age'[u] = age[u] + 1
              /\ top'[ListOf(pc[u])].tag = get_next_tag(top[ListOf(pc[u])])
    PROVE  CopySound(u)'
<1> SUFFICES ASSUME pc[u] \in Removing PROVE CopySound(u)'
  BY DEF CopySound
<1> DEFINE L == ListOf(pc[u])
<1>1. L \in Lists /\ ListOf(pc'[u]) = L
  BY DEF ListOf, Lists
<1>2. chain[L] \in Seq(Nodes) /\ top[L] \in Handle /\ age[u] \in 0 .. (TagMod - 1)
  BY <1>1 DEF IInv, TypeOK
<1>3. ToSet(chain[L]) \cap ToSet(own[t]) = {}
  BY <1>1 DEF IInv, NodesPlaced, Placed
<1>4. \A n \in ToSet(chain[L]) : next'[n] = next[n]
  BY <1>2, <1>3, Elements
<1>5. CopySound(u)
  BY DEF IInv
<1> HIDE DEF L
<1>6. age[u] = Ahead(old[u].tag, top[L].tag) /\ (pc[u] \in {"alloc_cas", "pop_cas"} => old[u].ptr # NULL)
  BY <1>5 DEF CopySound, L
<1>7. age[u] = 0 /\ old[u].ptr # NULL =>
                 /\ old[u].ptr \in ToSet(chain[L])
                 /\ pc[u] \in {"alloc_cas", "pop_cas"} =>
                       nxt[u] = IF call[u].kind = "all" THEN NULL ELSE next[old[u].ptr]
  BY <1>5 DEF CopySound, L
<1>8. CASE /\ age'[u] = age[u]
           /\ top'[L].tag = top[L].tag
           /\ ToSet(chain[L]) \subseteq ToSet(chain'[L])
  <2>1. age'[u] = Ahead(old'[u].tag, top'[L].tag) /\ (pc'[u] \in {"alloc_cas", "pop_cas"} => old'[u].ptr # NULL)
    BY <1>6, <1>8 DEF Ahead
  <2>2. age'[u] = 0 /\ old'[u].ptr # NULL =>
                 /\ old'[u].ptr \in ToSet(chain'[L])
                 /\ pc'[u] \in {"alloc_cas", "pop_cas"} =>
                       nxt'[u] = IF call'[u].kind = "all" THEN NULL ELSE next'[old'[u].ptr]
    BY <1>4, <1>7, <1>8
  <2> QED
    BY <1>1, <2>1, <2>2 DEF CopySound, Ahead
<1>9. CASE /\ age[u] + 1 < TagMod
           /\ age'[u] = age[u] + 1
           /\ top'[L].tag = get_next_tag(top[L])
  <2>1. old[u] \in Handle /\ old[u].tag \in 0 .. (TagMod - 1)
    BY DEF IInv, TypeOK, Handle
  <2>2. Ahead(old[u].tag, get_next_tag(top[L])) = Ahead(old[u].tag, top[L].tag) + 1
    BY <1>2, <1>6, <1>9, <2>1, AheadNext
  <2>3. age'[u] = Ahead(old'[u].tag, top'[L].tag) /\ age'[u] # 0
    BY <1>2, <1>6, <1>9, <2>2 DEF Ahead
  <2> QED
    BY <1>1, <1>6, <2>3 DEF CopySound, Ahead
<1> QED
  BY <1>8, <1>9 DEF L

\* Both lists are intact when nothing but nodes in the hands of a thread was written.
LEMMA ChainsKeep ==
    ASSUME IInv, NEW t \in Threads, top' = top, chain' = chain,
           \A n \in Nodes \ ToSet(own[t]) : next'[n] = next[n]
    PROVE  ChainsSound'
<1> SUFFICES ASSUME NEW L \in Lists PROVE Path(next', chain[L], NULL)
  BY DEF ChainsSound, IInv
<1>1. chain[L] \in Seq(Nodes) /\ Path(next, chain[L], NULL)
  BY DEF IInv, TypeOK, ChainsSound
<1>2. ToSet(chain[L]) \cap ToSet(own[t]) = {}
  BY DEF IInv, NodesPlaced, Placed
<1>3. \A n \in ToSet(chain[L]) : next'[n] = next[n]
  BY <1>1, <1>2, Elements
<1> QED
  BY <1>1, <1>3, PathKept

----------------------------------------------------------------------------
(* Steps that change the locals of a thread and its own nodes *)

\* What a thread knows of its operation
CallType == [kind : {"none", "push", "range", "pop", "all"}, bounded : BOOLEAN,
             arg : Seq(Values), done : Nat, ret : Seq(Values \cup {NULL})]

\* The fields of a call keep their types while it goes on.
LEMMA CallTypes ==
    ASSUME NEW c \in CallType
    PROVE  /\ c.arg \in Seq(Values) /\ c.done \in Nat /\ c.ret \in Seq(Values \cup {NULL})
           /\ [c EXCEPT !.done = 0] \in CallType /\ [c EXCEPT !.done = c.done + 1] \in CallType
           /\ \A v \in Values \cup {NULL} : [c EXCEPT !.ret = Append(c.ret, v)] \in CallType
<1>1. c.arg \in Seq(Values) /\ c.done \in Nat /\ c.ret \in Seq(Values \cup {NULL})
  BY DEF CallType
<1>2. c.done + 1 \in Nat
  BY <1>1
<1>3. \A v \in Values \cup {NULL} : Append(c.ret, v) \in Seq(Values \cup {NULL})
  BY <1>1
<1>4. \A n \in Nat : [c EXCEPT !.done = n] \in CallType
  BY DEF CallType
<1>5. \A r \in Seq(Values \cup {NULL}) : [c EXCEPT !.ret = r] \in CallType
  BY DEF CallType
<1> QED
  BY <1>1, <1>2, <1>3, <1>4, <1>5

\* A call starts with the right types.
LEMMA NewCallTypes ==
    /\ NoCall \in CallType
    /\ \A p \in Pushes : [NoCall EXCEPT !.kind = p.kind, !.bounded = p.bounded, !.arg = p.arg]
                             \in CallType
    /\ \A k \in {"pop", "all"} : [NoCall EXCEPT !.kind = k] \in CallType
<1>1. <<>> \in Seq(Values) /\ <<>> \in Seq(Values \cup {NULL})
  BY EmptySeq
<1>2. NoCall \in CallType
  BY <1>1 DEF NoCall, CallType
<1>3. ASSUME NEW k \in {"push", "range", "pop", "all"}, NEW b \in BOOLEAN, NEW a \in Seq(Values)
      PROVE  [NoCall EXCEPT !.kind = k, !.bounded = b, !.arg = a] \in CallType
  BY <1>2, <1>3 DEF CallType
<1>4. ASSUME NEW k \in {"pop", "all"} PROVE [NoCall EXCEPT !.kind = k] \in CallType
  BY <1>2 DEF CallType
<1>5. ASSUME NEW p \in Pushes
      PROVE p.kind \in {"push", "range"} /\ p.bounded \in BOOLEAN /\ p.arg \in Seq(Values)
  BY StackAssumption
<1> QED
  BY <1>2, <1>3, <1>4, <1>5

\* A step of a thread that touches no shared state except the links of its own nodes, and keeps
\* the invariant for itself
LEMMA LocalStep ==
    ASSUME IInv, TypeOK', NEW t \in Threads, UNCHANGED <<top, fresh, chain, own>>,
           \A n \in Nodes \ ToSet(own[t]) : next'[n] = next[n],
           \A u \in Threads \ {t} :
              /\ pc'[u] = pc[u] /\ call'[u] = call[u] /\ cur'[u] = cur[u] /\ nxt'[u] = nxt[u]
              /\ old'[u] = old[u] /\ age'[u] = age[u],
           CallSound(t)', OwnSound(t)', CopySound(t)'
    PROVE  IInv'
<1>1. ChainsSound'
  BY ChainsKeep
<1>2. NodesPlaced'
  BY DEF IInv, NodesPlaced, Placed
<1>3. ASSUME NEW u \in Threads, u # t PROVE CallSound(u)' /\ OwnSound(u)' /\ CopySound(u)'
  <2>1. /\ pc'[u] = pc[u] /\ call'[u] = call[u] /\ own'[u] = own[u] /\ cur'[u] = cur[u]
        /\ nxt'[u] = nxt[u] /\ old'[u] = old[u] /\ age'[u] = age[u]
        /\ \A n \in Nodes \ ToSet(own[t]) : next'[n] = next[n]
        /\ top'[ListOf(pc[u])].tag = top[ListOf(pc[u])].tag
        /\ ToSet(chain[ListOf(pc[u])]) \subseteq ToSet(chain'[ListOf(pc[u])])
    BY <1>3
  <2>2. CallSound(u)' /\ OwnSound(u)'
    BY <1>3, <2>1, OthersKeep
  <2>3. CopySound(u)'
    BY <1>3, <2>1, CopiesKeep
  <2> QED
    BY <2>2, <2>3
<1> QED
  BY <1>1, <1>2, <1>3 DEF IInv

\* Reading a head copies it.
LEMMA LoadStep ==
    ASSUME IInv, NEW t \in Threads, NEW after \in PC, Load(t, after),
           UNCHANGED <<top, next, val, fresh, call, nxt, cur, chain, own>>,
           ListOf(after) = ListOf(pc[t]), after \notin {"alloc_cas", "pop_cas"}
    PROVE  /\ TypeOK'
           /\ CopySound(t)'
           /\ pc'[t] = after
           /\ \A u \in Threads \ {t} : /\ pc'[u] = pc[u] /\ call'[u] = call[u] /\ cur'[u] = cur[u]
                                       /\ nxt'[u] = nxt[u] /\ old'[u] = old[u] /\ age'[u] = age[u]
<1> DEFINE L == ListOf(pc[t])
<1>1. TypeOK /\ ChainsSound /\ L \in Lists
  BY DEF IInv, ListOf, Lists
<1>2. /\ old' = [old EXCEPT ![t] = top[L]]
      /\ age' = [age EXCEPT ![t] = 0]
      /\ pc' = [pc EXCEPT ![t] = after]
      /\ ListOf(after) = L
  BY DEF Load
<1> HIDE DEF L
<1>3. /\ top[L] \in Handle /\ 0 \in 0 .. (TagMod - 1)
      /\ top[L].tag \in 0 .. (TagMod - 1)
  BY <1>1, StackAssumption DEF TypeOK, Handle
<1>4. /\ old' \in [Threads -> Handle] /\ old'[t] = top[L]
      /\ age' \in [Threads -> 0 .. (TagMod - 1)] /\ age'[t] = 0
      /\ pc' \in [Threads -> PC] /\ pc'[t] = after
      /\ \A u \in Threads \ {t} : pc'[u] = pc[u] /\ old'[u] = old[u] /\ age'[u] = age[u]
  BY <1>1, <1>2, <1>3 DEF TypeOK
<1>5. TypeOK'
  BY <1>1, <1>4 DEF TypeOK
<1>6. top[L].ptr # NULL => top[L].ptr \in ToSet(chain[L])
  <2> HAVE top[L].ptr # NULL
  <2>1. chain[L] \in Seq(Nodes) /\ chain[L] # <<>> /\ top[L].ptr = chain[L][1]
    BY <1>1 DEF ChainsSound, First, TypeOK
  <2>2. Len(chain[L]) \in Nat /\ Len(chain[L]) # 0
    BY <2>1, LenProperties, EmptySeq
  <2> QED
    BY <2>1, <2>2, Elements
<1>7. Ahead(top[L].tag, top[L].tag) = 0
  BY <1>3 DEF Ahead
<1>8. CopySound(t)'
  BY <1>2, <1>4, <1>6, <1>7 DEF CopySound, Ahead
<1> QED
  BY <1>4, <1>5, <1>8

\* Every loop starts with such a read, and after a failed compare-and-swap starts again.
LEMMA LoadSteps ==
    ASSUME IInv, NEW t \in Threads,
           \/ AllocLoad(t) \/ AllocCasFails(t) \/ LinkLoad(t) \/ LinkCasFails(t)
           \/ PopLoad(t) \/ PopCasFails(t) \/ FreeLoad(t) \/ FreeCasFails(t)
    PROVE  IInv'
<1> DEFINE after == IF pc[t] \in {"alloc_load", "alloc_cas"} THEN "alloc_next"
                    ELSE IF pc[t] \in {"link_load", "link_cas"} THEN "link_next"
                    ELSE IF pc[t] \in {"pop_load", "pop_cas"} THEN "pop_next" ELSE "free_next"
<1>1. /\ Load(t, after)
      /\ UNCHANGED <<top, next, val, fresh, call, nxt, cur, chain, own>>
      /\ pc[t] \in {"alloc_load", "alloc_cas", "link_load", "link_cas", "pop_load", "pop_cas",
                    "free_load", "free_cas"}
  BY DEF AllocLoad, AllocCasFails, LinkLoad, LinkCasFails, PopLoad, PopCasFails, FreeLoad, FreeCasFails
<1>2. after \in PC /\ ListOf(after) = ListOf(pc[t]) /\ after \notin {"alloc_cas", "pop_cas"}
  BY <1>1 DEF PC, InPool, Removing, Idle, ListOf
<1>3. /\ after \in {"alloc_next", "link_next", "pop_next", "free_next"}
      /\ after = "alloc_next" => pc[t] \in {"alloc_load", "alloc_cas"}
      /\ after = "link_next" => pc[t] \in {"link_load", "link_cas"}
      /\ after = "pop_next" => pc[t] \in {"pop_load", "pop_cas"}
      /\ after = "free_next" => pc[t] \in {"free_load", "free_cas"}
  BY <1>1
<1> HIDE DEF after
<1>4. /\ TypeOK'
      /\ CopySound(t)'
      /\ pc'[t] = after
      /\ \A u \in Threads \ {t} : /\ pc'[u] = pc[u] /\ call'[u] = call[u] /\ cur'[u] = cur[u]
                                  /\ nxt'[u] = nxt[u] /\ old'[u] = old[u] /\ age'[u] = age[u]
  BY <1>1, <1>2, LoadStep
<1>5. CallSound(t) /\ OwnSound(t)
  BY DEF IInv
<1>6. CallSound(t)'
  BY <1>1, <1>3, <1>4, <1>5 DEF CallSound, Freeing
<1>7. OwnSound(t)'
  BY <1>1, <1>3, <1>4, <1>5 DEF OwnSound, Freeing, Idle
<1> QED
  BY <1>1, <1>4, <1>6, <1>7, LocalStep

\* A push is called.
LEMMA CallPushStep ==
    ASSUME IInv, NEW t \in Threads, CallPush(t)
    PROVE  IInv'
<1>1. PICK p \in Pushes :
         call' = [call EXCEPT ![t] = [NoCall EXCEPT !.kind = p.kind, !.bounded = p.bounded,
                                                    !.arg = p.arg]]
  BY DEF CallPush
<1> DEFINE c == [NoCall EXCEPT !.kind = p.kind, !.bounded = p.bounded, !.arg = p.arg]
<1>2. c \in CallType /\ c.kind = p.kind /\ c.arg = p.arg /\ c.done = 0
  BY NewCallTypes DEF NoCall
<1>3. call' = [call EXCEPT ![t] = c]
  BY <1>1
<1> HIDE DEF c
<1>4. /\ p.kind \in {"push", "range"} /\ p.arg \in Seq(Values) /\ p.arg # <<>>
      /\ p.kind = "push" => Len(p.arg) = 1
  BY StackAssumption
<1>5. Len(p.arg) \in Nat /\ 0 < Len(p.arg)
  BY <1>4, LenProperties, EmptySeq
<1>6. /\ pc[t] = "idle" /\ pc' = [pc EXCEPT ![t] = "alloc_load"]
      /\ UNCHANGED <<top, next, val, fresh, old, nxt, cur, age, chain, own>>
  BY DEF CallPush
<1>7. pc \in [Threads -> PC] /\ call \in [Threads -> CallType]
  BY DEF IInv, TypeOK, CallType
<1>8. /\ pc' \in [Threads -> PC] /\ call' \in [Threads -> CallType]
      /\ pc'[t] = "alloc_load" /\ call'[t] = c
      /\ \A u \in Threads \ {t} : pc'[u] = pc[u] /\ call'[u] = call[u]
  BY <1>2, <1>3, <1>6, <1>7 DEF PC, InPool
<1>9. TypeOK'
  BY <1>6, <1>8 DEF IInv, TypeOK, CallType
<1>10. OwnSound(t)
  BY DEF IInv
<1>11. own[t] = <<>> /\ IsInjective(own[t])
  BY <1>6, <1>10 DEF OwnSound, Idle
<1>12. Path(next, own[t], NULL)
  <2>1. 1 .. Len(own[t]) = {}
    BY <1>11
  <2> QED
    BY <2>1 DEF Path
<1>13. CallSound(t)' /\ CopySound(t)'
  BY <1>2, <1>4, <1>5, <1>8 DEF CallSound, CopySound, Removing, Freeing
<1>14. OwnSound(t)'
  BY <1>6, <1>8, <1>11, <1>12 DEF OwnSound, Freeing, Idle
<1> QED
  BY <1>6, <1>8, <1>9, <1>13, <1>14, LocalStep

\* A pop is called.
LEMMA CallPopStep ==
    ASSUME IInv, NEW t \in Threads, CallPop(t)
    PROVE  IInv'
<1>1. PICK k \in {"pop", "all"} : call' = [call EXCEPT ![t] = [NoCall EXCEPT !.kind = k]]
  BY DEF CallPop
<1> DEFINE c == [NoCall EXCEPT !.kind = k]
<1>2. c \in CallType /\ c.kind = k
  BY NewCallTypes DEF NoCall
<1>3. call' = [call EXCEPT ![t] = c]
  BY <1>1
<1> HIDE DEF c
<1>6. /\ pc[t] = "idle" /\ pc' = [pc EXCEPT ![t] = "pop_load"]
      /\ UNCHANGED <<top, next, val, fresh, old, nxt, cur, age, chain, own>>
  BY DEF CallPop
<1>7. pc \in [Threads -> PC] /\ call \in [Threads -> CallType]
  BY DEF IInv, TypeOK, CallType
<1>8. /\ pc' \in [Threads -> PC] /\ call' \in [Threads -> CallType]
      /\ pc'[t] = "pop_load" /\ call'[t] = c
      /\ \A u \in Threads \ {t} : pc'[u] = pc[u] /\ call'[u] = call[u]
  BY <1>2, <1>3, <1>6, <1>7 DEF PC
<1>9. TypeOK'
  BY <1>6, <1>8 DEF IInv, TypeOK, CallType
<1>10. OwnSound(t)
  BY DEF IInv
<1>11. own[t] = <<>> /\ IsInjective(own[t])
  BY <1>6, <1>10 DEF OwnSound, Idle
<1>13. CallSound(t)' /\ CopySound(t)'
  BY <1>2, <1>8 DEF CallSound, CopySound, Removing, Freeing
<1>14. OwnSound(t)'
  BY <1>6, <1>8, <1>11 DEF OwnSound, Freeing, Idle
<1> QED
  BY <1>6, <1>8, <1>9, <1>13, <1>14, LocalStep

\* An operation returns.
LEMMA ReturnStep ==
    ASSUME IInv, NEW t \in Threads, Return(t)
    PROVE  IInv'
<1>1. /\ pc[t] = "ret" /\ pc' = [pc EXCEPT ![t] = "idle"] /\ call' = [call EXCEPT ![t] = NoCall]
      /\ UNCHANGED <<top, next, val, fresh, old, nxt, cur, age, chain, own>>
  BY DEF Return
<1>2. NoCall \in CallType /\ NoCall.kind = "none"
  BY NewCallTypes DEF NoCall
<1>7. pc \in [Threads -> PC] /\ call \in [Threads -> CallType]
  BY DEF IInv, TypeOK, CallType
<1>8. /\ pc' \in [Threads -> PC] /\ call' \in [Threads -> CallType]
      /\ pc'[t] = "idle" /\ call'[t] = NoCall
      /\ \A u \in Threads \ {t} : pc'[u] = pc[u] /\ call'[u] = call[u]
  BY <1>1, <1>2, <1>7 DEF PC, Idle
<1>9. TypeOK'
  BY <1>1, <1>8 DEF IInv, TypeOK, CallType
<1>10. OwnSound(t)
  BY DEF IInv
<1>11. own[t] = <<>> /\ IsInjective(own[t])
  BY <1>1, <1>10 DEF OwnSound, Idle
<1>13. CallSound(t)' /\ CopySound(t)'
  BY <1>2, <1>8 DEF CallSound, CopySound, Removing, Freeing
<1>14. OwnSound(t)'
  BY <1>1, <1>8, <1>11 DEF OwnSound, Freeing, Idle
<1> QED
  BY <1>1, <1>8, <1>9, <1>13, <1>14, LocalStep

\* Leaving a loop resets its locals.
LEMMA LeaveStep ==
    ASSUME TypeOK, NEW t \in Threads, NEW after \in PC, Leave(t, after)
    PROVE  /\ pc' \in [Threads -> PC] /\ pc'[t] = after
           /\ old' \in [Threads -> Handle] /\ old'[t] = NoHandle
           /\ nxt' \in [Threads -> Nodes \cup {NULL}] /\ nxt'[t] = NULL
           /\ \A u \in Threads \ {t} : pc'[u] = pc[u] /\ old'[u] = old[u] /\ nxt'[u] = nxt[u]
<1>1. NoHandle \in Handle
  BY StackAssumption DEF NoHandle, Handle
<1> QED
  BY <1>1 DEF TypeOK, Leave

\* A bounded push finds the pool empty.
LEMMA AllocFailsStep ==
    ASSUME IInv, NEW t \in Threads, AllocFails(t)
    PROVE  IInv'
<1> DEFINE after == IF own[t] = <<>> THEN "ret" ELSE "link_load"
<1>1. /\ pc[t] = "alloc_next" /\ age' = [age EXCEPT ![t] = 0] /\ Leave(t, after)
      /\ UNCHANGED <<top, next, val, fresh, call, cur, chain, own>>
  BY DEF AllocFails, PoolEmpty
<1>2. after \in PC /\ after \in {"ret", "link_load"} /\ (after = "ret" <=> own[t] = <<>>)
  BY DEF PC, Idle
<1> HIDE DEF after
<1>3. TypeOK /\ CallSound(t) /\ OwnSound(t)
  BY DEF IInv
<1>4. /\ pc' \in [Threads -> PC] /\ pc'[t] = after
      /\ old' \in [Threads -> Handle] /\ old'[t] = NoHandle
      /\ nxt' \in [Threads -> Nodes \cup {NULL}] /\ nxt'[t] = NULL
      /\ \A u \in Threads \ {t} : pc'[u] = pc[u] /\ old'[u] = old[u] /\ nxt'[u] = nxt[u]
  BY <1>1, <1>2, <1>3, LeaveStep
<1>5. /\ age' \in [Threads -> 0 .. (TagMod - 1)]
      /\ \A u \in Threads \ {t} : age'[u] = age[u]
  BY <1>1, <1>3, StackAssumption DEF TypeOK
<1>6. TypeOK'
  BY <1>1, <1>3, <1>4, <1>5 DEF TypeOK
<1>7. CallSound(t)' /\ CopySound(t)'
  BY <1>1, <1>2, <1>3, <1>4 DEF CallSound, CopySound, Removing, Freeing
<1>8. OwnSound(t)'
  BY <1>1, <1>2, <1>3, <1>4 DEF OwnSound, Freeing, Idle
<1> QED
  BY <1>1, <1>4, <1>5, <1>6, <1>7, <1>8, LocalStep

\* The allocator throws: the prepared nodes are in the hands of the handler.
LEMMA AllocThrowsStep ==
    ASSUME IInv, NEW t \in Threads, AllocThrows(t)
    PROVE  IInv'
<1> DEFINE after == IF own[t] = <<>> THEN "ret" ELSE "unwind"
           c == [call[t] EXCEPT !.done = 0]
           n == IF own[t] = <<>> THEN NULL ELSE own[t][1]
<1>1. /\ pc[t] = "alloc_next" /\ age' = [age EXCEPT ![t] = 0] /\ Leave(t, after)
      /\ call' = [call EXCEPT ![t] = c] /\ cur' = [cur EXCEPT ![t] = n]
      /\ UNCHANGED <<top, next, val, fresh, chain, own>>
  BY DEF AllocThrows, PoolEmpty
<1>2. after \in PC /\ after \in {"ret", "unwind"} /\ (after = "ret" <=> own[t] = <<>>)
  BY DEF PC, Idle
<1>3. TypeOK /\ CallSound(t) /\ OwnSound(t)
  BY DEF IInv
<1>4. call \in [Threads -> CallType] /\ own[t] \in Seq(Nodes)
  BY <1>3 DEF TypeOK, CallType
<1>5. c \in CallType /\ c.kind = call[t].kind /\ c.arg = call[t].arg
  <2>1. call[t] \in CallType
    BY <1>4
  <2>2. c \in CallType
    BY <2>1, CallTypes
  <2> QED
    BY <2>1, <2>2 DEF CallType
<1>6. own[t] # <<>> => n = own[t][1]
  OBVIOUS
<1>7. n \in Nodes \cup {NULL}
  <2> SUFFICES ASSUME own[t] # <<>> PROVE own[t][1] \in Nodes
    OBVIOUS
  <2>1. Len(own[t]) \in Nat /\ Len(own[t]) # 0
    BY <1>4, LenProperties, EmptySeq
  <2> QED
    BY <1>4, <2>1
<1> HIDE DEF after, c, n
<1>8. /\ pc' \in [Threads -> PC] /\ pc'[t] = after
      /\ old' \in [Threads -> Handle] /\ old'[t] = NoHandle
      /\ nxt' \in [Threads -> Nodes \cup {NULL}] /\ nxt'[t] = NULL
      /\ \A u \in Threads \ {t} : pc'[u] = pc[u] /\ old'[u] = old[u] /\ nxt'[u] = nxt[u]
  BY <1>1, <1>2, <1>3, LeaveStep
<1>9. /\ age' \in [Threads -> 0 .. (TagMod - 1)]
      /\ cur' \in [Threads -> Nodes \cup {NULL}] /\ cur'[t] = n
      /\ call' \in [Threads -> CallType] /\ call'[t] = c
      /\ \A u \in Threads \ {t} : age'[u] = age[u] /\ cur'[u] = cur[u] /\ call'[u] = call[u]
  BY <1>1, <1>3, <1>4, <1>5, <1>7, StackAssumption DEF TypeOK
<1>10. TypeOK'
  BY <1>1, <1>3, <1>8, <1>9 DEF TypeOK, CallType
<1>11. own[t] # <<>> => c.kind = "range"
  BY <1>1, <1>3, <1>5 DEF OwnSound, CallSound
<1>12. CallSound(t)' /\ CopySound(t)'
  BY <1>1, <1>2, <1>3, <1>5, <1>8, <1>9, <1>11 DEF CallSound, CopySound, Removing, Freeing
<1>13. own[t] # <<>> => Path(next, Tail(own[t]), NULL) /\ next[own[t][1]] = First(Tail(own[t]), NULL)
  <2> HAVE own[t] # <<>>
  <2>1. Path(next, own[t], NULL)
    BY <1>1, <1>3 DEF OwnSound
  <2> QED
    BY <1>4, <2>1, PathTail
<1>14. OwnSound(t)'
  BY <1>1, <1>2, <1>3, <1>6, <1>8, <1>9, <1>11, <1>13 DEF OwnSound, Freeing, Idle
<1> QED
  BY <1>1, <1>8, <1>9, <1>10, <1>12, <1>14, LocalStep

\* A removal reads the link of the node its copy of the head names, whoever has that node now.
LEMMA NextStep ==
    ASSUME IInv, NEW t \in Threads, AllocNext(t) \/ PopNext(t)
    PROVE  IInv'
<1> DEFINE n == IF call[t].kind = "all" THEN NULL ELSE next[old[t].ptr]
           after == IF pc[t] = "alloc_next" THEN "alloc_cas" ELSE "pop_cas"
<1>1. TypeOK /\ CallSound(t) /\ OwnSound(t) /\ CopySound(t)
  BY DEF IInv
<1>2. /\ pc[t] \in {"alloc_next", "pop_next"} /\ old[t].ptr # NULL
      /\ nxt' = [nxt EXCEPT ![t] = n] /\ pc' = [pc EXCEPT ![t] = after]
      /\ UNCHANGED <<top, next, val, fresh, call, old, cur, age, chain, own>>
  <2>1. CASE AllocNext(t)
    <3>1. call[t].kind # "all"
      BY <1>1, <2>1 DEF AllocNext, CallSound
    <3> QED
      BY <2>1, <3>1 DEF AllocNext
  <2>2. CASE PopNext(t)
    <3>1. call[t].kind \in {"pop", "all"}
      BY <1>1, <2>2 DEF PopNext, CallSound
    <3> QED
      BY <2>2, <3>1 DEF PopNext
  <2> QED
    BY <2>1, <2>2
<1>3. n \in Nodes \cup {NULL} /\ after \in PC
  BY <1>1, <1>2 DEF TypeOK, Handle, PC, InPool, Removing
<1>4. /\ after \in {"alloc_cas", "pop_cas"} /\ ListOf(after) = ListOf(pc[t])
      /\ after = "alloc_cas" => pc[t] = "alloc_next"
      /\ after = "pop_cas" => pc[t] = "pop_next"
  BY <1>2 DEF ListOf, InPool
<1>5. n = IF call[t].kind = "all" THEN NULL ELSE next[old[t].ptr]
  OBVIOUS
<1> HIDE DEF n, after
<1>6. /\ pc' \in [Threads -> PC] /\ pc'[t] = after
      /\ nxt' \in [Threads -> Nodes \cup {NULL}] /\ nxt'[t] = n
      /\ \A u \in Threads \ {t} : pc'[u] = pc[u] /\ nxt'[u] = nxt[u]
  BY <1>1, <1>2, <1>3 DEF TypeOK
<1>7. TypeOK'
  BY <1>1, <1>2, <1>6 DEF TypeOK
<1>8. CallSound(t)'
  BY <1>1, <1>2, <1>4, <1>6 DEF CallSound, Freeing
<1>9. OwnSound(t)'
  BY <1>1, <1>2, <1>4, <1>6 DEF OwnSound, Freeing, Idle
<1>10. CopySound(t)'
  BY <1>1, <1>2, <1>4, <1>5, <1>6 DEF CopySound, Removing, Ahead
<1> QED
  BY <1>2, <1>6, <1>7, <1>8, <1>9, <1>10, LocalStep

\* The stack was empty when its head was read.
LEMMA PopEmptyStep ==
    ASSUME IInv, NEW t \in Threads, PopEmpty(t)
    PROVE  IInv'
<1>1. /\ pc[t] = "pop_next" /\ age' = [age EXCEPT ![t] = 0] /\ Leave(t, "ret")
      /\ UNCHANGED <<top, next, val, fresh, call, cur, chain, own>>
  BY DEF PopEmpty
<1>2. TypeOK /\ CallSound(t) /\ OwnSound(t) /\ "ret" \in PC
  BY DEF IInv, PC, Idle
<1>3. /\ pc' \in [Threads -> PC] /\ pc'[t] = "ret"
      /\ old' \in [Threads -> Handle] /\ old'[t] = NoHandle
      /\ nxt' \in [Threads -> Nodes \cup {NULL}] /\ nxt'[t] = NULL
      /\ \A u \in Threads \ {t} : pc'[u] = pc[u] /\ old'[u] = old[u] /\ nxt'[u] = nxt[u]
  BY <1>1, <1>2, LeaveStep
<1>4. /\ age' \in [Threads -> 0 .. (TagMod - 1)]
      /\ \A u \in Threads \ {t} : age'[u] = age[u]
  BY <1>1, <1>2, StackAssumption DEF TypeOK
<1>5. TypeOK'
  BY <1>1, <1>2, <1>3, <1>4 DEF TypeOK
<1>6. CallSound(t)' /\ CopySound(t)'
  BY <1>1, <1>2, <1>3 DEF CallSound, CopySound, Removing, Freeing
<1>7. OwnSound(t)'
  BY <1>1, <1>2, <1>3 DEF OwnSound, Freeing, Idle
<1> QED
  BY <1>1, <1>3, <1>4, <1>5, <1>6, <1>7, LocalStep

\* The loops that give nodes back read the link of a node before they free it.
LEMMA ConsumeUnwindStep ==
    ASSUME IInv, NEW t \in Threads, Consume(t) \/ Unwind(t)
    PROVE  IInv'
<1> DEFINE n == IF call[t].kind = "pop" THEN NULL ELSE next[cur[t]]
           c == IF pc[t] = "consume" THEN [call[t] EXCEPT !.ret = Append(call[t].ret, val[cur[t]])]
                ELSE call[t]
<1>1. TypeOK /\ CallSound(t) /\ OwnSound(t) /\ call \in [Threads -> CallType]
  BY DEF IInv, TypeOK, CallType
<1>2. /\ pc[t] \in {"consume", "unwind"} /\ call' = [call EXCEPT ![t] = c]
      /\ nxt' = [nxt EXCEPT ![t] = n] /\ pc' = [pc EXCEPT ![t] = "free_load"]
      /\ UNCHANGED <<top, next, val, fresh, old, cur, age, chain, own>>
  <2>1. CASE Consume(t)
    BY <2>1 DEF Consume
  <2>2. CASE Unwind(t)
    <3>1. call[t].kind = "range"
      BY <1>1, <2>2 DEF Unwind, CallSound
    <3>2. c = call[t] /\ n = next[cur[t]]
      BY <2>2, <3>1 DEF Unwind
    <3>3. [call EXCEPT ![t] = call[t]] = call
      BY <1>1
    <3> QED
      BY <2>2, <3>2, <3>3 DEF Unwind
  <2> QED
    BY <2>1, <2>2
<1>3. /\ own[t] # <<>> /\ cur[t] = own[t][1] /\ Path(next, Tail(own[t]), NULL)
      /\ call[t].kind = "pop" => Tail(own[t]) = <<>>
      /\ call[t].kind # "push"
  BY <1>1, <1>2 DEF OwnSound, CallSound
<1>4. cur[t] \in Nodes
  <2>1. own[t] \in Seq(Nodes)
    BY <1>1 DEF TypeOK
  <2>2. Len(own[t]) \in Nat /\ Len(own[t]) # 0
    BY <1>3, <2>1, LenProperties, EmptySeq
  <2> QED
    BY <1>3, <2>1, <2>2
<1>5. n = First(Tail(own[t]), NULL)
  BY <1>1, <1>2, <1>3 DEF OwnSound, CallSound, First
<1>6. n \in Nodes \cup {NULL} /\ "free_load" \in PC
  BY <1>1, <1>4 DEF TypeOK, PC, InPool
<1>7. c \in CallType /\ c.kind = call[t].kind /\ c.arg = call[t].arg
  <2>1. call[t] \in CallType /\ val[cur[t]] \in Values \cup {NULL}
    BY <1>1, <1>4 DEF TypeOK
  <2>2. c \in CallType
    BY <2>1, CallTypes
  <2> QED
    BY <2>1, <2>2 DEF CallType
<1> HIDE DEF n, c
<1>8. /\ pc' \in [Threads -> PC] /\ pc'[t] = "free_load"
      /\ nxt' \in [Threads -> Nodes \cup {NULL}] /\ nxt'[t] = n
      /\ call' \in [Threads -> CallType] /\ call'[t] = c
      /\ \A u \in Threads \ {t} : pc'[u] = pc[u] /\ nxt'[u] = nxt[u] /\ call'[u] = call[u]
  BY <1>1, <1>2, <1>6, <1>7 DEF TypeOK
<1>9. TypeOK'
  BY <1>1, <1>2, <1>8 DEF TypeOK, CallType
<1>10. CallSound(t)' /\ CopySound(t)'
  BY <1>1, <1>2, <1>7, <1>8 DEF CallSound, CopySound, Removing, Freeing
<1>11. OwnSound(t)'
  BY <1>1, <1>2, <1>3, <1>5, <1>7, <1>8 DEF OwnSound, Freeing, Idle
<1> QED
  BY <1>2, <1>8, <1>9, <1>10, <1>11, LocalStep

\* An element is put in the node, and the node in front of the prepared ones.
LEMMA ConstructStep ==
    ASSUME IInv, NEW t \in Threads, Construct(t)
    PROVE  IInv'
<1> DEFINE n == own[t][1]
           rest == Tail(own[t])
           c == [call[t] EXCEPT !.done = call[t].done + 1]
           after == IF call[t].done + 1 < Len(call[t].arg) THEN "alloc_load" ELSE "link_load"
<1>1. TypeOK /\ CallSound(t) /\ OwnSound(t) /\ call \in [Threads -> CallType]
  BY DEF IInv, TypeOK, CallType
<1>2. /\ pc[t] = "construct" /\ cur' = [cur EXCEPT ![t] = NULL] /\ pc' = [pc EXCEPT ![t] = after]
      /\ call' = [call EXCEPT ![t] = c]
      /\ val' = [val EXCEPT ![cur[t]] = call[t].arg[call[t].done + 1]]
      /\ next' = IF call[t].kind = "push" THEN next
                 ELSE [next EXCEPT ![cur[t]] = IF Len(own[t]) = 1 THEN NULL ELSE own[t][2]]
      /\ UNCHANGED <<top, fresh, old, nxt, age, chain, own>>
  BY DEF Construct
<1>3. /\ own[t] \in Seq(Nodes) /\ own[t] # <<>> /\ cur[t] = n /\ Path(next, rest, NULL)
      /\ call[t].kind = "push" => rest = <<>>
      /\ IsInjective(own[t])
      /\ call[t].kind \in {"push", "range"} /\ call[t].done < Len(call[t].arg)
  BY <1>1, <1>2 DEF OwnSound, CallSound, TypeOK
<1>4. /\ Len(own[t]) \in Nat \ {0} /\ rest \in Seq(Nodes) /\ Len(rest) = Len(own[t]) - 1
      /\ \A i \in 1 .. Len(rest) : rest[i] = own[t][i + 1]
      /\ rest = <<>> <=> Len(rest) = 0
      /\ n \in Nodes /\ n = Head(own[t])
  <2>1. own[t] \in Seq(Nodes) /\ own[t] # <<>>
    BY <1>3
  <2>2. Len(own[t]) \in Nat \ {0} /\ n \in Nodes /\ n = Head(own[t])
    BY <2>1, LenProperties, EmptySeq
  <2>3. /\ rest \in Seq(Nodes) /\ Len(rest) = Len(own[t]) - 1
        /\ \A i \in 1 .. Len(rest) : rest[i] = own[t][i + 1]
    BY <2>1, HeadTailProperties
  <2>4. rest = <<>> <=> Len(rest) = 0
    BY <2>3, EmptySeq
  <2> QED
    BY <2>2, <2>3, <2>4
<1>5. /\ rest \in Seq(Nodes) /\ ToSet(own[t]) = ToSet(rest) \cup {n}
      /\ n \notin ToSet(rest)
      /\ own[t] = <<n>> \o rest
  BY <1>3, <1>4, PopOne, HeadTailProperties, ConcatProperties
<1>6. call[t].kind # "push" => next' = [next EXCEPT ![n] = First(rest, NULL)]
  <2>1. (IF Len(own[t]) = 1 THEN NULL ELSE own[t][2]) = First(rest, NULL)
    <3>1. CASE rest = <<>>
      BY <1>4, <3>1 DEF First
    <3>2. CASE rest # <<>>
      <4>1. Len(own[t]) # 1 /\ rest[1] = own[t][2]
        BY <1>4, <3>2
      <4> QED
        BY <3>2, <4>1 DEF First
    <3> QED
      BY <3>1, <3>2
  <2> QED
    BY <1>2, <1>3, <2>1
<1>7. /\ c \in CallType /\ c.kind = call[t].kind /\ c.arg = call[t].arg /\ c.done = call[t].done + 1
      /\ call[t].done \in Nat /\ call[t].arg \in Seq(Values)
  <2>1. call[t] \in CallType
    BY <1>1
  <2>2. c \in CallType
    BY <2>1, CallTypes
  <2> QED
    BY <2>1, <2>2 DEF CallType
<1>8. call[t].arg[call[t].done + 1] \in Values
  BY <1>3, <1>7
<1>9. /\ after \in PC /\ after \in {"alloc_load", "link_load"}
      /\ after = "alloc_load" <=> c.done < Len(c.arg)
  BY <1>7 DEF PC, InPool
<1> HIDE DEF n, rest, c, after
<1>10. call[t].kind = "push" => after = "link_load"
  <2> HAVE call[t].kind = "push"
  <2>1. Len(c.arg) = 1
    BY <1>1, <1>7 DEF CallSound
  <2> QED
    BY <1>7, <1>9, <2>1
<1>11. /\ next' \in [Nodes -> Nodes \cup {NULL}]
       /\ \A m \in Nodes \ ToSet(own[t]) : next'[m] = next[m]
       /\ \A m \in ToSet(rest) : next'[m] = next[m]
       /\ call[t].kind # "push" => next'[n] = First(rest, NULL)
  <2>1. First(rest, NULL) \in Nodes \cup {NULL}
    <3>1. rest # <<>> => rest[1] \in Nodes
      BY <1>4
    <3> QED
      BY <3>1 DEF First
  <2>2. next \in [Nodes -> Nodes \cup {NULL}]
    BY <1>1 DEF TypeOK
  <2>3. CASE call[t].kind = "push"
    BY <1>2, <2>2, <2>3
  <2>4. CASE call[t].kind # "push"
    <3>1. ToSet(rest) \subseteq Nodes
      BY <1>4, Elements
    <3> QED
      BY <1>4, <1>5, <1>6, <2>1, <2>2, <2>4, <3>1
  <2> QED
    BY <2>3, <2>4
<1>12. Path(next', rest, NULL)
  BY <1>3, <1>4, <1>11, PathKept
<1>13. CASE call[t].kind = "push"
  <2>1. Len(own[t]) = 1
    BY <1>3, <1>4, <1>13
  <2>2. next[n] \in Nodes \cup {NULL} /\ next' = next
    BY <1>1, <1>2, <1>4, <1>13 DEF TypeOK
  <2>3. Path(next', own[t], next[n])
    BY <2>1, <2>2 DEF Path, n
  <2>4. \E q \in Nodes \cup {NULL} : Path(next', own[t], q)
    BY <2>2, <2>3
  <2>5. /\ pc' \in [Threads -> PC] /\ pc'[t] = "link_load"
        /\ call' \in [Threads -> CallType] /\ call'[t] = c
        /\ val' \in [Nodes -> Values \cup {NULL}]
        /\ cur' \in [Threads -> Nodes \cup {NULL}]
        /\ \A u \in Threads \ {t} : pc'[u] = pc[u] /\ call'[u] = call[u] /\ cur'[u] = cur[u]
    BY <1>1, <1>2, <1>3, <1>4, <1>7, <1>8, <1>9, <1>10, <1>13 DEF TypeOK
  <2>6. TypeOK'
    BY <1>1, <1>2, <1>11, <2>5 DEF TypeOK, CallType
  <2>7. CallSound(t)' /\ CopySound(t)'
    BY <1>1, <1>3, <1>7, <1>13, <2>5 DEF CallSound, CopySound, Removing, Freeing
  <2>8. OwnSound(t)'
    BY <1>2, <1>3, <2>4, <2>5 DEF OwnSound, Freeing, Idle
  <2> QED
    BY <1>2, <1>11, <2>5, <2>6, <2>7, <2>8, LocalStep
<1>14. CASE call[t].kind = "range"
  <2>1. Path(next', <<n>> \o rest, NULL)
    BY <1>4, <1>11, <1>12, <1>14, PathPush
  <2>4. Path(next', own[t], NULL)
    BY <1>5, <2>1
  <2>5. /\ pc' \in [Threads -> PC] /\ pc'[t] = after
        /\ call' \in [Threads -> CallType] /\ call'[t] = c
        /\ val' \in [Nodes -> Values \cup {NULL}]
        /\ cur' \in [Threads -> Nodes \cup {NULL}]
        /\ \A u \in Threads \ {t} : pc'[u] = pc[u] /\ call'[u] = call[u] /\ cur'[u] = cur[u]
    BY <1>1, <1>2, <1>3, <1>4, <1>7, <1>8, <1>9 DEF TypeOK
  <2>6. TypeOK'
    BY <1>1, <1>2, <1>11, <2>5 DEF TypeOK, CallType
  <2>7. CallSound(t)' /\ CopySound(t)'
    BY <1>1, <1>3, <1>7, <1>9, <1>14, <2>5 DEF CallSound, CopySound, Removing, Freeing
  <2>8. OwnSound(t)'
    BY <1>2, <1>3, <1>7, <1>9, <1>14, <2>4, <2>5 DEF OwnSound, Freeing, Idle
  <2> QED
    BY <1>2, <1>11, <2>5, <2>6, <2>7, <2>8, LocalStep
<1> QED
  BY <1>3, <1>13, <1>14

\* The last prepared node is linked to what was the top of the stack.
LEMMA LinkNextStep ==
    ASSUME IInv, NEW t \in Threads, LinkNext(t)
    PROVE  IInv'
<1> DEFINE n == own[t][Len(own[t])]
           q == old[t].ptr
<1>1. TypeOK /\ CallSound(t) /\ OwnSound(t)
  BY DEF IInv
<1>2. /\ pc[t] = "link_next" /\ next' = [next EXCEPT ![n] = q] /\ pc' = [pc EXCEPT ![t] = "link_cas"]
      /\ UNCHANGED <<top, val, fresh, call, old, nxt, cur, age, chain, own>>
  BY DEF LinkNext
<1>3. /\ own[t] \in Seq(Nodes) /\ own[t] # <<>> /\ IsInjective(own[t])
      /\ next \in [Nodes -> Nodes \cup {NULL}] /\ q \in Nodes \cup {NULL} /\ "link_cas" \in PC
  BY <1>1, <1>2 DEF TypeOK, OwnSound, Handle, PC
<1>4. PICK p \in Nodes \cup {NULL} : Path(next, own[t], p)
  BY <1>1, <1>2 DEF OwnSound
<1>5. Path(next', own[t], q)
  BY <1>2, <1>3, <1>4, PathRelink
<1>6. n \in ToSet(own[t]) /\ n \in Nodes
  <2>1. Len(own[t]) \in Nat /\ Len(own[t]) # 0
    BY <1>3, LenProperties, EmptySeq
  <2> QED
    BY <1>3, <2>1, Elements
<1> HIDE DEF n
<1>7. /\ next' \in [Nodes -> Nodes \cup {NULL}] /\ \A m \in Nodes \ ToSet(own[t]) : next'[m] = next[m]
      /\ pc' \in [Threads -> PC] /\ pc'[t] = "link_cas"
      /\ \A u \in Threads \ {t} : pc'[u] = pc[u]
  BY <1>1, <1>2, <1>3, <1>6 DEF TypeOK
<1>8. TypeOK'
  BY <1>1, <1>2, <1>7 DEF TypeOK
<1>9. CallSound(t)' /\ CopySound(t)'
  BY <1>1, <1>2, <1>7 DEF CallSound, CopySound, Removing, Freeing
<1>10. OwnSound(t)'
  BY <1>1, <1>2, <1>3, <1>5, <1>7 DEF OwnSound, Freeing, Idle
<1> QED
  BY <1>2, <1>7, <1>8, <1>9, <1>10, LocalStep

\* The node to free is linked to what was the head of the pool.
LEMMA FreeNextStep ==
    ASSUME IInv, NEW t \in Threads, FreeNext(t)
    PROVE  IInv'
<1> DEFINE n == cur[t]
           q == old[t].ptr
           rest == Tail(own[t])
<1>1. TypeOK /\ CallSound(t) /\ OwnSound(t)
  BY DEF IInv
<1>2. /\ pc[t] = "free_next" /\ next' = [next EXCEPT ![n] = q] /\ pc' = [pc EXCEPT ![t] = "free_cas"]
      /\ UNCHANGED <<top, val, fresh, call, old, nxt, cur, age, chain, own>>
  BY DEF FreeNext
<1>3. /\ own[t] \in Seq(Nodes) /\ own[t] # <<>> /\ IsInjective(own[t]) /\ n = own[t][1]
      /\ Path(next, rest, NULL)
      /\ next \in [Nodes -> Nodes \cup {NULL}] /\ q \in Nodes \cup {NULL} /\ "free_cas" \in PC
  BY <1>1, <1>2 DEF TypeOK, OwnSound, Freeing, Handle, PC, InPool
<1>4. /\ n \in Nodes /\ rest \in Seq(Nodes) /\ ToSet(own[t]) = ToSet(rest) \cup {n}
      /\ n \notin ToSet(rest) /\ ToSet(rest) \subseteq Nodes
  <2>1. n = Head(own[t])
    BY <1>3
  <2> QED
    BY <1>3, <2>1, PopOne, Elements
<1> HIDE DEF n
<1>5. /\ next' \in [Nodes -> Nodes \cup {NULL}] /\ \A m \in Nodes \ ToSet(own[t]) : next'[m] = next[m]
      /\ \A m \in ToSet(rest) : next'[m] = next[m]
      /\ next'[n] = q
      /\ pc' \in [Threads -> PC] /\ pc'[t] = "free_cas"
      /\ \A u \in Threads \ {t} : pc'[u] = pc[u]
  BY <1>1, <1>2, <1>3, <1>4 DEF TypeOK
<1>6. Path(next', rest, NULL)
  BY <1>3, <1>4, <1>5, PathKept
<1>8. TypeOK'
  BY <1>1, <1>2, <1>5 DEF TypeOK
<1>9. CallSound(t)' /\ CopySound(t)'
  BY <1>1, <1>2, <1>5 DEF CallSound, CopySound, Removing, Freeing
<1>10. OwnSound(t)'
  BY <1>1, <1>2, <1>3, <1>5, <1>6 DEF OwnSound, Freeing, Idle, n
<1> QED
  BY <1>2, <1>5, <1>8, <1>9, <1>10, LocalStep

----------------------------------------------------------------------------
(* Steps that move nodes from one place to another *)

\* An allocated node is in front of those the thread has prepared.
LEMMA OwnMore ==
    ASSUME IInv, NEW t \in Threads, pc[t] \in {"alloc_next", "alloc_cas"}, NEW n \in Nodes,
           n \notin ToSet(own[t]),
           next' = next, pc'[t] = "construct", call'[t] = call[t], cur'[t] = n,
           own'[t] = <<n>> \o own[t]
    PROVE  /\ OwnSound(t)' /\ CallSound(t)' /\ CopySound(t)'
           /\ ToSet(own'[t]) = ToSet(own[t]) \cup {n}
           /\ own'[t] \in Seq(Nodes)
<1>1. CallSound(t) /\ OwnSound(t) /\ own[t] \in Seq(Nodes)
  BY DEF IInv, TypeOK
<1>2. /\ IsInjective(own[t]) /\ Path(next, own[t], NULL)
      /\ call[t].kind \in {"push", "range"}
      /\ call[t].kind = "push" => own[t] = <<>>
  BY <1>1 DEF OwnSound, CallSound
<1> DEFINE s == <<n>> \o own[t]
<1>3. s \in Seq(Nodes) /\ ToSet(s) = ToSet(own[t]) \cup {n} /\ IsInjective(s)
  BY <1>1, <1>2, PushOne
<1>4. s # <<>> /\ s[1] = n /\ Tail(s) = own[t]
  BY <1>1
<1> HIDE DEF s
<1>5. own'[t] = s
  BY DEF s
<1>6. CallSound(t)' /\ CopySound(t)'
  BY <1>1 DEF CallSound, CopySound, Removing, Freeing
<1>7. OwnSound(t)'
  BY <1>2, <1>3, <1>4, <1>5 DEF OwnSound, Freeing, Idle
<1> QED
  BY <1>3, <1>5, <1>6, <1>7

\* A node comes from the memory allocator.
LEMMA AllocFreshStep ==
    ASSUME IInv, NEW t \in Threads, AllocFresh(t)
    PROVE  IInv'
<1>1. PICK n \in fresh : /\ fresh' = fresh \ {n}
                         /\ cur' = [cur EXCEPT ![t] = n]
                         /\ own' = [own EXCEPT ![t] = <<n>> \o own[t]]
  BY DEF AllocFresh
<1>2. /\ pc[t] = "alloc_next" /\ age' = [age EXCEPT ![t] = 0] /\ Leave(t, "construct")
      /\ UNCHANGED <<top, next, val, call, chain>>
  BY DEF AllocFresh, PoolEmpty
<1>3. TypeOK /\ NodesPlaced /\ n \in Nodes /\ "construct" \in PC
  BY DEF IInv, TypeOK, PC
<1>4. /\ pc' \in [Threads -> PC] /\ pc'[t] = "construct"
      /\ old' \in [Threads -> Handle]
      /\ nxt' \in [Threads -> Nodes \cup {NULL}]
      /\ \A u \in Threads \ {t} : pc'[u] = pc[u] /\ old'[u] = old[u] /\ nxt'[u] = nxt[u]
  BY <1>2, <1>3, LeaveStep
<1>5. /\ age' \in [Threads -> 0 .. (TagMod - 1)]
      /\ cur' \in [Threads -> Nodes \cup {NULL}] /\ cur'[t] = n
      /\ own'[t] = <<n>> \o own[t]
      /\ \A u \in Threads \ {t} : age'[u] = age[u] /\ cur'[u] = cur[u] /\ own'[u] = own[u]
  BY <1>1, <1>2, <1>3, StackAssumption DEF TypeOK
<1>6. n \notin ToSet(own[t])
  BY <1>3 DEF NodesPlaced, Placed
<1>7. /\ OwnSound(t)' /\ CallSound(t)' /\ CopySound(t)'
      /\ ToSet(own'[t]) = ToSet(own[t]) \cup {n} /\ own'[t] \in Seq(Nodes)
  BY <1>2, <1>3, <1>4, <1>5, <1>6, OwnMore
<1>8. TypeOK'
  BY <1>1, <1>2, <1>3, <1>4, <1>5, <1>7 DEF TypeOK
<1>9. ChainsSound'
  BY <1>2, ChainsKeep
<1>10. NodesPlaced'
  <2> DEFINE F == fresh
             C == [L \in Lists |-> ToSet(chain[L])]
             O == [u \in Threads |-> ToSet(own[u])]
             P == [O EXCEPT ![t] = @ \cup {n}]
  <2>1. O \in [Threads -> SUBSET Nodes] /\ Placed(F, C, O)
    <3>1. \A u \in Threads : ToSet(own[u]) \subseteq Nodes
      BY <1>3, Elements DEF TypeOK
    <3> QED
      BY <1>3, <3>1 DEF NodesPlaced
  <2>2. Placed(F \ {n}, C, P)
    <3> HIDE DEF O, C
    <3> QED
      BY <2>1, PlacedFromFresh
  <2>3. P = [u \in Threads |-> ToSet(own'[u])]
    BY <1>5, <1>7
  <2>4. C = [L \in Lists |-> ToSet(chain'[L])]
    BY <1>2
  <2>5. Placed(fresh', [L \in Lists |-> ToSet(chain'[L])], [u \in Threads |-> ToSet(own'[u])])
    <3> HIDE DEF C, P
    <3> QED
      BY <1>1, <2>2, <2>3, <2>4
  <2> QED
    BY <2>5 DEF NodesPlaced, Placed
<1>11. ASSUME NEW u \in Threads, u # t PROVE CallSound(u)' /\ OwnSound(u)' /\ CopySound(u)'
  <2>1. /\ pc'[u] = pc[u] /\ call'[u] = call[u] /\ own'[u] = own[u] /\ cur'[u] = cur[u]
        /\ nxt'[u] = nxt[u] /\ old'[u] = old[u] /\ age'[u] = age[u]
        /\ \A m \in Nodes \ ToSet(own[t]) : next'[m] = next[m]
        /\ top'[ListOf(pc[u])].tag = top[ListOf(pc[u])].tag
        /\ ToSet(chain[ListOf(pc[u])]) \subseteq ToSet(chain'[ListOf(pc[u])])
    BY <1>2, <1>4, <1>5, <1>11
  <2>2. CallSound(u)' /\ OwnSound(u)'
    BY <1>11, <2>1, OthersKeep
  <2>3. CopySound(u)'
    BY <1>8, <1>11, <2>1, CopiesKeep
  <2> QED
    BY <2>2, <2>3
<1> QED
  BY <1>7, <1>8, <1>9, <1>10, <1>11 DEF IInv

\* Nodes X leave list K for the hands of thread t.
LEMMA MovedFromList ==
    ASSUME IInv, NEW t \in Threads, NEW K \in Lists, NEW X \in SUBSET ToSet(chain[K]),
           fresh' = fresh,
           ToSet(chain'[K]) = ToSet(chain[K]) \ X,
           \A L \in Lists \ {K} : chain'[L] = chain[L],
           ToSet(own'[t]) = ToSet(own[t]) \cup X,
           \A u \in Threads \ {t} : own'[u] = own[u]
    PROVE  NodesPlaced'
<1> DEFINE F == fresh
           C == [L \in Lists |-> ToSet(chain[L])]
           O == [u \in Threads |-> ToSet(own[u])]
           D == [C EXCEPT ![K] = @ \ X]
           P == [O EXCEPT ![t] = @ \cup X]
<1>1. /\ C \in [Lists -> SUBSET Nodes] /\ O \in [Threads -> SUBSET Nodes] /\ Placed(F, C, O)
      /\ X \in SUBSET C[K]
  <2>1. \A u \in Threads : ToSet(own[u]) \subseteq Nodes
    BY Elements DEF IInv, TypeOK
  <2>2. \A L \in Lists : ToSet(chain[L]) \subseteq Nodes
    BY Elements DEF IInv, TypeOK
  <2> QED
    BY <2>1, <2>2 DEF IInv, NodesPlaced
<1>2. Placed(F, D, P)
  <2> HIDE DEF O, C, F
  <2> QED
    BY <1>1, PlacedFromList
<1>3. P = [u \in Threads |-> ToSet(own'[u])]
  OBVIOUS
<1>4. D = [L \in Lists |-> ToSet(chain'[L])]
  OBVIOUS
<1>5. Placed(fresh', [L \in Lists |-> ToSet(chain'[L])], [u \in Threads |-> ToSet(own'[u])])
  <2> HIDE DEF D, P
  <2> QED
    BY <1>2, <1>3, <1>4
<1> QED
  BY <1>5 DEF NodesPlaced, Placed

\* Nodes X leave the hands of thread t for list K.
LEMMA MovedToList ==
    ASSUME IInv, NEW t \in Threads, NEW K \in Lists, NEW X \in SUBSET ToSet(own[t]),
           fresh' = fresh,
           ToSet(chain'[K]) = ToSet(chain[K]) \cup X,
           \A L \in Lists \ {K} : chain'[L] = chain[L],
           ToSet(own'[t]) = ToSet(own[t]) \ X,
           \A u \in Threads \ {t} : own'[u] = own[u]
    PROVE  NodesPlaced'
<1> DEFINE F == fresh
           C == [L \in Lists |-> ToSet(chain[L])]
           O == [u \in Threads |-> ToSet(own[u])]
           D == [C EXCEPT ![K] = @ \cup X]
           P == [O EXCEPT ![t] = @ \ X]
<1>1. /\ C \in [Lists -> SUBSET Nodes] /\ O \in [Threads -> SUBSET Nodes] /\ Placed(F, C, O)
      /\ X \in SUBSET O[t]
  <2>1. \A u \in Threads : ToSet(own[u]) \subseteq Nodes
    BY Elements DEF IInv, TypeOK
  <2>2. \A L \in Lists : ToSet(chain[L]) \subseteq Nodes
    BY Elements DEF IInv, TypeOK
  <2> QED
    BY <2>1, <2>2 DEF IInv, NodesPlaced
<1>2. Placed(F, D, P)
  <2> HIDE DEF O, C, F
  <2> QED
    BY <1>1, PlacedToList
<1>3. P = [u \in Threads |-> ToSet(own'[u])]
  OBVIOUS
<1>4. D = [L \in Lists |-> ToSet(chain'[L])]
  OBVIOUS
<1>5. Placed(fresh', [L \in Lists |-> ToSet(chain'[L])], [u \in Threads |-> ToSet(own'[u])])
  <2> HIDE DEF D, P
  <2> QED
    BY <1>2, <1>3, <1>4
<1> QED
  BY <1>5 DEF NodesPlaced, Placed

\* A compare-and-swap that removes succeeds only with the node that is first in the list and
\* the link it still has: nothing was removed since the head was read, for its tag is the same.
LEMMA CasHead ==
    ASSUME IInv, NEW t \in Threads, pc[t] \in {"alloc_cas", "pop_cas"},
           top[ListOf(pc[t])] = old[t]
    PROVE  LET s == chain[ListOf(pc[t])]
           IN  /\ s \in Seq(Nodes) /\ s # <<>> /\ IsInjective(s)
               /\ old[t].ptr = Head(s) /\ old[t].ptr \in Nodes
               /\ Path(next, Tail(s), NULL) /\ next[Head(s)] = First(Tail(s), NULL)
               /\ nxt[t] = IF call[t].kind = "all" THEN NULL ELSE First(Tail(s), NULL)
<1> DEFINE L == ListOf(pc[t])
           s == chain[L]
<1>1. L \in Lists /\ TypeOK /\ ChainsSound /\ CopySound(t) /\ pc[t] \in Removing
  BY DEF ListOf, Lists, IInv, Removing
<1>2. /\ s \in Seq(Nodes) /\ IsInjective(s) /\ top[L].ptr = First(s, NULL) /\ Path(next, s, NULL)
      /\ top[L] \in Handle /\ top[L] = old[t] /\ old[t].tag \in 0 .. (TagMod - 1)
  BY <1>1 DEF TypeOK, ChainsSound, Handle
<1>3. age[t] = 0 /\ old[t].ptr # NULL
  BY <1>1, <1>2 DEF CopySound, Ahead
<1>4. nxt[t] = IF call[t].kind = "all" THEN NULL ELSE next[old[t].ptr]
  BY <1>1, <1>3 DEF CopySound
<1> HIDE DEF L, s
<1>5. s # <<>> /\ old[t].ptr = s[1]
  BY <1>2, <1>3 DEF First
<1>6. Path(next, Tail(s), NULL) /\ next[s[1]] = First(Tail(s), NULL)
  BY <1>2, <1>5, PathTail
<1>7. Head(s) = s[1] /\ s[1] \in Nodes
  <2>1. Len(s) \in Nat /\ Len(s) # 0
    BY <1>2, <1>5, LenProperties, EmptySeq
  <2> QED
    BY <1>2, <2>1
<1> QED
  BY <1>2, <1>4, <1>5, <1>6, <1>7 DEF L, s

\* Such a removal leaves both lists intact and makes every other copy of the head older.
LEMMA RemovalStep ==
    ASSUME IInv, TypeOK', NEW t \in Threads, pc[t] \in {"alloc_cas", "pop_cas"},
           Cas(t, [ptr |-> nxt[t], tag |-> get_next_tag(old[t])]), Aging(t), next' = next,
           chain' = [chain EXCEPT ![ListOf(pc[t])] =
                        IF call[t].kind = "all" THEN <<>> ELSE Tail(chain[ListOf(pc[t])])],
           \A u \in Threads \ {t} :
              /\ pc'[u] = pc[u] /\ call'[u] = call[u] /\ own'[u] = own[u] /\ cur'[u] = cur[u]
              /\ nxt'[u] = nxt[u] /\ old'[u] = old[u]
    PROVE  /\ ChainsSound'
           /\ \A u \in Threads \ {t} : CallSound(u)' /\ OwnSound(u)' /\ CopySound(u)'
<1> DEFINE L == ListOf(pc[t])
           s == chain[L]
           left == IF call[t].kind = "all" THEN <<>> ELSE Tail(s)
           h == [ptr |-> nxt[t], tag |-> get_next_tag(old[t])]
<1>1. L \in Lists /\ TypeOK /\ ChainsSound
  BY DEF ListOf, Lists, IInv
<1>2. top[L] = old[t] /\ top' = [top EXCEPT ![L] = h]
  BY DEF Cas
<1>3. /\ s \in Seq(Nodes) /\ s # <<>> /\ IsInjective(s)
      /\ Path(next, Tail(s), NULL)
      /\ nxt[t] = IF call[t].kind = "all" THEN NULL ELSE First(Tail(s), NULL)
  BY <1>2, CasHead
<1>4. /\ chain' = [chain EXCEPT ![L] = left]
      /\ chain'[L] = left /\ \A K \in Lists \ {L} : chain'[K] = chain[K]
  BY <1>1 DEF TypeOK
<1>5. /\ top'[L] = h /\ h.ptr = nxt[t] /\ h.tag = get_next_tag(top[L])
      /\ \A K \in Lists \ {L} : top'[K] = top[K]
  BY <1>1, <1>2 DEF TypeOK
<1> HIDE DEF L, h
<1>6. IsInjective(left) /\ nxt[t] = First(left, NULL) /\ Path(next, left, NULL)
  <2>1. CASE call[t].kind = "all"
    <3>1. left = <<>> /\ 1 .. Len(left) = {}
      BY <2>1
    <3>2. IsInjective(left)
      BY <3>1, EmptyList
    <3> QED
      BY <1>3, <2>1, <3>1, <3>2 DEF First, Path
  <2>2. CASE call[t].kind # "all"
    <3>1. left = Tail(s)
      BY <2>2
    <3>2. IsInjective(Tail(s))
      BY <1>3, PopOne
    <3> QED
      BY <1>3, <2>2, <3>1, <3>2
  <2> QED
    BY <2>1, <2>2
<1> HIDE DEF left, s
<1>7. ChainsSound'
  <2> SUFFICES ASSUME NEW K \in Lists
               PROVE  /\ IsInjective(chain'[K])
                      /\ top'[K].ptr = First(chain'[K], NULL)
                      /\ Path(next', chain'[K], NULL)
    BY DEF ChainsSound
  <2>1. CASE K = L
    BY <1>4, <1>5, <1>6, <2>1
  <2>2. CASE K # L
    BY <1>1, <1>4, <1>5, <2>2 DEF ChainsSound
  <2> QED
    BY <2>1, <2>2
<1>8. ASSUME NEW u \in Threads, u # t PROVE CallSound(u)' /\ OwnSound(u)' /\ CopySound(u)'
  <2>1. /\ pc'[u] = pc[u] /\ call'[u] = call[u] /\ own'[u] = own[u] /\ cur'[u] = cur[u]
        /\ nxt'[u] = nxt[u] /\ old'[u] = old[u]
        /\ \A m \in Nodes \ ToSet(own[t]) : next'[m] = next[m]
    BY <1>8
  <2>2. CallSound(u)' /\ OwnSound(u)'
    BY <1>8, <2>1, OthersKeep
  <2>3. ListOf(pc[u]) \in Lists
    BY DEF ListOf, Lists
  <2>4. CASE ListOf(pc[u]) = L
    <3>1. pc[u] \in Removing => age[u] + 1 < TagMod /\ age'[u] = age[u] + 1
      BY <1>8, <2>4 DEF Aging, L
    <3>2. top'[ListOf(pc[u])].tag = get_next_tag(top[ListOf(pc[u])])
      BY <1>5, <2>4
    <3> QED
      BY <1>8, <2>1, <2>2, <3>1, <3>2, CopiesKeep
  <2>5. CASE ListOf(pc[u]) # L
    <3>1. age'[u] = age[u]
      BY <1>8, <2>5 DEF Aging, L
    <3>2. /\ top'[ListOf(pc[u])].tag = top[ListOf(pc[u])].tag
          /\ ToSet(chain[ListOf(pc[u])]) \subseteq ToSet(chain'[ListOf(pc[u])])
      BY <1>4, <1>5, <2>3, <2>5
    <3> QED
      BY <1>8, <2>1, <2>2, <3>1, <3>2, CopiesKeep
  <2> QED
    BY <2>4, <2>5
<1> QED
  BY <1>7, <1>8

\* The types of what every such removal changes
LEMMA RemovalTypes ==
    ASSUME IInv, NEW t \in Threads, pc[t] \in {"alloc_cas", "pop_cas"},
           Cas(t, [ptr |-> nxt[t], tag |-> get_next_tag(old[t])]), Aging(t)
    PROVE  top' \in [Lists -> Handle] /\ age' \in [Threads -> 0 .. (TagMod - 1)]
<1>1. TypeOK /\ TagMod \in Nat \ {0}
  BY StackAssumption DEF IInv
<1>2. /\ old[t].tag \in 0 .. (TagMod - 1) /\ nxt[t] \in Nodes \cup {NULL}
      /\ top \in [Lists -> Handle] /\ age \in [Threads -> 0 .. (TagMod - 1)]
  BY <1>1 DEF TypeOK, Handle
<1>3. get_next_tag(old[t]) \in 0 .. (TagMod - 1)
  BY <1>1, <1>2 DEF get_next_tag
<1>4. [ptr |-> nxt[t], tag |-> get_next_tag(old[t])] \in Handle
  BY <1>2, <1>3 DEF Handle
<1>5. top' \in [Lists -> Handle]
  BY <1>2, <1>4 DEF Cas
<1>6. age' \in [Threads -> 0 .. (TagMod - 1)]
  <2> DEFINE Holders == {u \in Threads \ {t} : pc[u] \in Removing /\ ListOf(pc[u]) = ListOf(pc[t])}
  <2>1. /\ \A u \in Holders : age[u] + 1 < TagMod
        /\ age' = [u \in Threads |-> IF u \in Holders THEN age[u] + 1
                                     ELSE IF u = t THEN 0 ELSE age[u]]
    BY DEF Aging
  <2> HIDE DEF Holders
  <2>2. \A u \in Threads : (IF u \in Holders THEN age[u] + 1 ELSE IF u = t THEN 0 ELSE age[u])
                              \in 0 .. (TagMod - 1)
    BY <1>1, <1>2, <2>1
  <2> QED
    BY <2>1, <2>2
<1> QED
  BY <1>5, <1>6

\* A node leaves the pool.
LEMMA AllocCasStep ==
    ASSUME IInv, NEW t \in Threads, AllocCas(t)
    PROVE  IInv'
<1> DEFINE s == chain["pool"]
           n == old[t].ptr
<1>1. /\ pc[t] = "alloc_cas"
      /\ Cas(t, [ptr |-> nxt[t], tag |-> get_next_tag(old[t])]) /\ Aging(t)
      /\ chain' = [chain EXCEPT !["pool"] = Tail(s)]
      /\ own' = [own EXCEPT ![t] = <<n>> \o own[t]]
      /\ cur' = [cur EXCEPT ![t] = n] /\ Leave(t, "construct")
      /\ UNCHANGED <<next, val, fresh, call>>
  BY DEF AllocCas
<1>2. ListOf(pc[t]) = "pool" /\ "pool" \in Lists
  BY <1>1 DEF ListOf, InPool, Lists
<1>3. TypeOK /\ CallSound(t) /\ "construct" \in PC
  BY DEF IInv, PC
<1>4. /\ s \in Seq(Nodes) /\ s # <<>> /\ IsInjective(s) /\ n = Head(s) /\ n \in Nodes
  BY <1>1, <1>2, CasHead DEF Cas
<1>5. /\ n \in Nodes /\ Tail(s) \in Seq(Nodes) /\ ToSet(s) = ToSet(Tail(s)) \cup {n}
      /\ n \notin ToSet(Tail(s))
  BY <1>4, PopOne
<1>6. call[t].kind # "all"
  BY <1>1, <1>3 DEF CallSound
<1> HIDE DEF n
<1>7. /\ pc' \in [Threads -> PC] /\ pc'[t] = "construct"
      /\ old' \in [Threads -> Handle]
      /\ nxt' \in [Threads -> Nodes \cup {NULL}]
      /\ \A u \in Threads \ {t} : pc'[u] = pc[u] /\ old'[u] = old[u] /\ nxt'[u] = nxt[u]
  BY <1>1, <1>3, LeaveStep
<1>8. /\ cur' \in [Threads -> Nodes \cup {NULL}] /\ cur'[t] = n
      /\ own'[t] = <<n>> \o own[t]
      /\ chain'["pool"] = Tail(s) /\ \A L \in Lists \ {"pool"} : chain'[L] = chain[L]
      /\ \A u \in Threads \ {t} : cur'[u] = cur[u] /\ own'[u] = own[u]
  BY <1>1, <1>2, <1>3, <1>5 DEF TypeOK
<1>9. n \notin ToSet(own[t])
  BY <1>2, <1>5 DEF IInv, NodesPlaced, Placed
<1>10. /\ OwnSound(t)' /\ CallSound(t)' /\ CopySound(t)'
       /\ ToSet(own'[t]) = ToSet(own[t]) \cup {n} /\ own'[t] \in Seq(Nodes)
  BY <1>1, <1>5, <1>7, <1>8, <1>9, OwnMore
<1>11. top' \in [Lists -> Handle] /\ age' \in [Threads -> 0 .. (TagMod - 1)]
  BY <1>1, RemovalTypes
<1>12. TypeOK'
  BY <1>1, <1>2, <1>3, <1>5, <1>7, <1>8, <1>10, <1>11 DEF TypeOK
<1>13. NodesPlaced'
  <2> DEFINE X == {n}
  <2>1. X \in SUBSET ToSet(s) /\ ToSet(chain'["pool"]) = ToSet(s) \ X
        /\ ToSet(own'[t]) = ToSet(own[t]) \cup X
    BY <1>5, <1>8, <1>10
  <2> HIDE DEF X
  <2> QED
    BY <1>1, <1>2, <1>8, <2>1, MovedFromList
<1>14. /\ ChainsSound'
       /\ \A u \in Threads \ {t} : CallSound(u)' /\ OwnSound(u)' /\ CopySound(u)'
  <2>1. chain' = [chain EXCEPT ![ListOf(pc[t])] =
                        IF call[t].kind = "all" THEN <<>> ELSE Tail(chain[ListOf(pc[t])])]
    BY <1>1, <1>2, <1>6
  <2>2. next' = next /\ call' = call
    BY <1>1
  <2> QED
    BY <1>1, <1>7, <1>8, <1>12, <2>1, <2>2, RemovalStep
<1> QED
  BY <1>10, <1>12, <1>13, <1>14 DEF IInv

\* One node or all of them leave the stack.
LEMMA PopCasStep ==
    ASSUME IInv, NEW t \in Threads, PopCas(t)
    PROVE  IInv'
<1> DEFINE s == chain["tos"]
           taken == IF call[t].kind = "pop" THEN <<Head(s)>> ELSE s
           left == IF call[t].kind = "pop" THEN Tail(s) ELSE <<>>
           n == old[t].ptr
<1>1. /\ pc[t] = "pop_cas"
      /\ Cas(t, [ptr |-> nxt[t], tag |-> get_next_tag(old[t])]) /\ Aging(t)
      /\ chain' = [chain EXCEPT !["tos"] = left]
      /\ own' = [own EXCEPT ![t] = taken]
      /\ cur' = [cur EXCEPT ![t] = n] /\ Leave(t, "consume")
      /\ UNCHANGED <<next, val, fresh, call>>
  BY DEF PopCas
<1>2. ListOf(pc[t]) = "tos" /\ "tos" \in Lists
  BY <1>1 DEF ListOf, InPool, Lists
<1>3. TypeOK /\ CallSound(t) /\ OwnSound(t) /\ "consume" \in PC
  BY DEF IInv, PC
<1>4. /\ s \in Seq(Nodes) /\ s # <<>> /\ IsInjective(s) /\ n = Head(s) /\ n \in Nodes
      /\ Path(next, Tail(s), NULL) /\ next[n] = First(Tail(s), NULL)
  BY <1>1, <1>2, CasHead DEF Cas
<1>5. /\ Tail(s) \in Seq(Nodes) /\ ToSet(s) = ToSet(Tail(s)) \cup {n} /\ n \notin ToSet(Tail(s))
  BY <1>4, PopOne
<1>6. call[t].kind \in {"pop", "all"} /\ own[t] = <<>>
  BY <1>1, <1>3 DEF CallSound, OwnSound
<1>7. /\ taken \in Seq(Nodes) /\ left \in Seq(Nodes) /\ IsInjective(taken)
      /\ taken # <<>> /\ taken[1] = n
      /\ ToSet(taken) \subseteq ToSet(s) /\ ToSet(left) = ToSet(s) \ ToSet(taken)
      /\ Path(next, Tail(taken), NULL)
      /\ call[t].kind = "pop" => Tail(taken) = <<>>
      /\ call[t].kind = "all" => next[n] = First(Tail(taken), NULL)
  <2>1. CASE call[t].kind = "pop"
    <3>1. taken = <<n>> /\ left = Tail(s)
      BY <1>4, <2>1
    <3>2. <<n>> \in Seq(Nodes) /\ ToSet(<<n>>) = {n} /\ IsInjective(<<n>>)
      BY <1>4, OneElement
    <3>3. <<n>> # <<>> /\ <<n>>[1] = n /\ Tail(<<n>>) = <<>> /\ 1 .. Len(<<>>) = {}
      BY <1>4
    <3>4. Path(next, <<>>, NULL)
      BY <3>3 DEF Path
    <3> HIDE DEF taken, left, s, n
    <3> QED
      BY <1>5, <2>1, <3>1, <3>2, <3>3, <3>4
  <2>2. CASE call[t].kind = "all"
    <3>1. taken = s /\ left = <<>>
      BY <2>2
    <3>2. <<>> \in Seq(Nodes) /\ ToSet(<<>>) = {}
      BY EmptyList
    <3>3. s[1] = n
      <4>1. Len(s) \in Nat /\ Len(s) # 0
        BY <1>4, LenProperties, EmptySeq
      <4> QED
        BY <1>4
    <3> HIDE DEF taken, left, s, n
    <3> QED
      BY <1>4, <2>2, <3>1, <3>2, <3>3
  <2> QED
    BY <1>6, <2>1, <2>2
<1>8. left = IF call[t].kind = "all" THEN <<>> ELSE Tail(s)
  BY <1>6
<1> HIDE DEF n, taken, left
<1>9. /\ pc' \in [Threads -> PC] /\ pc'[t] = "consume"
      /\ old' \in [Threads -> Handle]
      /\ nxt' \in [Threads -> Nodes \cup {NULL}]
      /\ \A u \in Threads \ {t} : pc'[u] = pc[u] /\ old'[u] = old[u] /\ nxt'[u] = nxt[u]
  BY <1>1, <1>3, LeaveStep
<1>10. /\ cur' \in [Threads -> Nodes \cup {NULL}] /\ cur'[t] = n
       /\ own' \in [Threads -> Seq(Nodes)] /\ own'[t] = taken
       /\ chain' \in [Lists -> Seq(Nodes)] /\ chain'["tos"] = left
       /\ \A L \in Lists \ {"tos"} : chain'[L] = chain[L]
       /\ \A u \in Threads \ {t} : cur'[u] = cur[u] /\ own'[u] = own[u]
  BY <1>1, <1>2, <1>3, <1>4, <1>7 DEF TypeOK
<1>11. top' \in [Lists -> Handle] /\ age' \in [Threads -> 0 .. (TagMod - 1)]
  BY <1>1, RemovalTypes
<1>12. TypeOK'
  BY <1>1, <1>3, <1>9, <1>10, <1>11 DEF TypeOK
<1>13. NodesPlaced'
  <2> DEFINE X == ToSet(taken)
  <2>1. X \in SUBSET ToSet(s) /\ ToSet(chain'["tos"]) = ToSet(s) \ X
    BY <1>7, <1>10
  <2>2. ToSet(own'[t]) = ToSet(own[t]) \cup X
    <3>1. ToSet(own[t]) = {}
      BY <1>6, EmptyList
    <3> QED
      BY <1>10, <3>1
  <2> HIDE DEF X
  <2> QED
    BY <1>1, <1>2, <1>10, <2>1, <2>2, MovedFromList
<1>14. /\ ChainsSound'
       /\ \A u \in Threads \ {t} : CallSound(u)' /\ OwnSound(u)' /\ CopySound(u)'
  <2>1. chain' = [chain EXCEPT ![ListOf(pc[t])] =
                        IF call[t].kind = "all" THEN <<>> ELSE Tail(chain[ListOf(pc[t])])]
    BY <1>1, <1>2, <1>8
  <2>2. next' = next /\ call' = call
    BY <1>1
  <2> QED
    BY <1>1, <1>9, <1>10, <1>12, <2>1, <2>2, RemovalStep
<1>15. CallSound(t)' /\ CopySound(t)'
  BY <1>1, <1>3, <1>6, <1>9 DEF CallSound, CopySound, Removing, Freeing
<1>16. OwnSound(t)'
  BY <1>1, <1>6, <1>7, <1>9, <1>10 DEF OwnSound, Freeing, Idle
<1> QED
  BY <1>12, <1>13, <1>14, <1>15, <1>16 DEF IInv

\* A thread that links nodes of its own in front of a list leaves both lists intact and every
\* other copy of the head as it was.
LEMMA InsertionStep ==
    ASSUME IInv, TypeOK', NEW t \in Threads, NEW K \in Lists, NEW s \in Seq(Nodes), s # <<>>,
           IsInjective(s), ToSet(s) \subseteq ToSet(own[t]), Path(next, s, top[K].ptr),
           top' = [top EXCEPT ![K] = [ptr |-> s[1], tag |-> top[K].tag]],
           chain' = [chain EXCEPT ![K] = s \o chain[K]],
           next' = next, fresh' = fresh,
           ToSet(own'[t]) = ToSet(own[t]) \ ToSet(s),
           \A u \in Threads \ {t} :
              /\ pc'[u] = pc[u] /\ call'[u] = call[u] /\ own'[u] = own[u] /\ cur'[u] = cur[u]
              /\ nxt'[u] = nxt[u] /\ old'[u] = old[u] /\ age'[u] = age[u]
    PROVE  /\ ChainsSound' /\ NodesPlaced'
           /\ \A u \in Threads \ {t} : CallSound(u)' /\ OwnSound(u)' /\ CopySound(u)'
<1> DEFINE c == chain[K]
           h == [ptr |-> s[1], tag |-> top[K].tag]
<1>1. TypeOK /\ ChainsSound
  BY DEF IInv
<1>2. /\ c \in Seq(Nodes) /\ IsInjective(c) /\ top[K].ptr = First(c, NULL) /\ Path(next, c, NULL)
  BY <1>1 DEF TypeOK, ChainsSound
<1>3. /\ top'[K] = h /\ h.ptr = s[1] /\ h.tag = top[K].tag
      /\ \A L \in Lists \ {K} : top'[L] = top[L]
      /\ chain'[K] = s \o c /\ \A L \in Lists \ {K} : chain'[L] = chain[L]
  BY <1>1 DEF TypeOK
<1> HIDE DEF h, c
<1>4. ToSet(s) \cap ToSet(c) = {}
  BY DEF IInv, NodesPlaced, Placed, c
<1>5. ToSet(s \o c) = ToSet(c) \cup ToSet(s) /\ IsInjective(s \o c)
  BY <1>2, <1>4, TwoLists
<1>6. Path(next, s \o c, NULL) /\ First(s \o c, NULL) = s[1]
  <2>1. Path(next, s, First(c, NULL))
    BY <1>2
  <2>2. Path(next, s \o c, NULL) /\ First(s \o c, NULL) = First(s, First(c, NULL))
    BY <1>2, <2>1, PathConcat
  <2> QED
    BY <2>2 DEF First
<1>7. ChainsSound'
  <2> SUFFICES ASSUME NEW L \in Lists
               PROVE  /\ IsInjective(chain'[L])
                      /\ top'[L].ptr = First(chain'[L], NULL)
                      /\ Path(next', chain'[L], NULL)
    BY DEF ChainsSound
  <2>1. CASE L = K
    BY <1>3, <1>5, <1>6, <2>1
  <2>2. CASE L # K
    BY <1>1, <1>3, <2>2 DEF ChainsSound
  <2> QED
    BY <2>1, <2>2
<1>8. NodesPlaced'
  <2> DEFINE X == ToSet(s)
  <2>1. /\ X \in SUBSET ToSet(own[t]) /\ ToSet(chain'[K]) = ToSet(chain[K]) \cup X
        /\ ToSet(own'[t]) = ToSet(own[t]) \ X
    BY <1>3, <1>5 DEF c
  <2>2. /\ fresh' = fresh /\ \A L \in Lists \ {K} : chain'[L] = chain[L]
        /\ \A u \in Threads \ {t} : own'[u] = own[u]
    BY <1>3
  <2> HIDE DEF X
  <2> QED
    BY <2>1, <2>2, MovedToList, Zenon
<1>9. ASSUME NEW u \in Threads, u # t PROVE CallSound(u)' /\ OwnSound(u)' /\ CopySound(u)'
  <2>1. /\ pc'[u] = pc[u] /\ call'[u] = call[u] /\ own'[u] = own[u] /\ cur'[u] = cur[u]
        /\ nxt'[u] = nxt[u] /\ old'[u] = old[u] /\ age'[u] = age[u]
        /\ \A m \in Nodes \ ToSet(own[t]) : next'[m] = next[m]
    BY <1>9
  <2>2. ListOf(pc[u]) \in Lists
    BY DEF ListOf, Lists
  <2>3. /\ top'[ListOf(pc[u])].tag = top[ListOf(pc[u])].tag
        /\ ToSet(chain[ListOf(pc[u])]) \subseteq ToSet(chain'[ListOf(pc[u])])
    BY <1>3, <1>5, <2>2 DEF c
  <2>4. CallSound(u)' /\ OwnSound(u)'
    BY <1>9, <2>1, OthersKeep
  <2>5. CopySound(u)'
    BY <1>9, <2>1, <2>3, CopiesKeep
  <2> QED
    BY <2>4, <2>5
<1> QED
  BY <1>7, <1>8, <1>9

\* The prepared nodes are pushed.
LEMMA LinkCasStep ==
    ASSUME IInv, NEW t \in Threads, LinkCas(t)
    PROVE  IInv'
<1> DEFINE s == own[t]
           h == [ptr |-> s[1], tag |-> top["tos"].tag]
<1>1. TypeOK /\ CallSound(t) /\ OwnSound(t) /\ "ret" \in PC /\ "tos" \in Lists
  BY DEF IInv, PC, Idle, Lists
<1>2. /\ pc[t] = "link_cas" /\ top["tos"] = old[t]
      /\ top' = [top EXCEPT !["tos"] = h]
      /\ chain' = [chain EXCEPT !["tos"] = s \o chain["tos"]]
      /\ own' = [own EXCEPT ![t] = <<>>] /\ Leave(t, "ret")
      /\ UNCHANGED <<next, val, fresh, call, cur, age>>
  <2>1. ListOf("link_cas") = "tos"
    BY DEF ListOf, InPool
  <2> QED
    BY <2>1 DEF LinkCas, Cas
<1>3. /\ s \in Seq(Nodes) /\ s # <<>> /\ IsInjective(s) /\ Path(next, s, old[t].ptr)
  BY <1>1, <1>2 DEF OwnSound, TypeOK
<1>4. s[1] \in Nodes
  <2>1. Len(s) \in Nat /\ Len(s) # 0
    BY <1>3, LenProperties, EmptySeq
  <2> QED
    BY <1>3, <2>1
<1>5. h \in Handle
  BY <1>1, <1>4 DEF TypeOK, Handle
<1>6. /\ pc' \in [Threads -> PC] /\ pc'[t] = "ret"
      /\ old' \in [Threads -> Handle]
      /\ nxt' \in [Threads -> Nodes \cup {NULL}]
      /\ \A u \in Threads \ {t} : pc'[u] = pc[u] /\ old'[u] = old[u] /\ nxt'[u] = nxt[u]
  BY <1>1, <1>2, LeaveStep
<1>7. <<>> \in Seq(Nodes) /\ ToSet(<<>>) = {} /\ IsInjective(<<>>)
  BY EmptyList
<1>8. /\ own' \in [Threads -> Seq(Nodes)] /\ own'[t] = <<>>
      /\ \A u \in Threads \ {t} : own'[u] = own[u]
  BY <1>1, <1>2, <1>7 DEF TypeOK
<1>9. chain' \in [Lists -> Seq(Nodes)] /\ top' \in [Lists -> Handle]
  <2>1. s \o chain["tos"] \in Seq(Nodes)
    BY <1>1, <1>3, TwoLists DEF TypeOK
  <2> HIDE DEF h
  <2> QED
    BY <1>1, <1>2, <1>5, <2>1 DEF TypeOK
<1>10. TypeOK'
  BY <1>1, <1>2, <1>6, <1>8, <1>9 DEF TypeOK
<1>11. ToSet(own'[t]) = ToSet(own[t]) \ ToSet(s) /\ ToSet(s) \subseteq ToSet(own[t])
  BY <1>7, <1>8
<1>12. /\ ChainsSound' /\ NodesPlaced'
       /\ \A u \in Threads \ {t} : CallSound(u)' /\ OwnSound(u)' /\ CopySound(u)'
  <2>1. \A u \in Threads \ {t} :
           /\ pc'[u] = pc[u] /\ call'[u] = call[u] /\ own'[u] = own[u] /\ cur'[u] = cur[u]
           /\ nxt'[u] = nxt[u] /\ old'[u] = old[u] /\ age'[u] = age[u]
    BY <1>2, <1>6, <1>8
  <2>2. Path(next, s, top["tos"].ptr)
    BY <1>2, <1>3
  <2>3. next' = next /\ fresh' = fresh
    BY <1>2
  <2> HIDE DEF s
  <2> QED
    BY <1>1, <1>2, <1>3, <1>10, <1>11, <2>1, <2>2, <2>3, InsertionStep
<1>13. CallSound(t)' /\ CopySound(t)'
  BY <1>1, <1>2, <1>6 DEF CallSound, CopySound, Removing, Freeing
<1>14. OwnSound(t)'
  BY <1>6, <1>7, <1>8 DEF OwnSound, Freeing, Idle
<1> QED
  BY <1>10, <1>12, <1>13, <1>14 DEF IInv

\* A node is back in the pool.
LEMMA FreeCasStep ==
    ASSUME IInv, NEW t \in Threads, FreeCas(t)
    PROVE  IInv'
<1> DEFINE n == cur[t]
           s == <<n>>
           rest == Tail(own[t])
           after == IF nxt[t] = NULL THEN "ret"
                    ELSE IF call[t].kind = "range" THEN "unwind" ELSE "consume"
           h == [ptr |-> s[1], tag |-> top["pool"].tag]
<1>1. TypeOK /\ CallSound(t) /\ OwnSound(t) /\ "pool" \in Lists
  BY DEF IInv, Lists
<1>2. /\ pc[t] = "free_cas" /\ top["pool"] = old[t]
      /\ top' = [top EXCEPT !["pool"] = h]
      /\ chain' = [chain EXCEPT !["pool"] = s \o chain["pool"]]
      /\ own' = [own EXCEPT ![t] = rest] /\ Leave(t, after) /\ cur' = [cur EXCEPT ![t] = nxt[t]]
      /\ UNCHANGED <<next, val, fresh, call, age>>
  <2>1. ListOf("free_cas") = "pool"
    BY DEF ListOf, InPool
  <2>2. <<cur[t]>>[1] = cur[t]
    OBVIOUS
  <2> QED
    BY <2>1, <2>2 DEF FreeCas, Cas
<1>3. /\ own[t] \in Seq(Nodes) /\ own[t] # <<>> /\ IsInjective(own[t]) /\ n = own[t][1]
      /\ Path(next, rest, NULL) /\ next[n] = old[t].ptr /\ nxt[t] = First(rest, NULL)
      /\ nxt[t] \in Nodes \cup {NULL}
      /\ call[t].kind \in {"range", "pop", "all"}
      /\ call[t].kind = "pop" => rest = <<>>
  BY <1>1, <1>2 DEF OwnSound, TypeOK, Freeing, CallSound
<1>4. /\ n \in Nodes /\ rest \in Seq(Nodes) /\ ToSet(own[t]) = ToSet(rest) \cup {n}
      /\ n \notin ToSet(rest) /\ IsInjective(rest)
  <2>1. n = Head(own[t])
    BY <1>3
  <2> QED
    BY <1>3, <2>1, PopOne
<1>5. rest # <<>> => /\ rest[1] \in Nodes /\ nxt[t] = rest[1]
                     /\ Path(next, Tail(rest), NULL) /\ next[rest[1]] = First(Tail(rest), NULL)
  <2> HAVE rest # <<>>
  <2> HIDE DEF rest
  <2>1. Len(rest) \in Nat /\ Len(rest) # 0
    BY <1>4, LenProperties, EmptySeq
  <2>2. Path(next, Tail(rest), NULL) /\ next[rest[1]] = First(Tail(rest), NULL)
    BY <1>3, <1>4, PathTail
  <2> QED
    BY <1>3, <1>4, <2>1, <2>2 DEF First
<1>6. rest = <<>> <=> nxt[t] = NULL
  BY <1>3, <1>5, StackAssumption DEF First
<1>7. /\ after \in PC /\ after \in {"ret", "unwind", "consume"} /\ (after = "ret" <=> rest = <<>>)
      /\ (after = "unwind" => call[t].kind = "range")
      /\ (after = "consume" => call[t].kind = "all")
  BY <1>3, <1>6 DEF PC, Idle
<1>8. s \in Seq(Nodes) /\ s # <<>> /\ s[1] = n /\ ToSet(s) = {n} /\ IsInjective(s)
  BY <1>4, OneElement
<1>9. Path(next, s, top["pool"].ptr)
  <2>1. Len(s) = 1
    OBVIOUS
  <2> HIDE DEF s
  <2> QED
    BY <1>2, <1>3, <1>8, <2>1 DEF Path
<1> HIDE DEF n, s, rest, after
<1>10. h \in Handle
  BY <1>1, <1>4, <1>8 DEF TypeOK, Handle
<1>11. /\ pc' \in [Threads -> PC] /\ pc'[t] = after
       /\ old' \in [Threads -> Handle]
       /\ nxt' \in [Threads -> Nodes \cup {NULL}]
       /\ \A u \in Threads \ {t} : pc'[u] = pc[u] /\ old'[u] = old[u] /\ nxt'[u] = nxt[u]
  BY <1>1, <1>2, <1>7, LeaveStep
<1>12. /\ own' \in [Threads -> Seq(Nodes)] /\ own'[t] = rest
       /\ cur' \in [Threads -> Nodes \cup {NULL}] /\ cur'[t] = nxt[t]
       /\ \A u \in Threads \ {t} : own'[u] = own[u] /\ cur'[u] = cur[u]
  BY <1>1, <1>2, <1>3, <1>4 DEF TypeOK
<1>13. chain' \in [Lists -> Seq(Nodes)] /\ top' \in [Lists -> Handle]
  <2>1. s \o chain["pool"] \in Seq(Nodes)
    BY <1>1, <1>8, TwoLists DEF TypeOK
  <2> HIDE DEF h
  <2> QED
    BY <1>1, <1>2, <1>10, <2>1 DEF TypeOK
<1>14. TypeOK'
  BY <1>1, <1>2, <1>11, <1>12, <1>13 DEF TypeOK
<1>15. ToSet(own'[t]) = ToSet(own[t]) \ ToSet(s) /\ ToSet(s) \subseteq ToSet(own[t])
  BY <1>4, <1>8, <1>12
<1>16. /\ ChainsSound' /\ NodesPlaced'
       /\ \A u \in Threads \ {t} : CallSound(u)' /\ OwnSound(u)' /\ CopySound(u)'
  <2>1. \A u \in Threads \ {t} :
           /\ pc'[u] = pc[u] /\ call'[u] = call[u] /\ own'[u] = own[u] /\ cur'[u] = cur[u]
           /\ nxt'[u] = nxt[u] /\ old'[u] = old[u] /\ age'[u] = age[u]
    BY <1>2, <1>11, <1>12
  <2>2. next' = next /\ fresh' = fresh
    BY <1>2
  <2> QED
    BY <1>1, <1>2, <1>8, <1>9, <1>14, <1>15, <2>1, <2>2, InsertionStep
<1>17. CallSound(t)' /\ CopySound(t)'
  BY <1>1, <1>2, <1>3, <1>7, <1>11 DEF CallSound, CopySound, Removing, Freeing
<1>18. OwnSound(t)'
  BY <1>2, <1>4, <1>5, <1>7, <1>11, <1>12 DEF OwnSound, Freeing, Idle
<1> QED
  BY <1>14, <1>16, <1>17, <1>18 DEF IInv

----------------------------------------------------------------------------
(* The theorems *)

\* The constructor puts every node of PoolNodes in the pool.
LEMMA InitialPool ==
    ASSUME NEW s \in [1 .. Cardinality(PoolNodes) -> PoolNodes],
           \A i, j \in DOMAIN s : s[i] = s[j] => i = j
    PROVE  s \in Seq(Nodes) /\ IsInjective(s) /\ ToSet(s) = PoolNodes
<1>1. IsFiniteSet(PoolNodes) /\ Cardinality(PoolNodes) \in Nat
  BY StackAssumption, FS_Subset, FS_CardinalityType
<1> DEFINE n == Cardinality(PoolNodes)
<1>2. IsFiniteSet(1 .. n) /\ Cardinality(1 .. n) = n
  BY <1>1, FS_Interval
<1>3. s \in Injection(1 .. n, PoolNodes)
  BY DEF Injection, IsInjective
<1>4. s \in Surjection(1 .. n, PoolNodes)
  BY <1>1, <1>2, <1>3, FS_Injection
<1>5. ToSet(s) = PoolNodes
  BY <1>4 DEF Surjection, ToSet
<1>6. s \in Seq(Nodes)
  BY <1>1, StackAssumption
<1> QED
  BY <1>5, <1>6 DEF IsInjective

\* The invariant holds for the empty stack and the full pool.
LEMMA IInvInit == Init => IInv
<1> SUFFICES ASSUME Init PROVE IInv
  OBVIOUS
<1>1. PICK s \in [1 .. Cardinality(PoolNodes) -> PoolNodes] :
          /\ \A i, j \in DOMAIN s : s[i] = s[j] => i = j
          /\ chain = [L \in Lists |-> IF L = "pool" THEN s ELSE <<>>]
          /\ next \in [Nodes -> Nodes \cup {NULL}]
          /\ \A i \in DOMAIN s : next[s[i]] = IF i = Len(s) THEN NULL ELSE s[i + 1]
          /\ top = [L \in Lists |-> [ptr |-> IF L = "pool" /\ s # <<>> THEN s[1] ELSE NULL,
                                     tag |-> 0]]
  BY DEF Init
<1>2. s \in Seq(Nodes) /\ IsInjective(s) /\ ToSet(s) = PoolNodes
  BY <1>1, InitialPool
<1>3. PoolNodes \subseteq Nodes /\ 0 \in 0 .. (TagMod - 1)
  BY StackAssumption
<1>4. /\ val = [n \in Nodes |-> NULL] /\ fresh = Nodes \ PoolNodes
      /\ pc = [t \in Threads |-> "idle"] /\ call = [t \in Threads |-> NoCall]
      /\ old = [t \in Threads |-> NoHandle] /\ nxt = [t \in Threads |-> NULL]
      /\ cur = [t \in Threads |-> NULL] /\ age = [t \in Threads |-> 0]
      /\ own = [t \in Threads |-> <<>>]
  BY DEF Init
<1>5. s # <<>> => s[1] \in Nodes
  <2> SUFFICES ASSUME s # <<>> PROVE s[1] \in Nodes
    OBVIOUS
  <2>1. Len(s) \in Nat /\ Len(s) # 0
    BY <1>2, LenProperties, EmptySeq
  <2>2. 1 \in 1 .. Len(s)
    BY <2>1
  <2>3. ToSet(s) \subseteq Nodes /\ s[1] \in ToSet(s)
    BY <1>2, <2>2, Elements
  <2> QED
    BY <2>3
<1>6. <<>> \in Seq(Nodes) /\ ToSet(<<>>) = {} /\ IsInjective(<<>>) /\ 1 .. Len(<<>>) = {}
  BY EmptyList
<1>7. /\ chain["pool"] = s /\ chain["tos"] = <<>> /\ chain \in [Lists -> Seq(Nodes)]
      /\ top["pool"].ptr = First(s, NULL) /\ top["tos"].ptr = NULL
  BY <1>1, <1>2, <1>6 DEF Lists, First
<1>8. TypeOK
  <2>1. NoHandle \in Handle /\ NoCall \in CallType /\ "idle" \in PC
    BY <1>3, NewCallTypes DEF NoHandle, Handle, PC, Idle
  <2>2. top \in [Lists -> Handle]
    <3>1. \A L \in Lists : [ptr |-> IF L = "pool" /\ s # <<>> THEN s[1] ELSE NULL, tag |-> 0] \in Handle
      BY <1>3, <1>5 DEF Handle
    <3> QED
      BY <1>1, <3>1
  <2> QED
    BY <1>1, <1>3, <1>4, <1>6, <1>7, <2>1, <2>2 DEF TypeOK, CallType
<1>9. ChainsSound
  <2>1. DOMAIN s = 1 .. Len(s)
    BY <1>2
  <2>2. Path(next, s, NULL)
    BY <1>1, <2>1 DEF Path
  <2>3. Path(next, <<>>, NULL) /\ First(<<>>, NULL) = NULL
    BY <1>6 DEF Path, First
  <2> QED
    BY <1>2, <1>6, <1>7, <2>2, <2>3 DEF ChainsSound, Lists
<1>10. NodesPlaced
  <2>1. ToSet(chain["pool"]) = PoolNodes /\ ToSet(chain["tos"]) = {}
        /\ \A t \in Threads : ToSet(own[t]) = {}
    BY <1>2, <1>4, <1>6, <1>7
  <2>2. \A L \in Lists : L = "pool" \/ L = "tos"
    BY DEF Lists
  <2>3. "pool" \in Lists /\ "tos" \in Lists
    BY DEF Lists
  <2>4. \A L \in Lists : ToSet(chain[L]) \cap fresh = {}
    BY <1>4, <2>1, <2>2
  <2>5. \A n \in Nodes : n \in fresh \/ \E L \in Lists : n \in ToSet(chain[L])
    BY <1>4, <2>1, <2>3
  <2> QED
    BY <2>1, <2>3, <2>4, <2>5 DEF NodesPlaced, Placed
<1>11. ASSUME NEW t \in Threads PROVE CallSound(t) /\ OwnSound(t) /\ CopySound(t)
  <2>1. pc[t] = "idle" /\ own[t] = <<>> /\ call[t].kind = "none"
    BY <1>4 DEF NoCall
  <2> QED
    BY <1>6, <2>1 DEF CallSound, OwnSound, CopySound, Idle, Freeing, Removing
<1> QED
  BY <1>8, <1>9, <1>10, <1>11 DEF IInv

\* Every step preserves the invariant.
LEMMA IInvNext == IInv /\ [Next]_vars => IInv'
<1> SUFFICES ASSUME IInv, [Next]_vars PROVE IInv'
  OBVIOUS
<1>1. CASE Next
  <2>1. PICK t \in Threads : CallPush(t) \/ CallPop(t) \/ Step(t)
    BY <1>1 DEF Next
  <2>2. CASE CallPush(t)
    BY <2>2, CallPushStep
  <2>3. CASE CallPop(t)
    BY <2>3, CallPopStep
  <2>4. CASE Alloc(t)
    BY <2>4, LoadSteps, AllocFreshStep, AllocFailsStep, AllocThrowsStep, NextStep, AllocCasStep
       DEF Alloc
  <2>5. CASE Construct(t)
    BY <2>5, ConstructStep
  <2>6. CASE Link(t)
    BY <2>6, LoadSteps, LinkNextStep, LinkCasStep DEF Link
  <2>7. CASE PopOrAll(t)
    BY <2>7, LoadSteps, PopEmptyStep, NextStep, PopCasStep, ConsumeUnwindStep DEF PopOrAll
  <2>8. CASE Free(t)
    BY <2>8, LoadSteps, ConsumeUnwindStep, FreeNextStep, FreeCasStep DEF Free
  <2>9. CASE Return(t)
    BY <2>9, ReturnStep
  <2> QED
    BY <2>1, <2>2, <2>3, <2>4, <2>5, <2>6, <2>7, <2>8, <2>9 DEF Step
<1>2. CASE UNCHANGED vars
  <2>1. TypeOK'
    BY <1>2 DEF IInv, TypeOK, vars
  <2>2. ChainsSound' /\ NodesPlaced'
    BY <1>2 DEF IInv, ChainsSound, NodesPlaced, Placed, vars
  <2>3. ASSUME NEW t \in Threads PROVE CallSound(t)' /\ OwnSound(t)' /\ CopySound(t)'
    <3>1. CallSound(t) /\ OwnSound(t) /\ CopySound(t)
      BY DEF IInv
    <3>2. CallSound(t)'
      BY <1>2, <3>1 DEF CallSound, vars
    <3>3. OwnSound(t)'
      BY <1>2, <3>1 DEF OwnSound, vars
    <3>4. CopySound(t)'
      BY <1>2, <3>1 DEF CopySound, Ahead, vars
    <3> QED
      BY <3>2, <3>3, <3>4
  <2> QED
    BY <2>1, <2>2, <2>3 DEF IInv
<1> QED
  BY <1>1, <1>2

\* The invariant says what StackSound says.
LEMMA IInvStackSound == IInv => StackSound
<1> SUFFICES ASSUME IInv PROVE StackSound
  OBVIOUS
<1>1. TypeOK /\ ChainsSound /\ NodesPlaced
  BY DEF IInv
<1>2. ListsIntact
  <2> SUFFICES ASSUME NEW L \in Lists PROVE Linked(chain[L], top[L].ptr)
    BY DEF ListsIntact
  <2>1. /\ chain[L] \in Seq(Nodes) /\ IsInjective(chain[L]) /\ Path(next, chain[L], NULL)
        /\ top[L].ptr = First(chain[L], NULL)
    BY <1>1 DEF TypeOK, ChainsSound
  <2>2. DOMAIN chain[L] = 1 .. Len(chain[L])
    BY <2>1
  <2> QED
    BY <2>1, <2>2 DEF Linked, Path, First, IsInjective
<1>3. NoNodeLost
  <2>1. /\ \A L \in Lists : Held(chain[L]) = ToSet(chain[L]) /\ Held(chain[L]) \subseteq Nodes
        /\ \A t \in Threads : Held(own[t]) = ToSet(own[t]) /\ Held(own[t]) \subseteq Nodes
    <3>1. \A s : Held(s) = ToSet(s)
      BY DEF Held, ToSet
    <3>2. \A s \in Seq(Nodes) : ToSet(s) \subseteq Nodes
      BY Elements
    <3> QED
      BY <1>1, <3>1, <3>2 DEF TypeOK
  <2>2. \A n \in Nodes : \/ n \in fresh
                         \/ \E L \in Lists : n \in Held(chain[L])
                         \/ \E t \in Threads : n \in Held(own[t])
    BY <1>1, <2>1 DEF NodesPlaced, Placed
  <2>3. fresh \cup (UNION {Held(chain[L]) : L \in Lists}) \cup (UNION {Held(own[t]) : t \in Threads})
          = Nodes
    BY <1>1, <2>1, <2>2 DEF TypeOK
  <2>4. /\ Held(chain["tos"]) \cap Held(chain["pool"]) = {}
        /\ \A L \in Lists : Held(chain[L]) \cap fresh = {}
    <3>1. "tos" \in Lists /\ "pool" \in Lists
      BY DEF Lists
    <3> QED
      BY <1>1, <2>1, <3>1 DEF NodesPlaced, Placed
  <2>5. ASSUME NEW t \in Threads
        PROVE  /\ pc[t] \in Idle => own[t] = <<>>
               /\ Held(own[t]) \cap fresh = {}
               /\ \A L \in Lists : Held(own[t]) \cap Held(chain[L]) = {}
               /\ \A u \in Threads \ {t} : Held(own[t]) \cap Held(own[u]) = {}
    <3>1. OwnSound(t)
      BY DEF IInv
    <3>2. pc[t] \in Idle => own[t] = <<>>
      BY <3>1 DEF OwnSound
    <3> QED
      BY <1>1, <2>1, <3>2 DEF NodesPlaced, Placed
  <2> QED
    BY <2>3, <2>4, <2>5 DEF NoNodeLost
<1> QED
  BY <1>1, <1>2, <1>3 DEF StackSound

\* The inductive invariant holds in every state.
THEOREM StackInvariance == Spec => []IInv
  BY IInvInit, IInvNext, PTL DEF Spec

\* No compare-and-swap of stack.hpp or freelist.hpp with a head that was read long ago links a
\* node that left the list: both lists stay what their heads say, and no node is lost or in two
\* places, whatever fails or throws.
THEOREM StackSoundAlways == Spec => []StackSound
  BY StackInvariance, IInvStackSound, PTL

----------------------------------------------------------------------------
(* Elements *)

\* What the nodes may hold
Contents == [Nodes -> Values \cup {NULL}]

\* What f holds for the nodes of s: ValuesIn(s) when f is val
Read(f, s) == [i \in DOMAIN s |-> f[s[i]]]

\* The elements in a list of nodes
LEMMA ReadList ==
    ASSUME NEW f \in Contents, NEW s \in Seq(Nodes)
    PROVE  /\ Read(f, s) \in Seq(Values \cup {NULL}) /\ Len(Read(f, s)) = Len(s)
           /\ \A i \in 1 .. Len(s) : Read(f, s)[i] = f[s[i]]
<1>1. Len(s) \in Nat /\ DOMAIN s = 1 .. Len(s) /\ \A i \in 1 .. Len(s) : s[i] \in Nodes
  BY LenProperties
<1>2. Read(f, s) = [i \in 1 .. Len(s) |-> f[s[i]]]
  BY <1>1 DEF Read
<1>3. \A i \in 1 .. Len(s) : f[s[i]] \in Values \cup {NULL}
  BY <1>1 DEF Contents
<1> QED
  BY <1>1, <1>2, <1>3

\* Only the nodes of the list matter.
LEMMA ReadSame ==
    ASSUME NEW S, NEW s \in Seq(S), NEW f, NEW g, \A x \in ToSet(s) : g[x] = f[x]
    PROVE  Read(g, s) = Read(f, s)
<1>1. \A i \in DOMAIN s : g[s[i]] = f[s[i]]
  BY DEF ToSet
<1> QED
  BY <1>1 DEF Read

\* The elements in two lists of nodes, one after the other
LEMMA ReadConcat ==
    ASSUME NEW f \in Contents, NEW s \in Seq(Nodes), NEW t \in Seq(Nodes)
    PROVE  Read(f, s \o t) = Read(f, s) \o Read(f, t)
<1> DEFINE r == s \o t
           a == Read(f, s)
           b == Read(f, t)
           c == Read(f, r)
           d == a \o b
<1>1. /\ r \in Seq(Nodes) /\ Len(r) = Len(s) + Len(t) /\ Len(s) \in Nat /\ Len(t) \in Nat
      /\ \A i \in 1 .. Len(s) + Len(t) : r[i] = IF i <= Len(s) THEN s[i] ELSE t[i - Len(s)]
  BY ConcatProperties, LenProperties
<1> HIDE DEF r
<1>2. /\ a \in Seq(Values \cup {NULL}) /\ Len(a) = Len(s) /\ \A i \in 1 .. Len(s) : a[i] = f[s[i]]
      /\ b \in Seq(Values \cup {NULL}) /\ Len(b) = Len(t) /\ \A i \in 1 .. Len(t) : b[i] = f[t[i]]
  <2>1. a \in Seq(Values \cup {NULL}) /\ Len(a) = Len(s) /\ \A i \in 1 .. Len(s) : a[i] = f[s[i]]
    BY ReadList
  <2>2. b \in Seq(Values \cup {NULL}) /\ Len(b) = Len(t) /\ \A i \in 1 .. Len(t) : b[i] = f[t[i]]
    BY ReadList
  <2> QED
    BY <2>1, <2>2
<1>3. c \in Seq(Values \cup {NULL}) /\ Len(c) = Len(r) /\ \A i \in 1 .. Len(r) : c[i] = f[r[i]]
  BY <1>1, ReadList
<1> HIDE DEF a, b, c
<1>4. /\ d \in Seq(Values \cup {NULL}) /\ Len(d) = Len(a) + Len(b)
      /\ \A i \in 1 .. Len(a) + Len(b) : d[i] = IF i <= Len(a) THEN a[i] ELSE b[i - Len(a)]
  BY <1>2, ConcatProperties
<1> HIDE DEF d
<1>5. ASSUME NEW i \in 1 .. Len(c) PROVE c[i] = d[i]
  <2>1. CASE i <= Len(s)
    <3>1. i \in 1 .. Len(s) /\ i \in 1 .. Len(r) /\ r[i] = s[i]
      BY <1>1, <1>3, <2>1 DEF r
    <3>2. c[i] = f[s[i]] /\ a[i] = f[s[i]]
      BY <1>2, <1>3, <3>1
    <3>3. d[i] = a[i]
      BY <1>1, <1>2, <1>4, <2>1, <3>1
    <3> QED
      BY <3>2, <3>3
  <2>2. CASE i > Len(s)
    <3>1. i - Len(s) \in 1 .. Len(t) /\ i \in 1 .. Len(r) /\ r[i] = t[i - Len(s)]
      BY <1>1, <1>3, <2>2 DEF r
    <3>2. c[i] = f[t[i - Len(s)]] /\ b[i - Len(s)] = f[t[i - Len(s)]]
      BY <1>2, <1>3, <3>1
    <3>3. d[i] = b[i - Len(s)]
      BY <1>1, <1>2, <1>4, <2>2, <3>1
    <3> QED
      BY <3>2, <3>3
  <2> QED
    BY <1>1, <1>3, <2>1, <2>2
<1>6. c = d
  BY <1>1, <1>2, <1>3, <1>4, <1>5, SeqEqual
<1> QED
  BY <1>6 DEF r, a, b, c, d

\* The element in the first node and the elements in the others
LEMMA ReadHead ==
    ASSUME NEW f \in Contents, NEW s \in Seq(Nodes), s # <<>>
    PROVE  /\ Read(f, s) # <<>> /\ Head(Read(f, s)) = f[s[1]] /\ s[1] = Head(s)
           /\ Tail(Read(f, s)) = Read(f, Tail(s))
           /\ Read(f, s) = <<f[s[1]]>> \o Read(f, Tail(s))
           /\ Read(f, <<Head(s)>>) = <<f[s[1]]>>
<1>1. /\ Tail(s) \in Seq(Nodes) /\ Len(Tail(s)) = Len(s) - 1 /\ Len(s) \in Nat \ {0}
      /\ \A i \in 1 .. Len(Tail(s)) : Tail(s)[i] = s[i + 1]
      /\ s[1] = Head(s) /\ Head(s) \in Nodes
  BY HeadTailProperties, EmptySeq, LenProperties
<1> DEFINE t == Tail(s)
           a == Read(f, s)
           b == Read(f, t)
           e == Tail(a)
<1> HIDE DEF t
<1>2. /\ a \in Seq(Values \cup {NULL}) /\ Len(a) = Len(s) /\ \A i \in 1 .. Len(s) : a[i] = f[s[i]]
      /\ b \in Seq(Values \cup {NULL}) /\ Len(b) = Len(t) /\ \A i \in 1 .. Len(t) : b[i] = f[t[i]]
  <2>1. a \in Seq(Values \cup {NULL}) /\ Len(a) = Len(s) /\ \A i \in 1 .. Len(s) : a[i] = f[s[i]]
    BY ReadList
  <2>2. t \in Seq(Nodes)
    BY <1>1 DEF t
  <2>3. b \in Seq(Values \cup {NULL}) /\ Len(b) = Len(t) /\ \A i \in 1 .. Len(t) : b[i] = f[t[i]]
    BY <2>2, ReadList
  <2> QED
    BY <2>1, <2>3
<1> HIDE DEF a, b
<1>3. a # <<>>
  BY <1>1, <1>2, EmptySeq
<1>4. /\ e \in Seq(Values \cup {NULL}) /\ Len(e) = Len(a) - 1 /\ Head(a) = a[1] /\ a = <<Head(a)>> \o e
      /\ \A i \in 1 .. Len(e) : e[i] = a[i + 1]
  BY <1>2, <1>3, HeadTailProperties, ConcatProperties
<1> HIDE DEF e
<1>5. ASSUME NEW i \in 1 .. Len(e) PROVE e[i] = b[i]
  <2>1. i \in 1 .. Len(t) /\ i + 1 \in 1 .. Len(s) /\ t[i] = s[i + 1]
    BY <1>1, <1>2, <1>4 DEF t
  <2> QED
    BY <1>2, <1>4, <2>1
<1>6. e = b
  <2>1. Len(e) = Len(b)
    BY <1>1, <1>2, <1>4 DEF t
  <2> QED
    BY <1>2, <1>4, <1>5, <2>1, SeqEqual
<1>7. Head(a) = f[s[1]]
  BY <1>1, <1>2, <1>4
<1>8. Read(f, <<Head(s)>>) = <<f[s[1]]>>
  <2> DEFINE p == <<Head(s)>>
             q == <<f[s[1]]>>
  <2>1. p \in Seq(Nodes) /\ Len(p) = 1 /\ p[1] = s[1]
    BY <1>1
  <2>2. q \in Seq(Values \cup {NULL}) /\ Len(q) = 1 /\ q[1] = f[s[1]]
    <3>1. f[s[1]] \in Values \cup {NULL}
      BY <1>1 DEF Contents
    <3> QED
      BY <3>1
  <2> HIDE DEF p, q
  <2>3. Read(f, p) \in Seq(Values \cup {NULL}) /\ Len(Read(f, p)) = 1 /\ Read(f, p)[1] = f[s[1]]
    <3>1. /\ Read(f, p) \in Seq(Values \cup {NULL}) /\ Len(Read(f, p)) = Len(p)
          /\ \A i \in 1 .. Len(p) : Read(f, p)[i] = f[p[i]]
      BY <2>1, ReadList
    <3> QED
      BY <2>1, <3>1
  <2>4. Read(f, p) = q
    BY <2>2, <2>3, SeqEqual
  <2> QED
    BY <2>4 DEF p, q
<1> QED
  BY <1>1, <1>3, <1>4, <1>6, <1>7, <1>8 DEF a, b, e, t

\* Nodes that hold the first n elements of a range, the last one first, hold what LifoStack
\* puts on the stack.
LEMMA ReadStacked ==
    ASSUME NEW f \in Contents, NEW s \in Seq(Nodes), NEW a \in Seq(Values),
           Len(s) <= Len(a), \A i \in 1 .. Len(s) : f[s[i]] = a[Len(s) + 1 - i]
    PROVE  Read(f, s) = Lifo!Stacked(SubSeq(a, 1, Len(s)))
<1> DEFINE n == Len(s)
           b == SubSeq(a, 1, n)
           c == Lifo!Stacked(b)
           r == Read(f, s)
<1>1. n \in Nat /\ Len(a) \in Nat /\ \A i \in 1 .. n : a[i] \in Values \cup {NULL}
  BY LenProperties
<1>2. b \in Seq(Values \cup {NULL}) /\ Len(b) = n /\ \A i \in 1 .. n : b[i] = a[i]
  BY <1>1, SubSeqProperties
<1> HIDE DEF b
<1>3. c = [i \in 1 .. n |-> b[n + 1 - i]]
  BY <1>2 DEF Lifo!Stacked
<1>4. \A i \in 1 .. n : n + 1 - i \in 1 .. n
  BY <1>1
<1>5. c \in Seq(Values \cup {NULL}) /\ Len(c) = n /\ \A i \in 1 .. n : c[i] = a[n + 1 - i]
  BY <1>1, <1>2, <1>3, <1>4
<1>6. r \in Seq(Values \cup {NULL}) /\ Len(r) = n /\ \A i \in 1 .. n : r[i] = f[s[i]]
  BY ReadList
<1> HIDE DEF c, r
<1>7. r = c
  BY <1>1, <1>5, <1>6, SeqEqual
<1> QED
  BY <1>7 DEF r, c, b

\* What a thread knows, and the elements in its hands and in the stack, are its own business:
\* no step of another thread changes them.
LEMMA Untouched ==
    ASSUME IInv, NEW t \in Threads, CallPush(t) \/ CallPop(t) \/ Step(t)
    PROVE  /\ \A u \in Threads \ {t} : /\ pc'[u] = pc[u] /\ call'[u] = call[u] /\ own'[u] = own[u]
                                       /\ old'[u] = old[u]
           /\ Construct(t) \/ val' = val
           /\ \A n \in Nodes \ ToSet(own[t]) : val'[n] = val[n]
<1>1. TypeOK /\ OwnSound(t)
  BY DEF IInv
<1>2. CASE CallPush(t)
  BY <1>1, <1>2 DEF TypeOK, CallPush
<1>3. CASE CallPop(t)
  BY <1>1, <1>3 DEF TypeOK, CallPop
<1>4. CASE Alloc(t)
  <2>1. CASE AllocLoad(t) \/ AllocCasFails(t) \/ AllocNext(t)
    BY <1>1, <2>1 DEF TypeOK, AllocLoad, AllocCasFails, AllocNext, Load
  <2>2. CASE AllocFresh(t)
    BY <1>1, <2>2 DEF TypeOK, AllocFresh, Leave
  <2>3. CASE AllocFails(t)
    BY <1>1, <2>3 DEF TypeOK, AllocFails, Leave
  <2>4. CASE AllocThrows(t)
    BY <1>1, <2>4 DEF TypeOK, AllocThrows, Leave
  <2>5. CASE AllocCas(t)
    BY <1>1, <2>5 DEF TypeOK, AllocCas, Leave
  <2> QED
    BY <1>4, <2>1, <2>2, <2>3, <2>4, <2>5 DEF Alloc
<1>5. CASE Construct(t)
  <2>1. own[t] \in Seq(Nodes) /\ own[t] # <<>> /\ cur[t] = own[t][1]
    BY <1>1, <1>5 DEF OwnSound, TypeOK, Construct
  <2>2. Len(own[t]) \in Nat /\ Len(own[t]) # 0
    BY <2>1, LenProperties, EmptySeq
  <2>3. cur[t] \in ToSet(own[t])
    BY <2>1, <2>2, Elements
  <2> QED
    BY <1>1, <1>5, <2>3 DEF TypeOK, Construct
<1>6. CASE Link(t)
  <2>1. CASE LinkLoad(t) \/ LinkCasFails(t) \/ LinkNext(t)
    BY <1>1, <2>1 DEF TypeOK, LinkLoad, LinkCasFails, LinkNext, Load
  <2>2. CASE LinkCas(t)
    BY <1>1, <2>2 DEF TypeOK, LinkCas, Leave
  <2> QED
    BY <1>6, <2>1, <2>2 DEF Link
<1>7. CASE PopOrAll(t)
  <2>1. CASE PopLoad(t) \/ PopCasFails(t) \/ PopNext(t)
    BY <1>1, <2>1 DEF TypeOK, PopLoad, PopCasFails, PopNext, Load
  <2>2. CASE PopEmpty(t)
    BY <1>1, <2>2 DEF TypeOK, PopEmpty, Leave
  <2>3. CASE PopCas(t)
    BY <1>1, <2>3 DEF TypeOK, PopCas, Leave
  <2>4. CASE Consume(t)
    BY <1>1, <2>4 DEF TypeOK, Consume
  <2> QED
    BY <1>7, <2>1, <2>2, <2>3, <2>4 DEF PopOrAll
<1>8. CASE Free(t)
  <2>1. CASE FreeLoad(t) \/ FreeCasFails(t) \/ FreeNext(t) \/ Unwind(t)
    BY <1>1, <2>1 DEF TypeOK, FreeLoad, FreeCasFails, FreeNext, Unwind, Load
  <2>2. CASE FreeCas(t)
    BY <1>1, <2>2 DEF TypeOK, FreeCas, Leave
  <2> QED
    BY <1>8, <2>1, <2>2 DEF Free
<1>9. CASE Return(t)
  BY <1>1, <1>9 DEF TypeOK, Return
<1> QED
  BY <1>2, <1>3, <1>4, <1>5, <1>6, <1>7, <1>8, <1>9 DEF Step

\* The elements a thread has put in its nodes are the first of its argument, the last one in
\* front; it pushes what it could prepare, all of it if the push is unbounded.
DataSound(t) ==
    /\ pc[t] = "idle" => call[t] = NoCall
    /\ pc[t] \in {"alloc_load", "alloc_next", "alloc_cas", "link_load", "link_next", "link_cas"} =>
          /\ Len(own[t]) = call[t].done
          /\ \A i \in 1 .. call[t].done : val[own[t][i]] = call[t].arg[call[t].done + 1 - i]
    /\ pc[t] = "construct" =>
          /\ Len(own[t]) = call[t].done + 1
          /\ \A i \in 1 .. call[t].done : val[own[t][i + 1]] = call[t].arg[call[t].done + 1 - i]
    /\ pc[t] \in {"link_load", "link_next", "link_cas"} =>
          /\ call[t].done <= Len(call[t].arg)
          /\ call[t].bounded \/ call[t].done = Len(call[t].arg)
    /\ pc[t] = "unwind" \/ (pc[t] \in Freeing /\ call[t].kind = "range") => call[t].done = 0
    /\ pc[t] \in {"pop_load", "pop_next", "pop_cas"} => call[t].ret = <<>>

DInv == \A t \in Threads : DataSound(t)

\* What a thread does with its own nodes does not change the data of the others.
LEMMA OthersData ==
    ASSUME IInv, DInv, NEW t \in Threads, NEW u \in Threads, u # t,
           pc'[u] = pc[u], call'[u] = call[u], own'[u] = own[u],
           \A n \in Nodes \ ToSet(own[t]) : val'[n] = val[n]
    PROVE  DataSound(u)'
<1>1. DataSound(u) /\ own[u] \in Seq(Nodes) /\ call[u].done \in Nat
  BY DEF DInv, IInv, TypeOK
<1>2. ToSet(own[u]) \cap ToSet(own[t]) = {}
  BY DEF IInv, NodesPlaced, Placed
<1>3. \A i \in 1 .. Len(own[u]) : own[u][i] \in Nodes \ ToSet(own[t])
  BY <1>1, <1>2, Elements
<1>4. \A i \in 1 .. Len(own[u]) : val'[own[u][i]] = val[own[u][i]]
  BY <1>3
<1>5. (pc[u] \in {"alloc_load", "alloc_next", "alloc_cas", "link_load", "link_next", "link_cas"} =>
          /\ Len(own[u]) = call[u].done
          /\ \A i \in 1 .. call[u].done : val[own[u][i]] = call[u].arg[call[u].done + 1 - i])'
  BY <1>1, <1>4 DEF DataSound
<1>6. (pc[u] = "construct" =>
          /\ Len(own[u]) = call[u].done + 1
          /\ \A i \in 1 .. call[u].done : val[own[u][i + 1]] = call[u].arg[call[u].done + 1 - i])'
  <2> SUFFICES ASSUME pc[u] = "construct"
               PROVE  /\ Len(own[u]) = call[u].done + 1
                      /\ \A i \in 1 .. call[u].done :
                            val'[own[u][i + 1]] = call[u].arg[call[u].done + 1 - i]
    OBVIOUS
  <2>1. Len(own[u]) = call[u].done + 1
    BY <1>1 DEF DataSound
  <2>2. \A i \in 1 .. call[u].done : i + 1 \in 1 .. Len(own[u])
    BY <1>1, <2>1
  <2>3. \A i \in 1 .. call[u].done : val[own[u][i + 1]] = call[u].arg[call[u].done + 1 - i]
    BY <1>1 DEF DataSound
  <2> QED
    BY <1>4, <2>1, <2>2, <2>3
<1> QED
  BY <1>1, <1>5, <1>6 DEF DataSound


\* Every step keeps it.
LEMMA DataNext == IInv /\ DInv /\ [Next]_vars => DInv'
<1> SUFFICES ASSUME IInv, DInv, Next PROVE DInv'
  <2>1. CASE UNCHANGED vars
    BY <2>1 DEF DInv, DataSound, vars
  <2> QED
    BY <2>1
<1>1. PICK t \in Threads : CallPush(t) \/ CallPop(t) \/ Step(t)
  BY DEF Next
<1>2. /\ \A u \in Threads \ {t} : pc'[u] = pc[u] /\ call'[u] = call[u] /\ own'[u] = own[u]
      /\ Construct(t) \/ val' = val
      /\ \A n \in Nodes \ ToSet(own[t]) : val'[n] = val[n]
  BY <1>1, Untouched
<1>3. ASSUME NEW u \in Threads, u # t PROVE DataSound(u)'
  BY <1>2, <1>3, OthersData
<1>4. TypeOK /\ CallSound(t) /\ OwnSound(t) /\ DataSound(t)
  BY DEF IInv, DInv
<1>5. /\ own[t] \in Seq(Nodes) /\ call[t].done \in Nat /\ call[t].arg \in Seq(Values)
      /\ pc \in [Threads -> PC] /\ call \in [Threads -> CallType] /\ own \in [Threads -> Seq(Nodes)]
  BY <1>4 DEF TypeOK, CallType
<1> SUFFICES DataSound(t)'
  BY <1>3 DEF DInv
<1>6. CASE CallPush(t)
  <2>1. PICK p \in Pushes :
           call' = [call EXCEPT ![t] = [NoCall EXCEPT !.kind = p.kind, !.bounded = p.bounded,
                                                      !.arg = p.arg]]
    BY <1>6 DEF CallPush
  <2>2. pc'[t] = "alloc_load" /\ own'[t] = own[t] /\ pc[t] = "idle"
    BY <1>5, <1>6 DEF CallPush
  <2>3. call'[t].done = 0
    BY <1>5, <2>1 DEF NoCall
  <2>4. own[t] = <<>>
    BY <1>4, <2>2 DEF OwnSound, Idle
  <2> QED
    BY <2>2, <2>3, <2>4 DEF DataSound, Freeing
<1>7. CASE CallPop(t)
  <2>1. PICK k \in {"pop", "all"} : call' = [call EXCEPT ![t] = [NoCall EXCEPT !.kind = k]]
    BY <1>7 DEF CallPop
  <2>2. pc'[t] = "pop_load"
    BY <1>5, <1>7 DEF CallPop
  <2>3. call'[t].ret = <<>>
    BY <1>5, <2>1 DEF NoCall
  <2> QED
    BY <2>2, <2>3 DEF DataSound, Freeing
<1>8. CASE AllocLoad(t) \/ AllocCasFails(t) \/ AllocNext(t)
  <2>1. /\ pc[t] \in {"alloc_load", "alloc_next", "alloc_cas"}
        /\ pc'[t] \in {"alloc_next", "alloc_cas"} /\ UNCHANGED <<call, own, val>>
    BY <1>5, <1>8 DEF AllocLoad, AllocCasFails, AllocNext, Load
  <2> QED
    BY <1>4, <2>1 DEF DataSound, Freeing
<1>9. CASE AllocFresh(t) \/ AllocCas(t)
  <2>1. PICK n : own' = [own EXCEPT ![t] = <<n>> \o own[t]] /\ n \in Nodes
    <3>1. CASE AllocFresh(t)
      <4>1. PICK n \in fresh : own' = [own EXCEPT ![t] = <<n>> \o own[t]]
        BY <3>1 DEF AllocFresh
      <4> QED
        BY <1>4, <4>1 DEF TypeOK
    <3>2. CASE AllocCas(t)
      <4>1. own' = [own EXCEPT ![t] = <<old[t].ptr>> \o own[t]]
        BY <3>2 DEF AllocCas
      <4>2. old[t].ptr \in Nodes
        <5>1. pc[t] = "alloc_cas" /\ top[ListOf(pc[t])] = old[t]
          BY <3>2 DEF AllocCas, Cas
        <5> QED
          BY <5>1, CasHead
      <4> QED
        BY <4>1, <4>2
    <3> QED
      BY <1>9, <3>1, <3>2
  <2>2. /\ pc[t] \in {"alloc_next", "alloc_cas"} /\ pc'[t] = "construct"
        /\ own'[t] = <<n>> \o own[t] /\ UNCHANGED <<call, val>>
    BY <1>5, <1>9, <2>1 DEF AllocFresh, AllocCas, PoolEmpty, Leave
  <2>3. Len(own[t]) = call[t].done
        /\ \A i \in 1 .. call[t].done : val[own[t][i]] = call[t].arg[call[t].done + 1 - i]
    BY <1>4, <2>2 DEF DataSound
  <2>4. /\ Len(<<n>> \o own[t]) = call[t].done + 1
        /\ \A i \in 1 .. call[t].done : (<<n>> \o own[t])[i + 1] = own[t][i]
    BY <1>5, <2>1, <2>3
  <2> QED
    BY <2>2, <2>3, <2>4 DEF DataSound, Freeing
<1>10. CASE AllocFails(t)
  <2>1. /\ pc[t] = "alloc_next" /\ pc'[t] = (IF own[t] = <<>> THEN "ret" ELSE "link_load")
        /\ UNCHANGED <<call, own, val>> /\ call[t].bounded
    BY <1>5, <1>10 DEF AllocFails, PoolEmpty, Leave
  <2>2. call[t].done <= Len(call[t].arg)
    <3>1. call[t].done < Len(call[t].arg) /\ Len(call[t].arg) \in Nat
      BY <1>4, <1>5, <2>1, LenProperties DEF CallSound
    <3> QED
      BY <1>5, <3>1
  <2> QED
    BY <1>4, <2>1, <2>2 DEF DataSound, Freeing
<1>11. CASE AllocThrows(t)
  <2>1. /\ pc[t] = "alloc_next" /\ pc'[t] = (IF own[t] = <<>> THEN "ret" ELSE "unwind")
        /\ call' = [call EXCEPT ![t] = [call[t] EXCEPT !.done = 0]]
    BY <1>5, <1>11 DEF AllocThrows, PoolEmpty, Leave
  <2>2. call'[t].done = 0
    <3>1. call[t] \in CallType
      BY <1>5
    <3>2. call'[t] = [call[t] EXCEPT !.done = 0]
      BY <1>5, <2>1
    <3> QED
      BY <3>1, <3>2 DEF CallType
  <2> QED
    BY <2>1, <2>2 DEF DataSound, Freeing
<1>12. CASE Construct(t)
  <2> DEFINE v == call[t].arg[call[t].done + 1]
             d == call[t].done + 1
             c == [call[t] EXCEPT !.done = d]
  <2>1. /\ pc[t] = "construct"
        /\ pc'[t] = (IF d < Len(call[t].arg) THEN "alloc_load" ELSE "link_load")
        /\ val' = [val EXCEPT ![cur[t]] = v] /\ own' = own
        /\ call' = [call EXCEPT ![t] = c]
    BY <1>5, <1>12 DEF Construct
  <2>2. call'[t].done = d /\ call'[t].arg = call[t].arg
    <3>1. call[t] \in CallType
      BY <1>5
    <3>2. call'[t] = c
      BY <1>5, <2>1
    <3> QED
      BY <3>1, <3>2 DEF CallType
  <2>3. /\ Len(own[t]) = d /\ IsInjective(own[t]) /\ cur[t] = own[t][1]
        /\ \A i \in 1 .. call[t].done : val[own[t][i + 1]] = call[t].arg[call[t].done + 1 - i]
    BY <1>4, <2>1 DEF OwnSound, DataSound
  <2>4. \A i, j \in 1 .. Len(own[t]) : own[t][i] = own[t][j] => i = j
    BY <1>5, <2>3, Elements
  <2>5. ASSUME NEW i \in 1 .. d PROVE val'[own[t][i]] = call[t].arg[d + 1 - i]
    <3>1. \A j \in 1 .. d : own[t][j] \in Nodes
      BY <1>5, <2>3
    <3>2. val \in [Nodes -> Values \cup {NULL}]
      BY <1>4 DEF TypeOK
    <3>3. CASE i = 1
      <4>1. cur[t] \in Nodes /\ own[t][i] = cur[t] /\ d + 1 - i = call[t].done + 1
        BY <1>5, <2>3, <3>1, <3>3
      <4> QED
        BY <2>1, <3>2, <4>1
    <3>4. CASE i # 1
      <4>1. i - 1 \in 1 .. call[t].done /\ own[t][i] # cur[t] /\ 1 \in 1 .. d
        BY <1>5, <2>3, <2>4, <3>4
      <4>2. val[own[t][i]] = call[t].arg[call[t].done + 1 - (i - 1)]
        <5>1. own[t][(i - 1) + 1] = own[t][i]
          OBVIOUS
        <5> QED
          BY <2>3, <4>1, <5>1
      <4>3. d + 1 - i = call[t].done + 1 - (i - 1)
        BY <1>5
      <4>4. val'[own[t][i]] = val[own[t][i]]
        BY <2>1, <3>1, <3>2, <4>1
      <4> QED
        BY <4>2, <4>3, <4>4
    <3> QED
      BY <3>3, <3>4
  <2>6. ~(d < Len(call[t].arg)) => d = Len(call[t].arg)
    <3>1. call[t].done < Len(call[t].arg) /\ Len(call[t].arg) \in Nat
      BY <1>4, <1>5, <2>1, LenProperties DEF CallSound
    <3> QED
      BY <1>5, <3>1
  <2>7. d \in Nat /\ Len(call[t].arg) \in Nat
    BY <1>5, LenProperties
  <2> HIDE DEF d, v, c
  <2> QED
    BY <2>1, <2>2, <2>3, <2>5, <2>6, <2>7 DEF DataSound, Freeing
<1>13. CASE LinkLoad(t) \/ LinkCasFails(t) \/ LinkNext(t)
  <2>1. /\ pc[t] \in {"link_load", "link_next", "link_cas"}
        /\ pc'[t] \in {"link_next", "link_cas"} /\ UNCHANGED <<call, own, val>>
    BY <1>5, <1>13 DEF LinkLoad, LinkCasFails, LinkNext, Load
  <2> QED
    BY <1>4, <2>1 DEF DataSound, Freeing
<1>14. CASE LinkCas(t) \/ PopEmpty(t) \/ PopCas(t)
  <2>1. pc'[t] \in {"ret", "consume"}
    BY <1>5, <1>14 DEF LinkCas, PopEmpty, PopCas, Leave
  <2> QED
    BY <2>1 DEF DataSound, Freeing
<1>15. CASE PopLoad(t) \/ PopCasFails(t) \/ PopNext(t)
  <2>1. /\ pc[t] \in {"pop_load", "pop_next", "pop_cas"}
        /\ pc'[t] \in {"pop_next", "pop_cas"} /\ UNCHANGED call
    BY <1>5, <1>15 DEF PopLoad, PopCasFails, PopNext, Load
  <2> QED
    BY <1>4, <2>1 DEF DataSound, Freeing
<1>16. CASE Consume(t)
  <2>1. /\ pc[t] = "consume" /\ pc'[t] = "free_load"
        /\ call' = [call EXCEPT ![t] = [call[t] EXCEPT !.ret = Append(call[t].ret, val[cur[t]])]]
    BY <1>5, <1>16 DEF Consume
  <2>2. call'[t].kind = call[t].kind
    <3>1. call[t] \in CallType
      BY <1>5
    <3>2. call'[t] = [call[t] EXCEPT !.ret = Append(call[t].ret, val[cur[t]])]
      BY <1>5, <2>1
    <3> QED
      BY <3>1, <3>2 DEF CallType
  <2>3. call[t].kind # "range"
    BY <1>4, <2>1 DEF CallSound
  <2> QED
    BY <2>1, <2>2, <2>3 DEF DataSound
<1>17. CASE Unwind(t) \/ FreeLoad(t) \/ FreeCasFails(t) \/ FreeNext(t)
  <2>1. /\ pc[t] \in Freeing \cup {"unwind"} /\ (pc[t] = "unwind" => Unwind(t))
        /\ pc'[t] \in Freeing /\ UNCHANGED call
    BY <1>5, <1>17 DEF Unwind, FreeLoad, FreeCasFails, FreeNext, Load, Freeing
  <2> QED
    BY <1>4, <2>1 DEF DataSound, Freeing
<1>18. CASE FreeCas(t)
  <2>1. /\ pc[t] = "free_cas" /\ UNCHANGED call
        /\ pc'[t] = (IF nxt[t] = NULL THEN "ret"
                     ELSE IF call[t].kind = "range" THEN "unwind" ELSE "consume")
    BY <1>5, <1>18 DEF FreeCas, Leave
  <2> QED
    BY <1>4, <2>1 DEF DataSound, Freeing
<1>19. CASE Return(t)
  <2>1. pc'[t] = "idle" /\ call'[t] = NoCall
    BY <1>5, <1>19 DEF Return
  <2> QED
    BY <2>1 DEF DataSound, Freeing
<1> QED
  BY <1>1, <1>6, <1>7, <1>8, <1>9, <1>10, <1>11, <1>12, <1>13, <1>14, <1>15, <1>16, <1>17, <1>18,
     <1>19 DEF Step, Alloc, Link, PopOrAll, Free

\* There are no elements at first.
LEMMA DataInit == Init => DInv
  BY DEF Init, DInv, DataSound, Freeing

----------------------------------------------------------------------------
(* Linearizability *)

\* The stack and the operations of LifoStack
AbsStack == ValuesIn(chain["tos"])
AbsOp(t) == [kind |-> Kind(t), bounded |-> call[t].bounded, arg |-> call[t].arg,
             done |-> Effected(t), ret |-> Result(t)]

\* The operation of another thread stays what it is.
LEMMA OthersOp ==
    ASSUME IInv, NEW t \in Threads, NEW u \in Threads, u # t,
           pc'[u] = pc[u], call'[u] = call[u], own'[u] = own[u], old'[u] = old[u],
           \A n \in Nodes \ ToSet(own[t]) : val'[n] = val[n]
    PROVE  AbsOp(u)' = AbsOp(u)
<1>1. own[u] \in Seq(Nodes) /\ OwnSound(u)
  BY DEF IInv, TypeOK
<1>2. ToSet(own[u]) \cap ToSet(own[t]) = {}
  BY DEF IInv, NodesPlaced, Placed
<1>3. \A n \in ToSet(own[u]) : val'[n] = val[n]
  BY <1>1, <1>2, Elements
<1>4. ValuesIn(own[u])' = ValuesIn(own[u])
  <2>1. Read(val', own[u]) = Read(val, own[u])
    BY <1>1, <1>3, ReadSame
  <2> QED
    BY <2>1 DEF ValuesIn, Read
<1>5. pc[u] \in Freeing => ValuesIn(Tail(own[u]))' = ValuesIn(Tail(own[u]))
  <2> HAVE pc[u] \in Freeing
  <2>1. own[u] # <<>>
    BY <1>1 DEF OwnSound
  <2>2. Tail(own[u]) \in Seq(Nodes) /\ ToSet(Tail(own[u])) \subseteq ToSet(own[u])
    BY <1>1, <2>1, PopOne
  <2>3. Read(val', Tail(own[u])) = Read(val, Tail(own[u]))
    BY <1>3, <2>2, ReadSame
  <2> QED
    BY <2>3 DEF ValuesIn, Read
<1>6. Kind(u)' = Kind(u)
  BY DEF Kind
<1>7. Effected(u)' = Effected(u)
  BY DEF Effected
<1>8. Result(u)' = Result(u)
  BY <1>4, <1>5, <1>6, <1>7 DEF Result
<1> QED
  BY <1>6, <1>7, <1>8 DEF AbsOp

\* What the thread does is a step of LifoStack, or none.
LEMMA LifoStutter ==
    ASSUME \A u \in Threads : AbsOp(u)' = AbsOp(u), AbsStack' = AbsStack
    PROVE  UNCHANGED Lifo!vars
<1>1. [t \in Threads |-> AbsOp(t)]' = [t \in Threads |-> AbsOp(t)]
  OBVIOUS
<1> QED
  BY <1>1 DEF AbsOp, AbsStack, Lifo!vars

\* How the operation of a thread changes when it takes effect, and when it goes on
LEMMA OpTakesEffect ==
    ASSUME NEW t \in Threads, NEW r, call'[t].kind = call[t].kind,
           call'[t].bounded = call[t].bounded, call'[t].arg = call[t].arg,
           Effected(t)', Result(t)' = r
    PROVE  AbsOp(t)' = Lifo!Done(AbsOp(t), r)
<1>1. Kind(t)' = Kind(t)
  BY DEF Kind
<1>2. Effected(t)' = TRUE
  BY DEF Effected
<1> QED
  BY <1>1, <1>2 DEF AbsOp, Lifo!Done

\* An operation whose call and result stay is the same operation for LifoStack.
LEMMA OpGoesOn ==
    ASSUME NEW t \in Threads, call'[t].kind = call[t].kind,
           call'[t].bounded = call[t].bounded, call'[t].arg = call[t].arg,
           Effected(t)' = Effected(t), Result(t)' = Result(t)
    PROVE  AbsOp(t)' = AbsOp(t)
<1>1. Kind(t)' = Kind(t)
  BY DEF Kind
<1> QED
  BY <1>1 DEF AbsOp

\* The steps of LifoStack
LEMMA LifoPush ==
    ASSUME NEW t \in Threads, \A u \in Threads \ {t} : AbsOp(u)' = AbsOp(u),
           Kind(t) = "push", ~Effected(t), NEW n \in 0 .. Len(call[t].arg),
           call[t].bounded \/ n \in {0, Len(call[t].arg)},
           AbsStack' = Lifo!Stacked(SubSeq(call[t].arg, 1, n)) \o AbsStack,
           AbsOp(t)' = Lifo!Done(AbsOp(t), SubSeq(call[t].arg, 1, n))
    PROVE  Lifo!Push(t)
<1> DEFINE op == [u \in Threads |-> AbsOp(u)]
<1>1. /\ op[t].kind = "push" /\ ~op[t].done /\ op[t].arg = call[t].arg
      /\ op[t].bounded = call[t].bounded /\ op[t] = AbsOp(t)
  BY DEF AbsOp
<1>2. op' = [op EXCEPT ![t] = Lifo!Done(op[t], SubSeq(op[t].arg, 1, n))]
  BY <1>1
<1> HIDE DEF op
<1>3. /\ op[t].bounded \/ n \in {0, Len(op[t].arg)}
      /\ n \in 0 .. Len(op[t].arg)
      /\ AbsStack' = Lifo!Stacked(SubSeq(op[t].arg, 1, n)) \o AbsStack
  BY <1>1
<1> QED
  BY <1>1, <1>2, <1>3 DEF Lifo!Push, AbsStack, AbsOp, op

\* A step that takes the first element is LifoStack's Pop.
LEMMA LifoPop ==
    ASSUME NEW t \in Threads, \A u \in Threads \ {t} : AbsOp(u)' = AbsOp(u),
           Kind(t) = "pop", ~Effected(t), AbsStack # <<>>, AbsStack' = Tail(AbsStack),
           AbsOp(t)' = Lifo!Done(AbsOp(t), <<Head(AbsStack)>>)
    PROVE  Lifo!Pop(t)
<1> DEFINE op == [u \in Threads |-> AbsOp(u)]
<1>1. op[t].kind = "pop" /\ ~op[t].done /\ op[t] = AbsOp(t)
  BY DEF AbsOp
<1>2. op' = [op EXCEPT ![t] = Lifo!Done(op[t], <<Head(AbsStack)>>)]
  BY <1>1
<1> HIDE DEF op
<1> QED
  BY <1>1, <1>2 DEF Lifo!Pop, AbsStack, AbsOp, op

\* A step that takes everything is LifoStack's PopAll.
LEMMA LifoPopAll ==
    ASSUME NEW t \in Threads, \A u \in Threads \ {t} : AbsOp(u)' = AbsOp(u),
           Kind(t) = "all", ~Effected(t), AbsStack # <<>>, AbsStack' = <<>>,
           AbsOp(t)' = Lifo!Done(AbsOp(t), AbsStack)
    PROVE  Lifo!PopAll(t)
<1> DEFINE op == [u \in Threads |-> AbsOp(u)]
<1>1. op[t].kind = "all" /\ ~op[t].done /\ op[t] = AbsOp(t)
  BY DEF AbsOp
<1>2. op' = [op EXCEPT ![t] = Lifo!Done(op[t], AbsStack)]
  BY <1>1
<1> HIDE DEF op
<1> QED
  BY <1>1, <1>2 DEF Lifo!PopAll, AbsStack, AbsOp, op

\* A step that finds nothing is LifoStack's Empty.
LEMMA LifoEmpty ==
    ASSUME NEW t \in Threads, \A u \in Threads \ {t} : AbsOp(u)' = AbsOp(u),
           Kind(t) \in {"pop", "all"}, ~Effected(t), AbsStack = <<>>, AbsStack' = AbsStack,
           AbsOp(t)' = Lifo!Done(AbsOp(t), <<>>)
    PROVE  Lifo!Empty(t)
<1> DEFINE op == [u \in Threads |-> AbsOp(u)]
<1>1. op[t].kind \in {"pop", "all"} /\ ~op[t].done /\ op[t] = AbsOp(t)
  BY DEF AbsOp
<1>2. op' = [op EXCEPT ![t] = Lifo!Done(op[t], <<>>)]
  BY <1>1
<1> HIDE DEF op
<1> QED
  BY <1>1, <1>2 DEF Lifo!Empty, AbsStack, AbsOp, op

\* A step that ends an operation is LifoStack's Return.
LEMMA LifoReturn ==
    ASSUME NEW t \in Threads, \A u \in Threads \ {t} : AbsOp(u)' = AbsOp(u),
           Effected(t), AbsStack' = AbsStack, AbsOp(t)' = Lifo!NoOp
    PROVE  Lifo!Return(t)
<1> DEFINE op == [u \in Threads |-> AbsOp(u)]
<1>1. op[t].done
  BY DEF AbsOp
<1>2. op' = [op EXCEPT ![t] = Lifo!NoOp]
  OBVIOUS
<1> HIDE DEF op
<1> QED
  BY <1>1, <1>2 DEF Lifo!Return, AbsStack, AbsOp, op

\* A step that begins a push is LifoStack's CallPush.
LEMMA LifoCallPush ==
    ASSUME NEW t \in Threads, \A u \in Threads \ {t} : AbsOp(u)' = AbsOp(u),
           Kind(t) = "none", AbsStack' = AbsStack, NEW p \in Pushes,
           AbsOp(t)' = Lifo!Called("push", p.bounded, p.arg)
    PROVE  Lifo!CallPush(t)
<1> DEFINE op == [u \in Threads |-> AbsOp(u)]
<1>1. op[t].kind = "none"
  BY DEF AbsOp
<1>2. op' = [op EXCEPT ![t] = Lifo!Called("push", p.bounded, p.arg)]
  OBVIOUS
<1> HIDE DEF op
<1> QED
  BY <1>1, <1>2 DEF Lifo!CallPush, AbsStack, AbsOp, op

\* A step that begins a removal is LifoStack's CallPop.
LEMMA LifoCallPop ==
    ASSUME NEW t \in Threads, \A u \in Threads \ {t} : AbsOp(u)' = AbsOp(u),
           Kind(t) = "none", AbsStack' = AbsStack, NEW k \in {"pop", "all"},
           AbsOp(t)' = Lifo!Called(k, FALSE, <<>>)
    PROVE  Lifo!CallPop(t)
<1> DEFINE op == [u \in Threads |-> AbsOp(u)]
<1>1. op[t].kind = "none"
  BY DEF AbsOp
<1>2. op' = [op EXCEPT ![t] = Lifo!Called(k, FALSE, <<>>)]
  OBVIOUS
<1> HIDE DEF op
<1> QED
  BY <1>1, <1>2 DEF Lifo!CallPop, AbsStack, AbsOp, op

\* The stack of LifoStack changes with the list of nodes only.
LEMMA StackStays ==
    ASSUME IInv, NEW t \in Threads, chain'["tos"] = chain["tos"],
           \A n \in Nodes \ ToSet(own[t]) : val'[n] = val[n]
    PROVE  AbsStack' = AbsStack
<1>1. chain["tos"] \in Seq(Nodes) /\ "tos" \in Lists
  BY DEF IInv, TypeOK, Lists
<1>2. ToSet(chain["tos"]) \cap ToSet(own[t]) = {}
  BY <1>1 DEF IInv, NodesPlaced, Placed
<1>3. \A n \in ToSet(chain["tos"]) : val'[n] = val[n]
  BY <1>1, <1>2, Elements
<1>4. Read(val', chain["tos"]) = Read(val, chain["tos"])
  BY <1>1, <1>3, ReadSame
<1> QED
  BY <1>4 DEF AbsStack, ValuesIn, Read

\* An operation that has not taken effect, and does not in this step
LEMMA NotYet ==
    ASSUME NEW t \in Threads, call'[t].kind = call[t].kind,
           call'[t].bounded = call[t].bounded, call'[t].arg = call[t].arg,
           ~Effected(t), ~(Effected(t)')
    PROVE  AbsOp(t)' = AbsOp(t)
<1>1. Result(t)' = <<>> /\ Result(t) = <<>>
  BY DEF Result
<1>2. Effected(t)' = Effected(t)
  BY DEF Effected
<1> QED
  BY <1>1, <1>2, OpGoesOn

\* A push of nothing: the pool was empty from the start, or the allocator threw.
LEMMA PushNothing ==
    ASSUME IInv, NEW t \in Threads, \A u \in Threads \ {t} : AbsOp(u)' = AbsOp(u),
           call[t].kind \in {"push", "range"}, ~Effected(t), AbsStack' = AbsStack,
           pc'[t] = "ret", call'[t].kind = call[t].kind, call'[t].done = 0,
           call'[t].bounded = call[t].bounded, call'[t].arg = call[t].arg
    PROVE  Lifo!Push(t)
<1>1. call[t].arg \in Seq(Values) /\ Len(call[t].arg) \in Nat
  BY LenProperties DEF IInv, TypeOK
<1>2. Kind(t) = "push" /\ Kind(t)' = "push"
  BY DEF Kind
<1>3. SubSeq(call[t].arg, 1, 0) = <<>>
  BY SubSeqEmpty
<1>4. Lifo!Stacked(<<>>) = <<>>
  BY DEF Lifo!Stacked
<1>5. AbsStack \in Seq(Values \cup {NULL})
  <2>1. chain["tos"] \in Seq(Nodes) /\ val \in Contents
    BY DEF IInv, TypeOK, Lists, Contents
  <2> QED
    BY <2>1, ReadList DEF AbsStack, ValuesIn, Read
<1>6. AbsStack' = Lifo!Stacked(SubSeq(call[t].arg, 1, 0)) \o AbsStack
  BY <1>3, <1>4, <1>5, ConcatEmptySeq
<1>7. Effected(t)' /\ Result(t)' = SubSeq(call[t].arg, 1, 0)
  BY <1>2 DEF Effected, Result
<1>8. AbsOp(t)' = Lifo!Done(AbsOp(t), SubSeq(call[t].arg, 1, 0))
  BY <1>7, OpTakesEffect
<1>9. 0 \in 0 .. Len(call[t].arg)
  BY <1>1
<1> QED
  BY <1>2, <1>6, <1>8, <1>9, LifoPush

\* What every step gives: the other operations stay.
LEMMA Others ==
    ASSUME IInv, NEW t \in Threads, CallPush(t) \/ CallPop(t) \/ Step(t)
    PROVE  /\ \A u \in Threads \ {t} : AbsOp(u)' = AbsOp(u)
           /\ chain'["tos"] = chain["tos"] => AbsStack' = AbsStack
<1>1. /\ \A u \in Threads \ {t} : /\ pc'[u] = pc[u] /\ call'[u] = call[u] /\ own'[u] = own[u]
                                  /\ old'[u] = old[u]
      /\ \A n \in Nodes \ ToSet(own[t]) : val'[n] = val[n]
  BY Untouched
<1> QED
  BY <1>1, OthersOp, StackStays

\* A step that makes the operation of its thread neither begin nor take effect nor return
LEMMA GoesOn ==
    ASSUME IInv, NEW t \in Threads, CallPush(t) \/ CallPop(t) \/ Step(t),
           chain'["tos"] = chain["tos"], AbsOp(t)' = AbsOp(t)
    PROVE  UNCHANGED Lifo!vars
<1>1. \A u \in Threads : AbsOp(u)' = AbsOp(u)
  BY Others
<1>2. AbsStack' = AbsStack
  BY Others
<1> QED
  BY <1>1, <1>2, LifoStutter

\* Calls and returns are those of LifoStack.
LEMMA RefinesCalls ==
    ASSUME IInv, DInv, NEW t \in Threads
    PROVE  /\ CallPush(t) => Lifo!CallPush(t)
           /\ CallPop(t) => Lifo!CallPop(t)
           /\ Return(t) => Lifo!Return(t)
<1>1. /\ DataSound(t) /\ call \in [Threads -> CallType] /\ pc \in [Threads -> PC] /\ OwnSound(t)
      /\ old \in [Threads -> Handle]
  BY DEF DInv, IInv, TypeOK, CallType
<1>2. ASSUME CallPush(t) PROVE Lifo!CallPush(t)
  <2>1. PICK p \in Pushes :
           call' = [call EXCEPT ![t] = [NoCall EXCEPT !.kind = p.kind, !.bounded = p.bounded,
                                                      !.arg = p.arg]]
    BY <1>2 DEF CallPush
  <2>2. pc[t] = "idle" /\ pc'[t] = "alloc_load" /\ chain' = chain
    BY <1>1, <1>2 DEF CallPush
  <2>3. p.kind \in {"push", "range"}
    BY StackAssumption
  <2>4. call'[t].kind = p.kind /\ call'[t].bounded = p.bounded /\ call'[t].arg = p.arg
    BY <1>1, <2>1 DEF NoCall
  <2>5. Kind(t) = "none"
    BY <1>1, <2>2 DEF DataSound, NoCall, Kind
  <2>6. Kind(t)' = "push"
    BY <2>3, <2>4 DEF Kind
  <2>7. Effected(t)' = FALSE
    BY <2>2 DEF Effected, Freeing
  <2>8. Result(t)' = <<>>
    BY <2>7 DEF Result
  <2>9. AbsOp(t)' = Lifo!Called("push", p.bounded, p.arg)
    BY <2>4, <2>6, <2>7, <2>8 DEF AbsOp, Lifo!Called
  <2> QED
    BY <1>2, <2>2, <2>5, <2>9, Others, LifoCallPush
<1>3. ASSUME CallPop(t) PROVE Lifo!CallPop(t)
  <2>1. PICK k \in {"pop", "all"} : call' = [call EXCEPT ![t] = [NoCall EXCEPT !.kind = k]]
    BY <1>3 DEF CallPop
  <2>2. pc[t] = "idle" /\ pc'[t] = "pop_load" /\ chain' = chain
    BY <1>1, <1>3 DEF CallPop
  <2>4. call'[t].kind = k /\ call'[t].bounded = FALSE /\ call'[t].arg = <<>>
    BY <1>1, <2>1 DEF NoCall
  <2>5. Kind(t) = "none"
    BY <1>1, <2>2 DEF DataSound, NoCall, Kind
  <2>6. Kind(t)' = k
    BY <2>4 DEF Kind
  <2>7. Effected(t)' = FALSE
    BY <2>2 DEF Effected, Freeing
  <2>8. Result(t)' = <<>>
    BY <2>7 DEF Result
  <2>9. AbsOp(t)' = Lifo!Called(k, FALSE, <<>>)
    BY <2>4, <2>6, <2>7, <2>8 DEF AbsOp, Lifo!Called
  <2> QED
    BY <1>3, <2>2, <2>5, <2>9, Others, LifoCallPop
<1>4. ASSUME Return(t) PROVE Lifo!Return(t)
  <2>1. pc[t] = "ret" /\ pc'[t] = "idle" /\ call'[t] = NoCall /\ chain' = chain
    BY <1>1, <1>4 DEF Return
  <2>2. Effected(t)
    BY <2>1 DEF Effected
  <2>3. Kind(t)' = "none" /\ call'[t].bounded = FALSE /\ call'[t].arg = <<>>
    BY <2>1 DEF Kind, NoCall
  <2>4. Effected(t)' = FALSE
    BY <2>1 DEF Effected, Freeing
  <2>5. Result(t)' = <<>>
    BY <2>4 DEF Result
  <2>6. AbsOp(t)' = Lifo!NoOp
    BY <2>3, <2>4, <2>5 DEF AbsOp, Lifo!NoOp, Lifo!Called
  <2>7. CallPush(t) \/ CallPop(t) \/ Step(t)
    BY <1>4 DEF Step
  <2> QED
    BY <2>1, <2>2, <2>6, <2>7, Others, LifoReturn
<1> QED
  BY <1>2, <1>3, <1>4

\* A push takes effect when its compare-and-swap succeeds, or when there is nothing to push.
LEMMA RefinesPush ==
    ASSUME IInv, DInv, NEW t \in Threads, Alloc(t) \/ Construct(t) \/ Link(t)
    PROVE  Lifo!Push(t) \/ UNCHANGED Lifo!vars
<1>1. /\ DataSound(t) /\ CallSound(t) /\ OwnSound(t) /\ TypeOK
      /\ call \in [Threads -> CallType] /\ pc \in [Threads -> PC] /\ own[t] \in Seq(Nodes)
      /\ call[t] \in CallType
  BY DEF DInv, IInv, TypeOK, CallType
<1>2. Step(t)
  BY DEF Step
<1>3. /\ \A u \in Threads \ {t} : AbsOp(u)' = AbsOp(u)
      /\ chain'["tos"] = chain["tos"] => AbsStack' = AbsStack
  BY <1>2, Others
<1> DEFINE Preparing == {"alloc_load", "alloc_next", "alloc_cas", "construct", "link_load",
                         "link_next", "link_cas"}
<1>4. ASSUME pc[t] \in Preparing, pc'[t] \in Preparing \cup {"unwind"},
             call'[t].kind = call[t].kind, call'[t].bounded = call[t].bounded,
             call'[t].arg = call[t].arg, chain'["tos"] = chain["tos"]
      PROVE  UNCHANGED Lifo!vars
  <2>1. ~Effected(t) /\ ~(Effected(t)')
    BY <1>4 DEF Effected, Freeing
  <2>2. AbsOp(t)' = AbsOp(t)
    BY <1>4, <2>1, NotYet
  <2> QED
    BY <1>2, <1>4, <2>2, GoesOn
<1>5. CASE AllocLoad(t) \/ AllocNext(t) \/ AllocCasFails(t) \/ LinkLoad(t) \/ LinkNext(t)
           \/ LinkCasFails(t)
  <2>1. pc[t] \in Preparing /\ pc'[t] \in Preparing /\ call' = call /\ chain' = chain
    BY <1>1, <1>5 DEF AllocLoad, AllocNext, AllocCasFails, LinkLoad, LinkNext, LinkCasFails, Load
  <2> QED
    BY <1>4, <2>1
<1>6. CASE AllocFresh(t) \/ AllocCas(t)
  <2>1. pc[t] \in Preparing /\ pc'[t] \in Preparing /\ call' = call
    BY <1>1, <1>6 DEF AllocFresh, PoolEmpty, AllocCas, Leave
  <2>2. chain'["tos"] = chain["tos"]
    <3>1. "tos" \in Lists /\ chain \in [Lists -> Seq(Nodes)]
      BY <1>1 DEF Lists, TypeOK
    <3> QED
      BY <1>6, <3>1 DEF AllocFresh, AllocCas
  <2> QED
    BY <1>4, <2>1, <2>2
<1>7. CASE AllocFails(t) \/ AllocThrows(t)
  <2>1. /\ pc[t] = "alloc_next" /\ chain' = chain
        /\ call'[t].kind = call[t].kind /\ call'[t].bounded = call[t].bounded
        /\ call'[t].arg = call[t].arg
        /\ own[t] = <<>> => pc'[t] = "ret"
        /\ own[t] # <<>> => pc'[t] \in {"unwind", "link_load"}
        /\ own[t] = <<>> => call'[t].done = 0
    <3>1. CASE AllocFails(t)
      <4>1. own[t] = <<>> => call[t].done = 0
        BY <1>1, <3>1 DEF DataSound, AllocFails, PoolEmpty
      <4> QED
        BY <1>1, <3>1, <4>1 DEF AllocFails, PoolEmpty, Leave
    <3>2. CASE AllocThrows(t)
      <4>1. call' = [call EXCEPT ![t] = [call[t] EXCEPT !.done = 0]]
        BY <3>2 DEF AllocThrows
      <4>2. call'[t] = [call[t] EXCEPT !.done = 0]
        BY <1>1, <4>1
      <4>3. /\ call'[t].kind = call[t].kind /\ call'[t].bounded = call[t].bounded
            /\ call'[t].arg = call[t].arg /\ call'[t].done = 0
        BY <1>1, <4>2 DEF CallType
      <4> QED
        BY <1>1, <3>2, <4>3 DEF AllocThrows, PoolEmpty, Leave
    <3> QED
      BY <1>7, <3>1, <3>2
  <2>2. CASE own[t] = <<>>
    <3>1. ~Effected(t)
      BY <2>1 DEF Effected, Freeing
    <3>2. call[t].kind \in {"push", "range"}
      BY <1>1, <2>1 DEF CallSound
    <3> QED
      BY <1>3, <2>1, <2>2, <3>1, <3>2, PushNothing
  <2>3. CASE own[t] # <<>>
    BY <1>4, <2>1, <2>3
  <2> QED
    BY <2>2, <2>3
<1>8. CASE Construct(t)
  <2>1. call' = [call EXCEPT ![t] = [call[t] EXCEPT !.done = call[t].done + 1]]
    BY <1>8 DEF Construct
  <2>2. call'[t] = [call[t] EXCEPT !.done = call[t].done + 1]
    BY <1>1, <2>1
  <2>3. /\ call'[t].kind = call[t].kind /\ call'[t].bounded = call[t].bounded
        /\ call'[t].arg = call[t].arg
    BY <1>1, <2>2 DEF CallType
  <2>4. pc[t] \in Preparing /\ pc'[t] \in Preparing /\ chain' = chain
    BY <1>1, <1>8 DEF Construct
  <2> QED
    BY <1>4, <2>3, <2>4
<1>9. CASE LinkCas(t)
  <2> DEFINE n == call[t].done
  <2>1. /\ pc[t] = "link_cas" /\ pc'[t] = "ret" /\ call' = call /\ val' = val
        /\ chain' = [chain EXCEPT !["tos"] = own[t] \o chain["tos"]]
    BY <1>1, <1>9 DEF LinkCas, Leave
  <2>2. /\ Len(own[t]) = n
        /\ \A i \in 1 .. n : val[own[t][i]] = call[t].arg[n + 1 - i]
        /\ n <= Len(call[t].arg) /\ (call[t].bounded \/ n = Len(call[t].arg))
        /\ call[t].kind \in {"push", "range"}
    BY <1>1, <2>1 DEF DataSound, CallSound
  <2>3. /\ call[t].arg \in Seq(Values) /\ n \in Nat /\ Len(call[t].arg) \in Nat
        /\ val \in Contents
    BY <1>1, LenProperties DEF CallType, TypeOK, Contents
  <2> HIDE DEF n
  <2>4. Read(val, own[t]) = Lifo!Stacked(SubSeq(call[t].arg, 1, n))
    <3>1. Read(val, own[t]) = Lifo!Stacked(SubSeq(call[t].arg, 1, Len(own[t])))
      BY <1>1, <2>2, <2>3, ReadStacked
    <3> QED
      BY <2>2, <3>1
  <2>5. chain["tos"] \in Seq(Nodes) /\ chain'["tos"] = own[t] \o chain["tos"]
    <3>1. "tos" \in Lists /\ chain \in [Lists -> Seq(Nodes)]
      BY <1>1 DEF Lists, TypeOK
    <3> QED
      BY <2>1, <3>1
  <2>6. Read(val, own[t] \o chain["tos"]) = Read(val, own[t]) \o Read(val, chain["tos"])
    BY <1>1, <2>3, <2>5, ReadConcat
  <2>7. AbsStack' = Lifo!Stacked(SubSeq(call[t].arg, 1, n)) \o AbsStack
    <3>1. AbsStack' = Read(val', chain'["tos"]) /\ AbsStack = Read(val, chain["tos"])
      BY DEF AbsStack, ValuesIn, Read
    <3> QED
      BY <2>1, <2>4, <2>5, <2>6, <3>1
  <2>8. Kind(t) = "push" /\ Kind(t)' = "push"
    BY <2>1, <2>2 DEF Kind
  <2>9. ~Effected(t) /\ Effected(t)'
    BY <2>1 DEF Effected, Freeing
  <2>10. Result(t)' = SubSeq(call[t].arg, 1, n)
    BY <2>1, <2>8, <2>9 DEF Result, n
  <2>11. AbsOp(t)' = Lifo!Done(AbsOp(t), SubSeq(call[t].arg, 1, n))
    BY <2>1, <2>9, <2>10, OpTakesEffect
  <2>12. n \in 0 .. Len(call[t].arg) /\ (call[t].bounded \/ n \in {0, Len(call[t].arg)})
    BY <2>2, <2>3
  <2>13. Lifo!Push(t)
    BY <1>3, <2>7, <2>8, <2>9, <2>11, <2>12, LifoPush
  <2> QED
    BY <2>13
<1> QED
  BY <1>5, <1>6, <1>7, <1>8, <1>9 DEF Alloc, Link

\* A removal takes effect when its compare-and-swap succeeds, or when it reads a null head.
LEMMA RefinesPop ==
    ASSUME IInv, DInv, NEW t \in Threads, PopOrAll(t)
    PROVE  Lifo!Pop(t) \/ Lifo!PopAll(t) \/ Lifo!Empty(t) \/ UNCHANGED Lifo!vars
<1>1. /\ DataSound(t) /\ CallSound(t) /\ OwnSound(t) /\ TypeOK /\ ChainsSound
      /\ call \in [Threads -> CallType] /\ pc \in [Threads -> PC] /\ old \in [Threads -> Handle]
      /\ own[t] \in Seq(Nodes) /\ call[t] \in CallType /\ val \in Contents
      /\ "tos" \in Lists /\ chain \in [Lists -> Seq(Nodes)] /\ own \in [Threads -> Seq(Nodes)]
  BY DEF DInv, IInv, TypeOK, CallType, Lists, Contents
<1>2. Step(t)
  BY DEF Step
<1>3. /\ \A u \in Threads \ {t} : AbsOp(u)' = AbsOp(u)
      /\ chain'["tos"] = chain["tos"] => AbsStack' = AbsStack
  BY <1>2, Others
<1>4. AbsStack = Read(val, chain["tos"]) /\ AbsStack' = Read(val', chain'["tos"])
  BY DEF AbsStack, ValuesIn, Read
<1>5. ValuesIn(own[t]) = Read(val, own[t]) /\ ValuesIn(own[t])' = Read(val', own'[t])
  BY DEF ValuesIn, Read
<1>6. CASE PopLoad(t) \/ PopCasFails(t)
  <2>1. /\ pc[t] \in {"pop_load", "pop_cas"} /\ pc'[t] = "pop_next" /\ old'[t] = top["tos"]
        /\ UNCHANGED <<call, own, chain, val>>
    <3>1. pc[t] \in {"pop_load", "pop_cas"} /\ ListOf(pc[t]) = "tos"
      BY <1>6 DEF PopLoad, PopCasFails, ListOf, InPool
    <3> QED
      BY <1>1, <1>6, <3>1 DEF PopLoad, PopCasFails, Load
  <2>2. call[t].kind \in {"pop", "all"} /\ call[t].ret = <<>> /\ own[t] = <<>>
    BY <1>1, <2>1 DEF CallSound, DataSound, OwnSound
  <2>3. ~Effected(t)
    BY <2>1 DEF Effected, Freeing
  <2>4. CASE top["tos"].ptr = NULL
    <3>1. chain["tos"] = <<>>
      <4>1. NULL = First(chain["tos"], NULL) /\ chain["tos"] \in Seq(Nodes)
        BY <1>1, <2>4 DEF ChainsSound
      <4>2. chain["tos"] # <<>> => chain["tos"][1] \in Nodes
        BY <1>1, <4>1, ReadHead, HeadTailProperties
      <4> QED
        BY <4>1, <4>2, StackAssumption DEF First
    <3>2. AbsStack = <<>>
      <4>1. Read(val, <<>>) = <<>>
        BY DEF Read
      <4> QED
        BY <1>4, <3>1, <4>1
    <3>3. Effected(t)'
      BY <2>1, <2>4 DEF Effected
    <3>4. Kind(t) \in {"pop", "all"} /\ Kind(t)' \in {"pop", "all"}
      BY <2>1, <2>2 DEF Kind
    <3>5. Result(t)' = <<>>
      <4>1. Result(t)' = <<>> \o Read(val', <<>>)
        BY <1>5, <2>1, <2>2, <3>3, <3>4 DEF Result, Freeing
      <4>2. Read(val', <<>>) = <<>> /\ <<>> \o <<>> = <<>>
        BY DEF Read
      <4> QED
        BY <4>1, <4>2
    <3>6. AbsOp(t)' = Lifo!Done(AbsOp(t), <<>>)
      BY <2>1, <3>3, <3>5, OpTakesEffect
    <3>7. Lifo!Empty(t)
      BY <1>3, <2>1, <2>3, <3>2, <3>4, <3>6, LifoEmpty
    <3> QED
      BY <3>7
  <2>5. CASE top["tos"].ptr # NULL
    <3>1. ~(Effected(t)')
      BY <2>1, <2>5 DEF Effected, Freeing
    <3>2. AbsOp(t)' = AbsOp(t)
      BY <2>1, <2>3, <3>1, NotYet
    <3> QED
      BY <1>2, <2>1, <3>2, GoesOn
  <2> QED
    BY <2>4, <2>5
<1>7. CASE PopEmpty(t)
  <2>1. /\ pc[t] = "pop_next" /\ pc'[t] = "ret" /\ old[t].ptr = NULL
        /\ UNCHANGED <<call, own, chain, val>>
    BY <1>1, <1>7 DEF PopEmpty, Leave
  <2>2. Effected(t)' = Effected(t)
    BY <2>1 DEF Effected
  <2>3. Result(t)' = Result(t)
    BY <1>5, <2>1, <2>2 DEF Result, Kind, Freeing
  <2>4. AbsOp(t)' = AbsOp(t)
    BY <2>1, <2>2, <2>3, OpGoesOn
  <2> QED
    BY <1>2, <2>1, <2>4, GoesOn
<1>8. CASE PopNext(t)
  <2>1. /\ pc[t] = "pop_next" /\ pc'[t] = "pop_cas" /\ old[t].ptr # NULL
        /\ UNCHANGED <<call, own, chain, val, old>>
    BY <1>1, <1>8 DEF PopNext
  <2>2. ~Effected(t) /\ ~(Effected(t)')
    BY <2>1 DEF Effected, Freeing
  <2>3. AbsOp(t)' = AbsOp(t)
    BY <2>1, <2>2, NotYet
  <2> QED
    BY <1>2, <2>1, <2>3, GoesOn
<1>9. CASE PopCas(t)
  <2> DEFINE s == chain["tos"]
  <2>1. /\ pc[t] = "pop_cas" /\ pc'[t] = "consume" /\ call' = call /\ val' = val
        /\ chain' = [chain EXCEPT !["tos"] = IF call[t].kind = "pop" THEN Tail(s) ELSE <<>>]
        /\ own' = [own EXCEPT ![t] = IF call[t].kind = "pop" THEN <<Head(s)>> ELSE s]
        /\ top[ListOf(pc[t])] = old[t]
    BY <1>1, <1>9 DEF PopCas, Leave, Cas
  <2>2. call[t].kind \in {"pop", "all"} /\ call[t].ret = <<>>
    BY <1>1, <2>1 DEF CallSound, DataSound
  <2>3. s \in Seq(Nodes) /\ s # <<>>
    <3>1. ListOf(pc[t]) = "tos"
      BY <2>1 DEF ListOf, InPool
    <3> QED
      BY <2>1, <3>1, CasHead
  <2>4. ~Effected(t) /\ Effected(t)'
    BY <2>1 DEF Effected, Freeing
  <2>5. Kind(t) = call[t].kind /\ Kind(t)' = call[t].kind
    BY <2>1, <2>2 DEF Kind
  <2>6. Result(t)' = <<>> \o Read(val, own'[t])
    BY <1>5, <2>1, <2>2, <2>4, <2>5 DEF Result, Freeing
  <2>7. /\ Read(val, s) # <<>> /\ Head(Read(val, s)) = val[s[1]]
        /\ Tail(Read(val, s)) = Read(val, Tail(s))
        /\ Read(val, <<Head(s)>>) = <<val[s[1]]>>
    BY <1>1, <2>3, ReadHead
  <2>8. Read(val, s) \in Seq(Values \cup {NULL})
    BY <1>1, <2>3, ReadList
  <2>9. CASE call[t].kind = "pop"
    <3>1. own'[t] = <<Head(s)>> /\ chain'["tos"] = Tail(s)
      BY <1>1, <2>1, <2>9
    <3>2. Result(t)' = <<Head(AbsStack)>>
      <4>1. <<>> \o <<val[s[1]]>> = <<val[s[1]]>>
        OBVIOUS
      <4> QED
        BY <1>4, <2>6, <2>7, <3>1, <4>1
    <3>3. AbsStack # <<>> /\ AbsStack' = Tail(AbsStack)
      BY <1>4, <2>1, <2>7, <3>1
    <3>4. AbsOp(t)' = Lifo!Done(AbsOp(t), <<Head(AbsStack)>>)
      BY <2>1, <2>4, <3>2, OpTakesEffect
    <3>5. Lifo!Pop(t)
      BY <1>3, <2>4, <2>5, <2>9, <3>3, <3>4, LifoPop
    <3> QED
      BY <3>5
  <2>10. CASE call[t].kind = "all"
    <3>1. own'[t] = s /\ chain'["tos"] = <<>>
      BY <1>1, <2>1, <2>10
    <3>2. Result(t)' = AbsStack
      BY <1>4, <2>6, <2>8, <3>1, ConcatEmptySeq
    <3>3. AbsStack # <<>> /\ AbsStack' = <<>>
      <4>1. Read(val', <<>>) = <<>>
        BY DEF Read
      <4> QED
        BY <1>4, <2>7, <3>1, <4>1
    <3>4. AbsOp(t)' = Lifo!Done(AbsOp(t), AbsStack)
      BY <2>1, <2>4, <3>2, OpTakesEffect
    <3>5. Lifo!PopAll(t)
      BY <1>3, <2>4, <2>5, <2>10, <3>3, <3>4, LifoPopAll
    <3> QED
      BY <3>5
  <2> QED
    BY <2>2, <2>9, <2>10
<1>10. CASE Consume(t)
  <2> DEFINE s == own[t]
             e == val[cur[t]]
  <2>1. /\ pc[t] = "consume" /\ pc'[t] = "free_load" /\ UNCHANGED <<own, chain, val>>
        /\ call' = [call EXCEPT ![t] = [call[t] EXCEPT !.ret = Append(call[t].ret, e)]]
    BY <1>1, <1>10 DEF Consume
  <2>2. call'[t] = [call[t] EXCEPT !.ret = Append(call[t].ret, e)]
    BY <1>1, <2>1
  <2>3. /\ call'[t].kind = call[t].kind /\ call'[t].bounded = call[t].bounded
        /\ call'[t].arg = call[t].arg /\ call'[t].ret = Append(call[t].ret, e)
        /\ call[t].ret \in Seq(Values \cup {NULL})
    BY <1>1, <2>2 DEF CallType
  <2>4. call[t].kind \in {"pop", "all"} /\ s # <<>> /\ e = val[s[1]] /\ s \in Seq(Nodes)
    BY <1>1, <2>1 DEF CallSound, OwnSound
  <2>5. /\ Read(val, s) = <<e>> \o Read(val, Tail(s)) /\ s[1] = Head(s)
        /\ Tail(s) \in Seq(Nodes) /\ Head(s) \in Nodes
    BY <1>1, <2>4, ReadHead, HeadTailProperties
  <2>6. e \in Values \cup {NULL} /\ Read(val, Tail(s)) \in Seq(Values \cup {NULL})
    <3>1. Read(val, Tail(s)) \in Seq(Values \cup {NULL})
      BY <1>1, <2>5, ReadList
    <3> QED
      BY <1>1, <2>4, <2>5, <3>1 DEF Contents
  <2>7. Effected(t) /\ Effected(t)'
    BY <2>1, <2>3, <2>4 DEF Effected, Freeing
  <2>8. Kind(t) # "push" /\ Kind(t)' # "push"
    BY <2>3, <2>4 DEF Kind
  <2>9. Result(t) = call[t].ret \o Read(val, s)
    BY <1>5, <2>1, <2>7, <2>8 DEF Result, Freeing
  <2>10. Result(t)' = Append(call[t].ret, e) \o Read(val, Tail(s))
    <3>1. ValuesIn(Tail(own[t]))' = Read(val, Tail(s))
      BY <2>1 DEF ValuesIn, Read
    <3>2. pc'[t] \in Freeing
      BY <2>1 DEF Freeing
    <3> HIDE DEF e
    <3> QED
      BY <2>1, <2>3, <2>7, <2>8, <3>1, <3>2 DEF Result
  <2>11. Result(t)' = Result(t)
    <3> DEFINE r == call[t].ret
               b == Read(val, Tail(s))
    <3>1. r \in Seq(Values \cup {NULL}) /\ b \in Seq(Values \cup {NULL})
      BY <2>3, <2>6
    <3> HIDE DEF r, b, e
    <3>2. Append(r, e) = r \o <<e>> /\ <<e>> \in Seq(Values \cup {NULL})
      BY <2>6, <3>1, AppendIsConcat
    <3>3. (r \o <<e>>) \o b = r \o (<<e>> \o b)
      BY <3>1, <3>2, ConcatAssociative
    <3> QED
      BY <2>5, <2>9, <2>10, <3>2, <3>3 DEF r, b
  <2>12. Effected(t)' = Effected(t)
    BY <2>7 DEF Effected
  <2>13. AbsOp(t)' = AbsOp(t)
    BY <2>3, <2>11, <2>12, OpGoesOn
  <2> QED
    BY <1>2, <2>1, <2>13, GoesOn
<1> QED
  BY <1>6, <1>7, <1>8, <1>9, <1>10 DEF PopOrAll

\* What was taken goes back to the pool one node after the other; after an exception the push
\* has pushed nothing when the last one is back.
LEMMA RefinesFree ==
    ASSUME IInv, DInv, NEW t \in Threads, Free(t)
    PROVE  Lifo!Push(t) \/ UNCHANGED Lifo!vars
<1>1. /\ DataSound(t) /\ CallSound(t) /\ OwnSound(t) /\ TypeOK
      /\ pc \in [Threads -> PC] /\ own \in [Threads -> Seq(Nodes)]
      /\ "tos" \in Lists /\ chain \in [Lists -> Seq(Nodes)]
  BY DEF DInv, IInv, TypeOK, Lists
<1>2. Step(t)
  BY DEF Step
<1>3. /\ \A u \in Threads \ {t} : AbsOp(u)' = AbsOp(u)
      /\ chain'["tos"] = chain["tos"] => AbsStack' = AbsStack
  BY <1>2, Others
<1>4. CASE Unwind(t) \/ FreeLoad(t) \/ FreeCasFails(t) \/ FreeNext(t)
  <2>1. /\ pc[t] \in Freeing \cup {"unwind"} /\ pc'[t] \in Freeing
        /\ UNCHANGED <<call, own, chain, val>>
    BY <1>1, <1>4 DEF Unwind, FreeLoad, FreeCasFails, FreeNext, Load, Freeing
  <2>2. CASE call[t].kind = "range"
    <3>1. ~Effected(t) /\ ~(Effected(t)')
      BY <2>1, <2>2 DEF Effected, Freeing
    <3>2. AbsOp(t)' = AbsOp(t)
      BY <2>1, <3>1, NotYet
    <3> QED
      BY <1>2, <2>1, <3>2, GoesOn
  <2>3. CASE call[t].kind # "range"
    <3>1. pc[t] \in Freeing /\ call[t].kind \in {"pop", "all"}
      BY <1>1, <2>1, <2>3 DEF CallSound
    <3>2. Effected(t) /\ Effected(t)'
      BY <2>1, <3>1 DEF Effected
    <3>3. Effected(t)' = Effected(t)
      BY <3>2 DEF Effected
    <3>4. ValuesIn(Tail(own[t]))' = ValuesIn(Tail(own[t]))
      BY <2>1 DEF ValuesIn
    <3>5. Kind(t)' = Kind(t)
      BY <2>1 DEF Kind
    <3>6. Result(t)' = Result(t)
      BY <2>1, <3>1, <3>2, <3>4, <3>5 DEF Result
    <3>7. AbsOp(t)' = AbsOp(t)
      BY <2>1, <3>3, <3>6, OpGoesOn
    <3> QED
      BY <1>2, <2>1, <3>7, GoesOn
  <2> QED
    BY <2>2, <2>3
<1>5. CASE FreeCas(t)
  <2>1. /\ pc[t] = "free_cas" /\ call' = call /\ val' = val /\ own'[t] = Tail(own[t])
        /\ pc'[t] = (IF nxt[t] = NULL THEN "ret"
                     ELSE IF call[t].kind = "range" THEN "unwind" ELSE "consume")
        /\ chain'["tos"] = chain["tos"]
    BY <1>1, <1>5 DEF FreeCas, Leave
  <2>2. CASE call[t].kind = "range"
    <3>1. ~Effected(t) /\ call[t].done = 0
      BY <1>1, <2>1, <2>2 DEF Effected, Freeing, DataSound
    <3>2. CASE nxt[t] = NULL
      BY <1>3, <2>1, <2>2, <3>1, <3>2, PushNothing
    <3>3. CASE nxt[t] # NULL
      <4>1. ~(Effected(t)')
        BY <2>1, <2>2, <3>3 DEF Effected, Freeing
      <4>2. AbsOp(t)' = AbsOp(t)
        BY <2>1, <3>1, <4>1, NotYet
      <4> QED
        BY <1>2, <2>1, <4>2, GoesOn
    <3> QED
      BY <3>2, <3>3
  <2>3. CASE call[t].kind # "range"
    <3>1. pc[t] \in Freeing /\ call[t].kind \in {"pop", "all"} /\ pc'[t] \in {"ret", "consume"}
      BY <1>1, <2>1, <2>3 DEF CallSound, Freeing
    <3>2. Effected(t) /\ Effected(t)'
      BY <2>1, <3>1 DEF Effected
    <3>3. Effected(t)' = Effected(t)
      BY <3>2 DEF Effected
    <3>4. ValuesIn(own[t])' = ValuesIn(Tail(own[t]))
      BY <2>1 DEF ValuesIn
    <3>5. Kind(t)' = Kind(t) /\ Kind(t) # "push"
      BY <2>1, <3>1 DEF Kind
    <3>6. pc'[t] \notin Freeing
      BY <3>1 DEF Freeing
    <3>7. Result(t)' = call[t].ret \o ValuesIn(Tail(own[t]))
      BY <2>1, <3>2, <3>4, <3>5, <3>6 DEF Result
    <3>8. Result(t) = call[t].ret \o ValuesIn(Tail(own[t]))
      BY <3>1, <3>2, <3>5 DEF Result
    <3>9. AbsOp(t)' = AbsOp(t)
      BY <2>1, <3>3, <3>7, <3>8, OpGoesOn
    <3> QED
      BY <1>2, <2>1, <3>9, GoesOn
  <2> QED
    BY <2>2, <2>3
<1> QED
  BY <1>4, <1>5 DEF Free

\* Every step of the stack is a step of LifoStack, or none that LifoStack can see.
LEMMA RefinesNext == IInv /\ DInv /\ [Next]_vars => [Lifo!Next]_(Lifo!vars)
<1> SUFFICES ASSUME IInv, DInv, [Next]_vars PROVE Lifo!Next \/ UNCHANGED Lifo!vars
  OBVIOUS
<1>1. CASE Next
  <2>1. PICK t \in Threads : CallPush(t) \/ CallPop(t) \/ Step(t)
    BY <1>1 DEF Next
  <2>2. \/ Lifo!CallPush(t) \/ Lifo!CallPop(t) \/ Lifo!Push(t) \/ Lifo!Pop(t) \/ Lifo!PopAll(t)
        \/ Lifo!Empty(t) \/ Lifo!Return(t) \/ UNCHANGED Lifo!vars
    BY <2>1, RefinesCalls, RefinesPush, RefinesPop, RefinesFree DEF Step
  <2> QED
    BY <2>2 DEF Lifo!Next
<1>2. CASE UNCHANGED vars
  <2>1. \A u \in Threads : AbsOp(u)' = AbsOp(u)
    <3> SUFFICES ASSUME NEW u \in Threads PROVE AbsOp(u)' = AbsOp(u)
      OBVIOUS
    <3>1. Kind(u)' = Kind(u)
      BY <1>2 DEF Kind, vars
    <3>2. Effected(u)' = Effected(u)
      BY <1>2 DEF Effected, vars
    <3>3. Result(u)' = Result(u)
      BY <1>2, <3>1, <3>2 DEF Result, ValuesIn, vars
    <3> QED
      BY <1>2, <3>1, <3>2, <3>3 DEF AbsOp, vars
  <2>2. AbsStack' = AbsStack
    BY <1>2 DEF AbsStack, ValuesIn, vars
  <2> QED
    BY <2>1, <2>2, LifoStutter
<1> QED
  BY <1>1, <1>2

\* The empty stack is the empty LifoStack.
LEMMA RefinesInit == Init => Lifo!Init
<1> SUFFICES ASSUME Init PROVE Lifo!Init
  OBVIOUS
<1>1. AbsStack = <<>>
  <2>1. chain["tos"] = <<>>
    BY DEF Init, Lists
  <2> QED
    BY <2>1 DEF AbsStack, ValuesIn
<1>2. ASSUME NEW t \in Threads PROVE AbsOp(t) = Lifo!NoOp
  <2>1. pc[t] = "idle" /\ call[t] = NoCall
    BY DEF Init
  <2>2. Effected(t) = FALSE
    BY <2>1 DEF Effected, Freeing
  <2>3. Result(t) = <<>>
    BY <2>2 DEF Result
  <2>4. Kind(t) = "none" /\ call[t].bounded = FALSE /\ call[t].arg = <<>>
    BY <2>1 DEF Kind, NoCall
  <2> QED
    BY <2>2, <2>3, <2>4 DEF AbsOp, Lifo!NoOp, Lifo!Called
<1>3. [t \in Threads |-> AbsOp(t)] = [t \in Threads |-> Lifo!NoOp]
  BY <1>2
<1> QED
  BY <1>1, <1>3 DEF Lifo!Init, AbsStack, AbsOp

\* The elements in the nodes are what the invariant says in every state.
THEOREM StackDataSound == Spec => [](IInv /\ DInv)
<1>1. Init => IInv /\ DInv
  BY IInvInit, DataInit
<1>2. (IInv /\ DInv) /\ [Next]_vars => (IInv /\ DInv)'
  BY IInvNext, DataNext
<1> QED
  BY <1>1, <1>2, PTL DEF Spec

\* The stack is linearizable: however many threads push to it and pop from it at once, and
\* whatever compare-and-swap fails or allocation throws, every operation of stack.hpp takes
\* effect at one instant as an operation of LifoStack.
THEOREM StackLinearizable == Spec => Linearizable
<1>1. IInv /\ DInv /\ [Next]_vars => [Lifo!Next]_(Lifo!vars)
  BY RefinesNext
<1>2. Init => Lifo!Init
  BY RefinesInit
<1> QED
  BY <1>1, <1>2, StackDataSound, PTL DEF Spec, Linearizable, Lifo!Spec

=============================================================================
