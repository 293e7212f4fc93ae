----------------------------- MODULE Hashtable -----------------------------
(***************************************************************************)
(* libstdc++'s _Hashtable (hashtable.h): all nodes are on one singly       *)
(* linked list, those of a bucket next to each other, and a bucket holds   *)
(* the node BEFORE its first one, which may be the table's _M_before_begin *)
(* or a node of another bucket.  Every operation that moves a node has to  *)
(* repair the bucket behind it.                                            *)
(*                                                                         *)
(* A table has unique keys (unordered_map) or equivalent ones              *)
(* (unordered_multimap).  When it grows, and to which size, is left open.  *)
(***************************************************************************)
EXTENDS Integers, Sequences, FiniteSets, SequencesExt

CONSTANTS HtNodes,   \* nodes that can be allocated, a set of numbers
          HtKeys,
          HtHash,    \* the hash code of each key
          HtSizes    \* bucket counts, 1 among them

\* Addresses that are not those of nodes
BeforeBegin == 0
Nullptr == -1

ASSUME HtAssumption == HtNodes \subseteq Nat \ {0}

VARIABLES
    htNxt,      \* _M_nxt of every node and of _M_before_begin
    htBuckets,  \* _M_buckets, a function on 0 .. _M_bucket_count - 1
    htCount,    \* _M_element_count
    htKey,      \* the key in each node
    htUnique,   \* __unique_keys
    htBag       \* history: how many elements with each key the table is to hold

htVars == <<htNxt, htBuckets, htCount, htKey, htUnique, htBag>>

Places == HtNodes \cup {BeforeBegin}
NoKey == CHOOSE k \in HtKeys : TRUE
NoBuckets(n) == [b \in 0 .. n - 1 |-> Nullptr]
SizeOf(buckets) == Cardinality(DOMAIN buckets)

HtInit ==
    /\ htNxt = [p \in Places |-> Nullptr]
    /\ htBuckets = NoBuckets(1)
    /\ htCount = 0
    /\ htKey = [p \in HtNodes |-> NoKey]
    /\ htUnique \in BOOLEAN
    /\ htBag = [k \in HtKeys |-> 0]

\* The nodes from p on
ListFrom(nxt, p) ==
    LET list[q \in HtNodes \cup {Nullptr}] == IF q = Nullptr THEN <<>> ELSE <<q>> \o list[nxt[q]]
    IN  list[p]
List == ListFrom(htNxt, htNxt[BeforeBegin])

\* _M_bucket_index, for a table of n buckets
Bkt(p, n) == HtHash[htKey[p]] % n
BktHere(p) == Bkt(p, SizeOf(htBuckets))
BktOfKey(k, n) == HtHash[k] % n

\* A table as the operations pass it on
Table == [nxt |-> htNxt, buckets |-> htBuckets, key |-> htKey]
BktIn(T, p) == HtHash[T.key[p]] % SizeOf(T.buckets)

\* The node before the first one with the key in its bucket, or nullptr
_M_find_before_node(T, k) ==
    LET n == BktOfKey(k, SizeOf(T.buckets))
        search[prev \in Places] ==
            LET p == T.nxt[prev] IN
            IF T.key[p] = k THEN prev
            ELSE IF T.nxt[p] = Nullptr \/ BktIn(T, T.nxt[p]) # n THEN Nullptr
            ELSE search[p]
    IN  IF T.buckets[n] = Nullptr THEN Nullptr ELSE search[T.buckets[n]]

_M_get_previous_node(p) ==
    LET search[prev \in Places] == IF htNxt[prev] = p THEN prev ELSE search[htNxt[prev]]
    IN  search[htBuckets[BktHere(p)]]

-----------------------------------------------------------------------------
(* Rehashing *)

\* p goes to the front of bucket b: behind what the bucket points to or, for an empty one, to
\* the front of the list, where the bucket that began there (front) now begins behind p.
PushFront(T, b, p, front) ==
    LET first == T.nxt[BeforeBegin] IN
    IF T.buckets[b] # Nullptr
    THEN [T EXCEPT !.nxt[p] = T.nxt[T.buckets[b]], !.nxt[T.buckets[b]] = p]
    ELSE [T EXCEPT !.nxt[p] = first, !.nxt[BeforeBegin] = p,
                   !.buckets = [c \in DOMAIN @ |-> IF c = b THEN BeforeBegin
                                                   ELSE IF first # Nullptr /\ c = front THEN p
                                                   ELSE @[c]]]

\* The bucket behind the last node that was put in place begins behind that node
RepairNext(T, prev) ==
    IF T.nxt[prev] # Nullptr /\ BktIn(T, T.nxt[prev]) # BktIn(T, prev)
    THEN [T EXCEPT !.buckets[BktIn(T, T.nxt[prev])] = prev] ELSE T

\* Where a rehash is: the table so far, __bbegin_bkt, __prev_p and __check_bucket
Start(n) == [T |-> [nxt |-> [htNxt EXCEPT ![BeforeBegin] = Nullptr], buckets |-> NoBuckets(n), key |-> htKey],
             front |-> 0, prev |-> Nullptr, check |-> FALSE]

MoveToFront(st, p) ==
    LET b == BktIn(st.T, p) IN
    [st EXCEPT !.T = PushFront(@, b, p, st.front), !.prev = p, !.check = FALSE,
               !.front = IF st.T.buckets[b] = Nullptr THEN b ELSE @]

\* Mutant: equivalent nodes are moved to the front too, in reverse order
MoveEquivalentToFront(st, p) == MoveToFront(st, p)

\* Mutant: the bucket behind a run of nodes of one bucket is not looked at
MoveEquivalentUnchecked(st, p) ==
    IF st.prev # Nullptr /\ BktIn(st.T, st.prev) = BktIn(st.T, p)
    THEN [st EXCEPT !.T.nxt[p] = st.T.nxt[st.prev], !.T.nxt[st.prev] = p, !.prev = p]
    ELSE MoveToFront(st, p)

\* With equivalent keys a node that follows one of the same bucket stays behind it; the bucket
\* that follows is repaired when the run of such nodes ends.
MoveEquivalent(st, p) ==
    IF st.prev # Nullptr /\ BktIn(st.T, st.prev) = BktIn(st.T, p)
    THEN [st EXCEPT !.T.nxt[p] = st.T.nxt[st.prev], !.T.nxt[st.prev] = p, !.prev = p, !.check = TRUE]
    ELSE MoveToFront(IF st.check THEN [st EXCEPT !.T = RepairNext(@, st.prev)] ELSE st, p)

\* _M_rehash_aux for unique and for equivalent keys
_M_rehash(n) ==
    IF htUnique THEN FoldLeft(MoveToFront, Start(n), List).T
    ELSE LET end == FoldLeft(MoveEquivalent, Start(n), List)
         IN  IF end.check THEN RepairNext(end.T, end.prev) ELSE end.T

\* rehash and reserve.  If the buckets cannot be allocated nothing changes.
rehash(n) ==
    /\ n # SizeOf(htBuckets)
    /\ htNxt' = _M_rehash(n).nxt /\ htBuckets' = _M_rehash(n).buckets
    /\ UNCHANGED <<htCount, htKey, htUnique, htBag>>

-----------------------------------------------------------------------------
(* Insertion *)

FreeNodes == HtNodes \ ToSet(List)
\* _M_allocate_node
NewNode == CHOOSE p \in FreeNodes : \A q \in FreeNodes : p <= q

\* The table in which the node is put: it may have grown first.
Grown(n, k) == [IF n = SizeOf(htBuckets) THEN Table ELSE _M_rehash(n) EXCEPT !.key[NewNode] = k]

_M_insert_bucket_begin(T, b, p) ==
    PushFront(T, b, p, IF T.nxt[BeforeBegin] = Nullptr THEN b ELSE BktIn(T, T.nxt[BeforeBegin]))

\* The operation leaves the table T; what is in nodes that it does not hold is gone.
Becomes(T) ==
    LET L == ToSet(ListFrom(T.nxt, T.nxt[BeforeBegin])) IN
    /\ htNxt' = [p \in Places |-> IF p \in L \cup {BeforeBegin} THEN T.nxt[p] ELSE Nullptr]
    /\ htKey' = [p \in HtNodes |-> IF p \in L THEN T.key[p] ELSE NoKey]
    /\ htBuckets' = T.buckets

Inserted(k) == htCount' = htCount + 1 /\ htBag' = [htBag EXCEPT ![k] = @ + 1] /\ UNCHANGED htUnique

\* _M_insert and _M_emplace for unique keys: a key that is present is left alone.
InsertUnique(k, n) ==
    /\ htUnique /\ FreeNodes # {} /\ n >= SizeOf(htBuckets)
    /\ IF _M_find_before_node(Table, k) # Nullptr
         THEN UNCHANGED htVars
         ELSE /\ Becomes(_M_insert_bucket_begin(Grown(n, k), BktOfKey(k, n), NewNode))
              /\ Inserted(k)

\* The same for equivalent keys: behind the hint if that is equivalent, else before the first
\* equivalent element, else at the front of the bucket.
_M_insert_multi_node(T, hint, k, p) ==
    LET b == BktOfKey(k, SizeOf(T.buckets))
        prev == IF hint # Nullptr /\ T.key[hint] = k THEN hint ELSE _M_find_before_node(T, k)
        next == T.nxt[prev]
        U == [T EXCEPT !.nxt[p] = next, !.nxt[prev] = p]
    IN  IF prev = Nullptr THEN _M_insert_bucket_begin(T, b, p)
        ELSE IF /\ prev = hint /\ next # Nullptr
                /\ T.key[next] # k /\ BktIn(T, next) # b
             THEN [U EXCEPT !.buckets[BktIn(T, next)] = p]
             ELSE U

InsertMulti(k, n, hint) ==
    /\ ~htUnique /\ FreeNodes # {} /\ n >= SizeOf(htBuckets)
    /\ Becomes(_M_insert_multi_node(Grown(n, k), hint, k, NewNode))
    /\ Inserted(k)

-----------------------------------------------------------------------------
(* Erasure *)

\* The bucket b has lost the nodes from its first up to next: if it is empty now, the bucket
\* of next begins where it began.
_M_remove_bucket_begin(T, b, next) ==
    IF next # Nullptr /\ BktIn(T, next) = b THEN T
    ELSE [T EXCEPT !.nxt[BeforeBegin] = IF T.buckets[b] = BeforeBegin THEN next ELSE @,
                   !.buckets = [c \in DOMAIN @ |-> IF c = b THEN Nullptr
                                                   ELSE IF next # Nullptr /\ c = BktIn(T, next) THEN @[b]
                                                   ELSE @[c]]]

\* _M_erase: the nodes of bucket b between prev and next go.
Unlink(T, b, prev, next) ==
    LET U == IF prev = T.buckets[b] THEN _M_remove_bucket_begin(T, b, next)
             ELSE IF next # Nullptr /\ BktIn(T, next) # b
               THEN [T EXCEPT !.buckets[BktIn(T, next)] = prev] ELSE T
    IN  [U EXCEPT !.nxt[prev] = next]

Erased(nodes) ==
    /\ htCount' = htCount - Cardinality(nodes)
    /\ htBag' = [k \in HtKeys |-> htBag[k] - Cardinality({p \in nodes : htKey[p] = k})]
    /\ UNCHANGED htUnique

\* erase(const_iterator)
EraseNode(p) ==
    /\ p \in ToSet(List)
    /\ Becomes(Unlink(Table, BktHere(p), _M_get_previous_node(p), htNxt[p]))
    /\ Erased({p})

\* The nodes that the loop of erase(key) takes, from p on
EqualRun(p, k) ==
    LET run[q \in HtNodes \cup {Nullptr}] ==
          IF q = Nullptr THEN {} ELSE IF htKey[q] # k THEN {} ELSE {q} \cup run[htNxt[q]]
    IN  {p} \cup (IF htUnique THEN {} ELSE run[htNxt[p]])

\* erase(const key_type&)
EraseKey(k) ==
    LET prev == _M_find_before_node(Table, k)
        gone == EqualRun(htNxt[prev], k)
        next == CHOOSE q \in {htNxt[p] : p \in gone} : q \notin gone
    IN  /\ prev # Nullptr
        /\ Becomes(Unlink(Table, BktOfKey(k, SizeOf(htBuckets)), prev, next))
        /\ htCount' = htCount - Cardinality(gone)
        /\ htBag' = [htBag EXCEPT ![k] = 0]
        /\ UNCHANGED htUnique

\* One round of erase(first, last): the nodes of one bucket, up to next, are gone
RangeRound(st, run) ==
    LET b == BktHere(run[1])
        next == htNxt[Last(run)]
    IN  [T |-> IF st.begin THEN _M_remove_bucket_begin(st.T, b, next) ELSE st.T, begin |-> TRUE, b |-> b]

\* The nodes from position i up to before j, cut where the bucket changes
Runs(i, j) ==
    LET cut == {m \in i .. j - 1 : m = i \/ BktHere(List[m]) # BktHere(List[m - 1])}
    IN  [r \in 1 .. Cardinality(cut) |->
           LET from == CHOOSE m \in cut : Cardinality({c \in cut : c < m}) = r - 1
               to == CHOOSE m \in from .. j - 1 : (m = j - 1 \/ m + 1 \in cut) /\ \A c \in from + 1 .. m : c \notin cut
           IN  SubSeq(List, from, to)]

\* erase(const_iterator, const_iterator): positions i up to before j, bucket after bucket
EraseRange(i, j) ==
    LET n == List[i]
        prev == _M_get_previous_node(n)
        last == IF j > Len(List) THEN Nullptr ELSE List[j]
        end == FoldLeft(RangeRound,
                        [T |-> Table, begin |-> n = htNxt[htBuckets[BktHere(n)]], b |-> 0], Runs(i, j))
        single == Len(Runs(i, j)) = 1
        isBegin == ~single \/ n = htNxt[htBuckets[BktHere(n)]]
        T == IF last # Nullptr /\ (BktHere(last) # end.b \/ isBegin)
               THEN [end.T EXCEPT !.buckets[BktHere(last)] = prev] ELSE end.T
    IN  /\ i < j
        /\ Becomes([T EXCEPT !.nxt[prev] = last])
        /\ Erased(ToSet(SubSeq(List, i, j - 1)))

clear ==
    /\ htCount > 0
    /\ Becomes([nxt |-> [htNxt EXCEPT ![BeforeBegin] = Nullptr],
                buckets |-> NoBuckets(SizeOf(htBuckets)), key |-> htKey])
    /\ Erased(ToSet(List))

-----------------------------------------------------------------------------

HtNext ==
    \/ \E n \in HtSizes : rehash(n)
    \/ \E k \in HtKeys, n \in HtSizes : InsertUnique(k, n)
    \/ \E k \in HtKeys, n \in HtSizes : \E hint \in ToSet(List) \cup {Nullptr} : InsertMulti(k, n, hint)
    \/ \E p \in HtNodes : EraseNode(p)
    \/ \E k \in HtKeys : EraseKey(k)
    \/ \E i \in DOMAIN List : \E j \in i + 1 .. Len(List) + 1 : EraseRange(i, j)
    \/ clear

HtSpec == HtInit /\ [][HtNext]_htVars

-----------------------------------------------------------------------------

\* After any sequence of insertions with hints, erasures of elements, keys and ranges, and
\* rehashes: the list holds the elements it is to hold, those of a bucket and those with one key
\* next to each other, a bucket points to the node before its first one or, if it is empty,
\* nowhere, and with unique keys no key is there twice.
TableIntact ==
    LET L == List
        at == [i \in DOMAIN L |-> BktHere(L[i])]
        before(i) == IF i = 1 THEN BeforeBegin ELSE L[i - 1]
    IN  /\ htCount = Len(L)
        /\ \A k \in HtKeys : htBag[k] = Cardinality({i \in DOMAIN L : htKey[L[i]] = k})
        /\ htUnique => \A k \in HtKeys : htBag[k] <= 1
        /\ \A i, j \in DOMAIN L : i < j =>
              /\ at[i] = at[j] => \A m \in i .. j : at[m] = at[i]
              /\ htKey[L[i]] = htKey[L[j]] => \A m \in i .. j : htKey[L[m]] = htKey[L[i]]
        /\ \A b \in DOMAIN htBuckets :
              LET first == {i \in DOMAIN L : at[i] = b /\ (i = 1 \/ at[i - 1] # b)}
              IN  htBuckets[b] = IF first = {} THEN Nullptr ELSE before(CHOOSE i \in first : TRUE)

\* Equivalent elements keep their relative order: no rehash, and no insertion or erasure of
\* others, swaps two elements with one key ("preserve their relative order").
OrderKept ==
    [][\A p, q \in ToSet(List) \cap ToSet(ListFrom(htNxt', htNxt'[BeforeBegin])) :
         LET now == ListFrom(htNxt', htNxt'[BeforeBegin]) IN
         /\ htKey[p] = htKey[q] /\ htKey'[p] = htKey[p] /\ htKey'[q] = htKey[q]
         /\ SelectInSeq(List, LAMBDA x : x = p) < SelectInSeq(List, LAMBDA x : x = q)
         => SelectInSeq(now, LAMBDA x : x = p) < SelectInSeq(now, LAMBDA x : x = q)]_htVars
============================================================================
