--------------------------- MODULE LockFreeStack ---------------------------
(***************************************************************************)
(* boost::lockfree::stack over its freelist (boost/lockfree/stack.hpp and  *)
(* boost/lockfree/detail/freelist.hpp), one atomic access per step.        *)
(*                                                                         *)
(* Two Treiber lists share the nodes: the stack ("tos") and the free nodes *)
(* ("pool").  They also share the first word of a node: the freelist casts *)
(* a node to freelist_node, so next[n] is the link of whatever list n is   *)
(* in.  Each list head is a pointer with a tag that grows when a node is   *)
(* taken and stays when one is put back.                                   *)
(*                                                                         *)
(* The tag has 16 bits and wraps.  age[t] counts the removals since t read *)
(* a head it is about to remove from: the model assumes that no thread is  *)
(* held up for TagMod removals between that read and its compare-and-swap, *)
(* and nothing else.  Memory is sequentially consistent.  Locals that are  *)
(* no longer read are reset.                                               *)
(***************************************************************************)
EXTENDS Integers, Sequences, FiniteSets

CONSTANTS
    Threads,
    Nodes,      \* memory for nodes
    PoolNodes,  \* nodes allocated for the freelist by the constructor
    Values,
    Pushes,     \* the pushes that are called: [kind, bounded, arg], see CallPush
    TagMod,     \* number of tags, 2^16
    NULL

ASSUME StackAssumption ==
    /\ IsFiniteSet(Nodes) /\ PoolNodes \subseteq Nodes
    /\ Pushes \subseteq [kind : {"push", "range"}, bounded : BOOLEAN, arg : Seq(Values) \ {<<>>}]
    /\ \A p \in Pushes : p.kind = "push" => Len(p.arg) = 1
    /\ TagMod \in Nat \ {0}
    /\ NULL \notin Nodes

VARIABLES
    top,    \* top[L]: the heads tos and pool_, [ptr, tag]
    next,   \* next[n]: first word of node n
    val,    \* val[n]: the element in node n
    fresh,  \* nodes still in the memory allocator
    pc,     \* per thread: where it is,
    call,   \* the operation, its argument and the elements seen so far,
    old,    \* old_tos or old_pool,
    nxt,    \* the next pointer it read,
    cur,    \* the node it works on,
    age,    \* removals from the list of `old` since it was read (while Removing);
    chain,  \* history: chain[L], the nodes of list L in order,
    own     \* history: own[t], the nodes only thread t may touch, in order

vars == <<top, next, val, fresh, pc, call, old, nxt, cur, age, chain, own>>

Lists == {"tos", "pool"}
Handle == [ptr : Nodes \cup {NULL}, tag : 0..(TagMod - 1)]

\* Mutant: the tag never changes
SameTag(h) == h.tag
\* tagged_index::get_next_tag, tagged_ptr::get_next_tag: (tag + 1) & 0xffff
get_next_tag(h) == IF h.tag + 1 = TagMod THEN 0 ELSE h.tag + 1

NoCall == [kind |-> "none", bounded |-> FALSE, arg |-> <<>>, done |-> 0, ret |-> <<>>]
NoHandle == [ptr |-> NULL, tag |-> 0]

Idle == {"idle", "ret"}
InPool == {"alloc_load", "alloc_next", "alloc_cas", "free_load", "free_next", "free_cas"}
Freeing == {"free_load", "free_next", "free_cas"}
\* A thread that holds a copy of a head from which it is going to remove
Removing == {"alloc_next", "alloc_cas", "pop_next", "pop_cas"}
PC == Idle \cup InPool \cup Removing \cup {"construct", "link_load", "link_next", "link_cas",
                                            "pop_load", "consume", "unwind"}

\* The list a thread is reading or changing, by its program counter
ListOf(p) == IF p \in InPool THEN "pool" ELSE "tos"

----------------------------------------------------------------------------
(* Atomic accesses *)

\* atomic load of a head into the local copy
Load(t, after) ==
    /\ old' = [old EXCEPT ![t] = top[ListOf(pc[t])]]
    /\ age' = [age EXCEPT ![t] = 0]
    /\ pc' = [pc EXCEPT ![t] = after]

\* compare_exchange_weak that succeeds
Cas(t, new) ==
    /\ top[ListOf(pc[t])] = old[t]
    /\ top' = [top EXCEPT ![ListOf(pc[t])] = new]

\* A removal makes every other copy of this head older; it waits for no thread to fall
\* TagMod removals behind
Aging(t) ==
    LET Holders == {u \in Threads \ {t} : pc[u] \in Removing /\ ListOf(pc[u]) = ListOf(pc[t])}
    IN  /\ \A u \in Holders : age[u] + 1 < TagMod
        /\ age' = [u \in Threads |-> IF u \in Holders THEN age[u] + 1
                                     ELSE IF u = t THEN 0 ELSE age[u]]

\* Leaving a loop: its locals go out of scope
Leave(t, after) ==
    /\ pc' = [pc EXCEPT ![t] = after]
    /\ old' = [old EXCEPT ![t] = NoHandle]
    /\ nxt' = [nxt EXCEPT ![t] = NULL]

----------------------------------------------------------------------------
(* push of one element ("push") or of a range ("range").  bounded_push, and any push on a  *)
(* fixed-size freelist, is bounded: an empty pool makes it fail.  Otherwise nodes come    *)
(* from the allocator.                                                                    *)

CallPush(t) ==
    /\ pc[t] = "idle"
    /\ \E p \in Pushes :
          call' = [call EXCEPT ![t] = [NoCall EXCEPT !.kind = p.kind, !.bounded = p.bounded,
                                                     !.arg = p.arg]]
    /\ pc' = [pc EXCEPT ![t] = "alloc_load"]
    /\ UNCHANGED <<top, next, val, fresh, old, nxt, cur, age, chain, own>>

\* allocate_impl: read the head of the pool
AllocLoad(t) ==
    /\ pc[t] = "alloc_load"
    /\ Load(t, "alloc_next")
    /\ UNCHANGED <<top, next, val, fresh, call, nxt, cur, chain, own>>

PoolEmpty(t) ==
    /\ pc[t] = "alloc_next" /\ old[t].ptr = NULL
    /\ age' = [age EXCEPT ![t] = 0]

\* The pool is empty and the push unbounded: a node comes from the memory allocator
AllocFresh(t) ==
    /\ PoolEmpty(t) /\ ~call[t].bounded
    /\ \E n \in fresh :
          /\ fresh' = fresh \ {n}
          /\ cur' = [cur EXCEPT ![t] = n]
          /\ own' = [own EXCEPT ![t] = <<n>> \o @]
    /\ Leave(t, "construct")
    /\ UNCHANGED <<top, next, val, call, chain>>

\* The pool is empty and the push bounded: what is prepared is pushed, if anything
AllocFails(t) ==
    /\ PoolEmpty(t) /\ call[t].bounded
    /\ Leave(t, IF own[t] = <<>> THEN "ret" ELSE "link_load")
    /\ UNCHANGED <<top, next, val, fresh, call, cur, chain, own>>

\* Mutant: what was prepared before the exception is pushed
AllocThrowsPushes(t) ==
    /\ PoolEmpty(t) /\ ~call[t].bounded /\ fresh = {}
    /\ Leave(t, IF own[t] = <<>> THEN "ret" ELSE "link_load")
    /\ UNCHANGED <<top, next, val, fresh, call, cur, chain, own>>

\* The allocator throws: the nodes prepared so far are destroyed and the exception goes on
AllocThrows(t) ==
    /\ PoolEmpty(t) /\ ~call[t].bounded /\ fresh = {}
    /\ call' = [call EXCEPT ![t].done = 0]
    /\ Leave(t, IF own[t] = <<>> THEN "ret" ELSE "unwind")
    /\ cur' = [cur EXCEPT ![t] = IF own[t] = <<>> THEN NULL ELSE own[t][1]]
    /\ UNCHANGED <<top, next, val, fresh, chain, own>>

\* old_pool->next: the node may meanwhile belong to anyone
AllocNext(t) ==
    /\ pc[t] = "alloc_next" /\ old[t].ptr # NULL
    /\ nxt' = [nxt EXCEPT ![t] = next[old[t].ptr]]
    /\ pc' = [pc EXCEPT ![t] = "alloc_cas"]
    /\ UNCHANGED <<top, next, val, fresh, call, old, cur, age, chain, own>>

AllocCas(t) ==
    /\ pc[t] = "alloc_cas"
    /\ Cas(t, [ptr |-> nxt[t], tag |-> get_next_tag(old[t])])
    /\ Aging(t)
    /\ chain' = [chain EXCEPT !["pool"] = Tail(@)]
    /\ own' = [own EXCEPT ![t] = <<old[t].ptr>> \o @]
    /\ cur' = [cur EXCEPT ![t] = old[t].ptr]
    /\ Leave(t, "construct")
    /\ UNCHANGED <<next, val, fresh, call>>

\* compare_exchange_weak fails, because the head changed or spuriously: the local copy is
\* refreshed and the loop starts again
AllocCasFails(t) ==
    /\ pc[t] = "alloc_cas"
    /\ Load(t, "alloc_next")
    /\ UNCHANGED <<top, next, val, fresh, call, nxt, cur, chain, own>>

\* construct leaves next alone; prepare_node_list links the new node in front of the others
Construct(t) ==
    /\ pc[t] = "construct"
    /\ val' = [val EXCEPT ![cur[t]] = call[t].arg[call[t].done + 1]]
    /\ next' = IF call[t].kind = "push" THEN next
               ELSE [next EXCEPT ![cur[t]] = IF Len(own[t]) = 1 THEN NULL ELSE own[t][2]]
    /\ call' = [call EXCEPT ![t].done = @ + 1]
    /\ cur' = [cur EXCEPT ![t] = NULL]
    /\ pc' = [pc EXCEPT ![t] = IF call[t].done + 1 < Len(call[t].arg) THEN "alloc_load"
                               ELSE "link_load"]
    /\ UNCHANGED <<top, fresh, old, nxt, age, chain, own>>

\* link_nodes_atomic
LinkLoad(t) ==
    /\ pc[t] = "link_load"
    /\ Load(t, "link_next")
    /\ UNCHANGED <<top, next, val, fresh, call, nxt, cur, chain, own>>

LinkNext(t) ==
    /\ pc[t] = "link_next"
    /\ next' = [next EXCEPT ![own[t][Len(own[t])]] = old[t].ptr]
    /\ pc' = [pc EXCEPT ![t] = "link_cas"]
    /\ UNCHANGED <<top, val, fresh, call, old, nxt, cur, age, chain, own>>

LinkCas(t) ==
    /\ pc[t] = "link_cas"
    /\ Cas(t, [ptr |-> own[t][1], tag |-> old[t].tag])
    /\ chain' = [chain EXCEPT !["tos"] = own[t] \o @]
    /\ own' = [own EXCEPT ![t] = <<>>]
    /\ Leave(t, "ret")
    /\ UNCHANGED <<next, val, fresh, call, cur, age>>

\* Mutant: the local copy of the head is not refreshed
LinkCasKeepsOld(t) ==
    /\ pc[t] = "link_cas"
    /\ pc' = [pc EXCEPT ![t] = "link_next"]
    /\ UNCHANGED <<top, next, val, fresh, call, old, nxt, cur, age, chain, own>>

LinkCasFails(t) ==
    /\ pc[t] = "link_cas"
    /\ Load(t, "link_next")
    /\ UNCHANGED <<top, next, val, fresh, call, nxt, cur, chain, own>>

----------------------------------------------------------------------------
(* pop, consume_one ("pop") and consume_all_atomic ("all") *)

CallPop(t) ==
    /\ pc[t] = "idle"
    /\ \E k \in {"pop", "all"} : call' = [call EXCEPT ![t] = [NoCall EXCEPT !.kind = k]]
    /\ pc' = [pc EXCEPT ![t] = "pop_load"]
    /\ UNCHANGED <<top, next, val, fresh, old, nxt, cur, age, chain, own>>

PopLoad(t) ==
    /\ pc[t] = "pop_load"
    /\ Load(t, "pop_next")
    /\ UNCHANGED <<top, next, val, fresh, call, nxt, cur, chain, own>>

\* The head was null: the stack was empty when it was read
PopEmpty(t) ==
    /\ pc[t] = "pop_next" /\ old[t].ptr = NULL
    /\ age' = [age EXCEPT ![t] = 0]
    /\ Leave(t, "ret")
    /\ UNCHANGED <<top, next, val, fresh, call, cur, chain, own>>

\* The new head: the next pointer of the old one, or null to take everything
PopNext(t) ==
    /\ pc[t] = "pop_next" /\ old[t].ptr # NULL
    /\ nxt' = [nxt EXCEPT ![t] = IF call[t].kind = "pop" THEN next[old[t].ptr] ELSE NULL]
    /\ pc' = [pc EXCEPT ![t] = "pop_cas"]
    /\ UNCHANGED <<top, next, val, fresh, call, old, cur, age, chain, own>>

PopCas(t) ==
    /\ pc[t] = "pop_cas"
    /\ Cas(t, [ptr |-> nxt[t], tag |-> get_next_tag(old[t])])
    /\ Aging(t)
    /\ LET taken == IF call[t].kind = "pop" THEN <<Head(chain["tos"])>> ELSE chain["tos"]
           left == IF call[t].kind = "pop" THEN Tail(chain["tos"]) ELSE <<>>
       IN  /\ chain' = [chain EXCEPT !["tos"] = left]
           /\ own' = [own EXCEPT ![t] = taken]
    /\ cur' = [cur EXCEPT ![t] = old[t].ptr]
    /\ Leave(t, "consume")
    /\ UNCHANGED <<next, val, fresh, call>>

PopCasFails(t) ==
    /\ pc[t] = "pop_cas"
    /\ Load(t, "pop_next")
    /\ UNCHANGED <<top, next, val, fresh, call, nxt, cur, chain, own>>

\* The functor is applied to the node; consume_all_atomic reads the link before it frees it
Consume(t) ==
    /\ pc[t] = "consume"
    /\ call' = [call EXCEPT ![t].ret = Append(@, val[cur[t]])]
    /\ nxt' = [nxt EXCEPT ![t] = IF call[t].kind = "pop" THEN NULL ELSE next[cur[t]]]
    /\ pc' = [pc EXCEPT ![t] = "free_load"]
    /\ UNCHANGED <<top, next, val, fresh, old, cur, age, chain, own>>

\* The handler of prepare_node_list reads the link of a prepared node before it frees it
Unwind(t) ==
    /\ pc[t] = "unwind"
    /\ nxt' = [nxt EXCEPT ![t] = next[cur[t]]]
    /\ pc' = [pc EXCEPT ![t] = "free_load"]
    /\ UNCHANGED <<top, next, val, fresh, call, old, cur, age, chain, own>>

\* destruct: deallocate_impl
FreeLoad(t) ==
    /\ pc[t] = "free_load"
    /\ Load(t, "free_next")
    /\ UNCHANGED <<top, next, val, fresh, call, nxt, cur, chain, own>>

FreeNext(t) ==
    /\ pc[t] = "free_next"
    /\ next' = [next EXCEPT ![cur[t]] = old[t].ptr]
    /\ pc' = [pc EXCEPT ![t] = "free_cas"]
    /\ UNCHANGED <<top, val, fresh, call, old, nxt, cur, age, chain, own>>

\* The node is in the pool; the loops over several nodes go on with the next one
FreeCas(t) ==
    /\ pc[t] = "free_cas"
    /\ Cas(t, [ptr |-> cur[t], tag |-> old[t].tag])
    /\ chain' = [chain EXCEPT !["pool"] = <<cur[t]>> \o @]
    /\ own' = [own EXCEPT ![t] = Tail(@)]
    /\ cur' = [cur EXCEPT ![t] = nxt[t]]
    /\ Leave(t, IF nxt[t] = NULL THEN "ret"
                ELSE IF call[t].kind = "range" THEN "unwind" ELSE "consume")
    /\ UNCHANGED <<next, val, fresh, call, age>>

FreeCasFails(t) ==
    /\ pc[t] = "free_cas"
    /\ Load(t, "free_next")
    /\ UNCHANGED <<top, next, val, fresh, call, nxt, cur, chain, own>>

Return(t) ==
    /\ pc[t] = "ret"
    /\ pc' = [pc EXCEPT ![t] = "idle"]
    /\ call' = [call EXCEPT ![t] = NoCall]
    /\ UNCHANGED <<top, next, val, fresh, old, nxt, cur, age, chain, own>>

----------------------------------------------------------------------------

\* The constructors: the pool holds PoolNodes, linked in some order; the stack is empty;
\* nothing was stored in a node yet
Init ==
    /\ \E s \in [1..Cardinality(PoolNodes) -> PoolNodes] :
          /\ \A i, j \in DOMAIN s : s[i] = s[j] => i = j
          /\ chain = [L \in Lists |-> IF L = "pool" THEN s ELSE <<>>]
          /\ next \in [Nodes -> Nodes \cup {NULL}]
          /\ \A i \in DOMAIN s : next[s[i]] = IF i = Len(s) THEN NULL ELSE s[i + 1]
          /\ \A n \in Nodes \ PoolNodes : next[n] = NULL
          /\ top = [L \in Lists |-> [ptr |-> IF L = "pool" /\ s # <<>> THEN s[1] ELSE NULL,
                                     tag |-> 0]]
    /\ val = [n \in Nodes |-> NULL]
    /\ fresh = Nodes \ PoolNodes
    /\ pc = [t \in Threads |-> "idle"]
    /\ call = [t \in Threads |-> NoCall]
    /\ old = [t \in Threads |-> NoHandle]
    /\ nxt = [t \in Threads |-> NULL]
    /\ cur = [t \in Threads |-> NULL]
    /\ age = [t \in Threads |-> 0]
    /\ own = [t \in Threads |-> <<>>]

Alloc(t) == AllocLoad(t) \/ AllocFresh(t) \/ AllocFails(t) \/ AllocThrows(t) \/ AllocNext(t)
            \/ AllocCas(t) \/ AllocCasFails(t)
Link(t) == LinkLoad(t) \/ LinkNext(t) \/ LinkCas(t) \/ LinkCasFails(t)
PopOrAll(t) == PopLoad(t) \/ PopEmpty(t) \/ PopNext(t) \/ PopCas(t) \/ PopCasFails(t) \/ Consume(t)
Free(t) == Unwind(t) \/ FreeLoad(t) \/ FreeNext(t) \/ FreeCas(t) \/ FreeCasFails(t)

Step(t) == Alloc(t) \/ Construct(t) \/ Link(t) \/ PopOrAll(t) \/ Free(t) \/ Return(t)
Next == \E t \in Threads : CallPush(t) \/ CallPop(t) \/ Step(t)

Spec == Init /\ [][Next]_vars

\* A compare-and-swap of the thread that succeeds
Swaps(t) == AllocCas(t) \/ LinkCas(t) \/ PopCas(t) \/ FreeCas(t)

\* A thread inside an operation is scheduled again and again, and a compare_exchange_weak
\* does not fail spuriously for ever
FairSpec == Spec /\ \A t \in Threads : WF_vars(Step(t)) /\ SF_vars(Swaps(t))

----------------------------------------------------------------------------
(* Properties *)

\* Types
TypeOK ==
    /\ top \in [Lists -> Handle]
    /\ next \in [Nodes -> Nodes \cup {NULL}]
    /\ val \in [Nodes -> Values \cup {NULL}]
    /\ fresh \subseteq Nodes
    /\ pc \in [Threads -> PC]
    /\ call \in [Threads -> [kind : {"none", "push", "range", "pop", "all"}, bounded : BOOLEAN,
                             arg : Seq(Values), done : Nat, ret : Seq(Values \cup {NULL})]]
    /\ old \in [Threads -> Handle]
    /\ nxt \in [Threads -> Nodes \cup {NULL}]
    /\ cur \in [Threads -> Nodes \cup {NULL}]
    /\ age \in [Threads -> 0..(TagMod - 1)]
    /\ chain \in [Lists -> Seq(Nodes)]
    /\ own \in [Threads -> Seq(Nodes)]

\* s is a list of distinct nodes that starts at p and follows the next pointers to null
Linked(s, p) ==
    /\ \A i, j \in DOMAIN s : s[i] = s[j] => i = j
    /\ p = IF s = <<>> THEN NULL ELSE s[1]
    /\ \A i \in DOMAIN s : next[s[i]] = IF i = Len(s) THEN NULL ELSE s[i + 1]

\* Both lists are what their heads say: no compare-and-swap with a head that was read long
\* ago ever links a node that left the list (ABA), although the nodes are reused at once and
\* share their link with the other list
ListsIntact == \A L \in Lists : Linked(chain[L], top[L].ptr)

\* No node is lost or in two places: it is in the stack, in the pool, in the hands of one
\* thread, or still in the allocator; an operation that has ended, with an exception too,
\* keeps none
Held(s) == {s[i] : i \in DOMAIN s}
NoNodeLost ==
    /\ fresh \cup (UNION {Held(chain[L]) : L \in Lists}) \cup (UNION {Held(own[t]) : t \in Threads})
          = Nodes
    /\ Held(chain["tos"]) \cap Held(chain["pool"]) = {}
    /\ \A L \in Lists : Held(chain[L]) \cap fresh = {}
    /\ \A t \in Threads :
          /\ pc[t] \in Idle => own[t] = <<>>
          /\ Held(own[t]) \cap fresh = {}
          /\ \A L \in Lists : Held(own[t]) \cap Held(chain[L]) = {}
          /\ \A u \in Threads \ {t} : Held(own[t]) \cap Held(own[u]) = {}

\* Neither a stale compare-and-swap nor an exception of the allocator corrupts the two lists of
\* stack.hpp and freelist.hpp or loses a node between them
StackSound == TypeOK /\ ListsIntact /\ NoNodeLost

\* The stack is linearizable: it implements LifoStack.  A push takes effect when its
\* compare-and-swap succeeds, a removal too, and an operation that finds nothing when it
\* reads the null head.
ValuesIn(s) == [i \in DOMAIN s |-> val[s[i]]]
Kind(t) == IF call[t].kind = "range" THEN "push" ELSE call[t].kind
Effected(t) ==
    \/ pc[t] \in {"ret", "consume"}
    \/ pc[t] \in Freeing /\ call[t].kind \in {"pop", "all"}
    \/ pc[t] = "pop_next" /\ old[t].ptr = NULL
Result(t) ==
    IF ~Effected(t) THEN <<>>
    ELSE IF Kind(t) = "push" THEN SubSeq(call[t].arg, 1, call[t].done)
    ELSE call[t].ret \o ValuesIn(IF pc[t] \in Freeing THEN Tail(own[t]) ELSE own[t])

Lifo == INSTANCE LifoStack WITH
    stack <- ValuesIn(chain["tos"]),
    op <- [t \in Threads |-> [kind |-> Kind(t), bounded |-> call[t].bounded, arg |-> call[t].arg,
                              done |-> Effected(t), ret |-> Result(t)]]

Linearizable == Lifo!Spec

\* Lock-freedom: while a thread is in an operation, some operation ends again and again,
\* however the compare-and-swaps disturb each other
LockFree == \A t \in Threads : (pc[t] \notin Idle) ~> (\E u \in Threads : pc[u] = "ret")

============================================================================
