------------------------------ MODULE MCParts ------------------------------
(***************************************************************************)
(* Components that do not interact, for TLC: the page table of redis' swap *)
(* file, the hand-over of its jobs, zmalloc's counter, the hash table of   *)
(* libstdc++, and boost's stack with single elements under fairness.  A    *)
(* behaviour is a behaviour of one of them, chosen in the initial state;   *)
(* the others stand still.                                                 *)
(***************************************************************************)
EXTENDS VMPages, VMQueue, Zmalloc, Hashtable, SequencesExt

CONSTANTS StackThreads, Nodes, PoolNodes, Values, TagMod, NULL

VARIABLES focus, top, next, val, fresh, pc, call, old, nxt, cur, age, chain, own

stackVars == <<top, next, val, fresh, pc, call, old, nxt, cur, age, chain, own>>

Stack == INSTANCE LockFreeStack WITH
    Threads <- StackThreads,
    Pushes <- {[kind |-> "push", bounded |-> TRUE, arg |-> <<1>>]}

\* Three keys that collide in every table but not in the same way
MCHash == [k \in HtKeys |-> k]

Parts == {"pages", "queue", "malloc", "hashtable", "stack"}

\* The parts that stand still do so in one of their initial states.  The nodes of the stack are
\* interchangeable, so its pool starts with them in one order.
MCInit ==
    /\ focus \in Parts
    /\ PagesInit /\ QueueInit /\ ZInit /\ HtInit /\ Stack!Init
    /\ chain["pool"] = SetToSeq(PoolNodes)
    /\ focus # "hashtable" => htUnique

In(part) == focus = part /\ UNCHANGED focus

MCNext ==
    \/ In("pages") /\ PagesNext /\ UNCHANGED <<queueVars, zVars, htVars, stackVars>>
    \/ In("queue") /\ QueueNext /\ UNCHANGED <<pagesVars, zVars, htVars, stackVars>>
    \/ In("malloc") /\ ZNext /\ UNCHANGED <<pagesVars, queueVars, htVars, stackVars>>
    \/ In("hashtable") /\ HtNext /\ UNCHANGED <<pagesVars, queueVars, zVars, stackVars>>
    \/ In("stack") /\ Stack!Next /\ UNCHANGED <<pagesVars, queueVars, zVars, htVars>>

\* The fairness of PagesFairSpec and of the stack's FairSpec, for the part that runs
MCFairness ==
    /\ WF_pagesVars(focus = "pages" /\ (Found \/ Scan \/ NotFound))
    /\ \A t \in StackThreads :
          /\ WF_stackVars(focus = "stack" /\ Stack!Step(t))
          /\ SF_stackVars(focus = "stack" /\ Stack!Swaps(t))

MCSpec == /\ MCInit
          /\ [][MCNext]_<<focus, pagesVars, queueVars, zVars, htVars, stackVars>>
          /\ MCFairness

\* boost's stack is lock-free: while a thread is in an operation, some operation ends, however
\* the compare-and-swaps of stack.hpp and freelist.hpp disturb each other
LockFree == Stack!LockFree
============================================================================
