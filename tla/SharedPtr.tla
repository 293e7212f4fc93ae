----------------------------- MODULE SharedPtr -----------------------------
(***************************************************************************)
(* The reference counts of libstdc++'s shared_ptr and weak_ptr             *)
(* (shared_ptr_base.h).                                                    *)
(*                                                                         *)
(* Threads own shared_ptr and weak_ptr variables and assign them; the      *)
(* counters of a control block are shared, and every access to them is a   *)
(* step.  Objects are list nodes: each holds a shared_ptr to the next one  *)
(* and the weak_ptr to itself of enable_shared_from_this, so disposing of  *)
(* one releases others in the middle of _M_release.  What an operation has *)
(* yet to do is the thread's work, a stack.  The lock policy is _S_atomic  *)
(* or _S_mutex.                                                            *)
(***************************************************************************)
EXTENDS Integers, Sequences, FiniteSets

CONSTANTS SpThreads,
          SpBlocks,    \* control blocks, each with the object it manages
          SpSlots,     \* the shared_ptr variables of a thread; it has one weak_ptr variable
          SpNull

\* Finitely many threads, variables and blocks, none of which is the null pointer
ASSUME SpAssumption ==
    /\ SpNull \notin SpBlocks /\ SpNull \notin SpThreads
    /\ IsFiniteSet(SpThreads) /\ IsFiniteSet(SpBlocks) /\ IsFiniteSet(SpSlots)

VARIABLES
    spCount,    \* _M_use_count and _M_weak_count of each block
    spState,    \* free: no such block; live; disposed: the object is gone, the block is not
    spNext,     \* the shared_ptr member of each object
    spMutex,    \* the thread in a block's mutex (_S_mutex)
    spShared,   \* the shared_ptr variables
    spWeakPtr,  \* the weak_ptr variables
    spWork,     \* what each thread's operation has yet to do
    spPolicy    \* the lock policy

spVars == <<spCount, spState, spNext, spMutex, spShared, spWeakPtr, spWork, spPolicy>>

SpInit ==
    /\ spCount = [b \in SpBlocks |-> [use |-> 0, weak |-> 0]]
    /\ spState = [b \in SpBlocks |-> "free"]
    /\ spNext = [b \in SpBlocks |-> SpNull]
    /\ spMutex = [b \in SpBlocks |-> SpNull]
    /\ spShared = [t \in SpThreads |-> [s \in SpSlots |-> SpNull]]
    /\ spWeakPtr = [t \in SpThreads |-> SpNull]
    /\ spWork = [t \in SpThreads |-> <<>>]
    /\ spPolicy \in {"atomic", "mutex"}

Task(op, b) == [op |-> op, b |-> b, count |-> 0, slot |-> SpNull]
\* An operation on a null pointer does nothing.
TaskOn(op, b) == IF b = SpNull THEN <<>> ELSE <<Task(op, b)>>

SpIdle(t) == spWork[t] = <<>>
Doing(t, op) == spWork[t] # <<>> /\ Head(spWork[t]).op = op
Blk(t) == Head(spWork[t]).b
\* The operation at hand is replaced by others
Continue(t, work) == spWork' = [spWork EXCEPT ![t] = work \o Tail(@)]

-----------------------------------------------------------------------------
(* Operations.  Only the thread itself sees its variables: they are set at *)
(* once, and the old value is released afterwards.                         *)

\* __shared_count::operator=
AssignWork(old, new) == TaskOn("add_ref_copy", new) \o TaskOn("release", old)

\* p = q, p = nullptr, p = p->next
SharedAssign(t, s, new) ==
    /\ SpIdle(t)
    /\ new # spShared[t][s]
    /\ new \in {SpNull} \cup {spShared[t][r] : r \in SpSlots}
              \cup (IF spShared[t][s] = SpNull THEN {} ELSE {spNext[spShared[t][s]]})
    /\ spShared' = [spShared EXCEPT ![t][s] = new]
    /\ spWork' = [spWork EXCEPT ![t] = AssignWork(spShared[t][s], new)]
    /\ UNCHANGED <<spCount, spState, spNext, spMutex, spWeakPtr, spPolicy>>

\* A new node in front of the list p: the block starts with both counters at one, the member
\* takes over p's reference, and _M_weak_assign sets the weak_ptr of enable_shared_from_this.
MakeShared(t, s, b) ==
    /\ SpIdle(t)
    /\ spState[b] = "free"
    /\ spState' = [spState EXCEPT ![b] = "live"]
    /\ spCount' = [spCount EXCEPT ![b] = [use |-> 1, weak |-> 2]]
    /\ spNext' = [spNext EXCEPT ![b] = spShared[t][s]]
    /\ spShared' = [spShared EXCEPT ![t][s] = b]
    /\ UNCHANGED <<spMutex, spWeakPtr, spWork, spPolicy>>

\* A copy of p is moved into a null pointer of another thread that waits for it.
Send(t, s, u, r) ==
    /\ SpIdle(t) /\ SpIdle(u) /\ t # u
    /\ spShared[t][s] # SpNull /\ spShared[u][r] = SpNull
    /\ spCount' = [spCount EXCEPT ![spShared[t][s]].use = @ + 1]
    /\ spShared' = [spShared EXCEPT ![u][r] = spShared[t][s]]
    /\ UNCHANGED <<spState, spNext, spMutex, spWeakPtr, spWork, spPolicy>>

\* w = p, w = p->weak_from_this(), w.reset(): __weak_count::operator=
WeakAssign(t, new) ==
    /\ SpIdle(t)
    /\ new \in {SpNull} \cup {spShared[t][s] : s \in SpSlots}
    /\ spWeakPtr' = [spWeakPtr EXCEPT ![t] = new]
    /\ spWork' = [spWork EXCEPT ![t] = TaskOn("weak_add_ref", new)
                                         \o TaskOn("weak_release", spWeakPtr[t])]
    /\ UNCHANGED <<spCount, spState, spNext, spMutex, spShared, spPolicy>>

\* p = w.lock(), or p = shared_ptr(w), which throws where lock() returns null
Lock(t, s) ==
    /\ SpIdle(t)
    /\ spWeakPtr[t] # SpNull /\ spShared[t][s] = SpNull
    /\ spWork' = [spWork EXCEPT ![t] =
         <<[Task(IF spPolicy = "atomic" THEN "load" ELSE "lock", spWeakPtr[t]) EXCEPT !.slot = s]>>]
    /\ UNCHANGED <<spCount, spState, spNext, spMutex, spShared, spWeakPtr, spPolicy>>

-----------------------------------------------------------------------------
(* _Sp_counted_base *)

_M_add_ref_copy(t) ==
    /\ Doing(t, "add_ref_copy")
    /\ spCount' = [spCount EXCEPT ![Blk(t)].use = @ + 1]
    /\ Continue(t, <<>>)
    /\ UNCHANGED <<spState, spNext, spMutex, spShared, spWeakPtr, spPolicy>>

\* The last owner disposes of the object and then gives up the owners' share of the weak count.
_M_release(t) ==
    /\ Doing(t, "release")
    /\ spCount' = [spCount EXCEPT ![Blk(t)].use = @ - 1]
    /\ Continue(t, IF spCount[Blk(t)].use = 1
                    THEN <<Task("dispose", Blk(t)), Task("weak_release", Blk(t))>> ELSE <<>>)
    /\ UNCHANGED <<spState, spNext, spMutex, spShared, spWeakPtr, spPolicy>>

\* _M_dispose runs the object's destructor, which releases its members.
_M_dispose(t) ==
    /\ Doing(t, "dispose")
    /\ spState' = [spState EXCEPT ![Blk(t)] = "disposed"]
    /\ spNext' = [spNext EXCEPT ![Blk(t)] = SpNull]
    /\ Continue(t, TaskOn("release", spNext[Blk(t)]) \o <<Task("weak_release", Blk(t))>>)
    /\ UNCHANGED <<spCount, spMutex, spShared, spWeakPtr, spPolicy>>

_M_weak_add_ref(t) ==
    /\ Doing(t, "weak_add_ref")
    /\ spCount' = [spCount EXCEPT ![Blk(t)].weak = @ + 1]
    /\ Continue(t, <<>>)
    /\ UNCHANGED <<spState, spNext, spMutex, spShared, spWeakPtr, spPolicy>>

_M_weak_release(t) ==
    /\ Doing(t, "weak_release")
    /\ spCount' = [spCount EXCEPT ![Blk(t)].weak = @ - 1]
    /\ Continue(t, IF spCount[Blk(t)].weak = 1 THEN <<Task("destroy", Blk(t))>> ELSE <<>>)
    /\ UNCHANGED <<spState, spNext, spMutex, spShared, spWeakPtr, spPolicy>>

_M_destroy(t) ==
    /\ Doing(t, "destroy")
    /\ spState' = [spState EXCEPT ![Blk(t)] = "free"]
    /\ Continue(t, <<>>)
    /\ UNCHANGED <<spCount, spNext, spMutex, spShared, spWeakPtr, spPolicy>>

\* _M_add_ref_lock and _M_add_ref_lock_nothrow of _S_atomic: read the counter, ...
LockLoad(t) ==
    /\ Doing(t, "load")
    /\ spWork' = [spWork EXCEPT ![t][1].op = "cas", ![t][1].count = spCount[Blk(t)].use]
    /\ UNCHANGED <<spCount, spState, spNext, spMutex, spShared, spWeakPtr, spPolicy>>

Locked(t) == spShared' = [spShared EXCEPT ![t][Head(spWork[t]).slot] = Blk(t)]

\* Mutant: the counter may be zero
LockCasAnyCount(t) ==
    /\ Doing(t, "cas")
    /\ IF Head(spWork[t]).count = spCount[Blk(t)].use
         THEN /\ spCount' = [spCount EXCEPT ![Blk(t)].use = @ + 1]
              /\ Locked(t) /\ Continue(t, <<>>)
         ELSE /\ spWork' = [spWork EXCEPT ![t][1].count = spCount[Blk(t)].use]
              /\ UNCHANGED <<spCount, spShared>>
    /\ UNCHANGED <<spState, spNext, spMutex, spWeakPtr, spPolicy>>

\* ... and add one if it is not zero and has not changed; if it has, try again.
LockCas(t) ==
    LET count == Head(spWork[t]).count IN
    /\ Doing(t, "cas")
    /\ \/ count = 0 /\ Continue(t, <<>>) /\ UNCHANGED <<spCount, spShared>>
       \/ /\ count # 0 /\ count = spCount[Blk(t)].use
          /\ spCount' = [spCount EXCEPT ![Blk(t)].use = @ + 1]
          /\ Locked(t) /\ Continue(t, <<>>)
       \/ /\ count # 0 /\ count # spCount[Blk(t)].use
          /\ spWork' = [spWork EXCEPT ![t][1].count = spCount[Blk(t)].use]
          /\ UNCHANGED <<spCount, spShared>>
    /\ UNCHANGED <<spState, spNext, spMutex, spWeakPtr, spPolicy>>

\* The same of _S_mutex: add one under the mutex, ...
LockMutex(t) ==
    /\ Doing(t, "lock") /\ spMutex[Blk(t)] = SpNull
    /\ spCount' = [spCount EXCEPT ![Blk(t)].use = @ + 1]
    /\ IF spCount[Blk(t)].use = 0
         THEN /\ spMutex' = [spMutex EXCEPT ![Blk(t)] = t]
              /\ spWork' = [spWork EXCEPT ![t][1].op = "undo"]
              /\ UNCHANGED spShared
         ELSE Locked(t) /\ Continue(t, <<>>) /\ UNCHANGED spMutex
    /\ UNCHANGED <<spState, spNext, spWeakPtr, spPolicy>>

\* ... and store zero if it was zero.
LockUndo(t) ==
    /\ Doing(t, "undo")
    /\ spCount' = [spCount EXCEPT ![Blk(t)].use = 0]
    /\ spMutex' = [spMutex EXCEPT ![Blk(t)] = SpNull]
    /\ Continue(t, <<>>)
    /\ UNCHANGED <<spState, spNext, spShared, spWeakPtr, spPolicy>>

-----------------------------------------------------------------------------

SpNext ==
    \/ \E t \in SpThreads, s \in SpSlots, b \in SpBlocks \cup {SpNull} : SharedAssign(t, s, b)
    \/ \E t \in SpThreads, s \in SpSlots, b \in SpBlocks : MakeShared(t, s, b)
    \/ \E t, u \in SpThreads, s, r \in SpSlots : Send(t, s, u, r)
    \/ \E t \in SpThreads, b \in SpBlocks \cup {SpNull} : WeakAssign(t, b)
    \/ \E t \in SpThreads, s \in SpSlots : Lock(t, s)
    \/ \E t \in SpThreads :
          \/ _M_add_ref_copy(t) \/ _M_release(t) \/ _M_dispose(t)
          \/ _M_weak_add_ref(t) \/ _M_weak_release(t) \/ _M_destroy(t)
          \/ LockLoad(t) \/ LockCas(t) \/ LockMutex(t) \/ LockUndo(t)

SpSpec == SpInit /\ [][SpNext]_spVars

-----------------------------------------------------------------------------

\* The states a block may be in when an operation on it is pending
Allowed(op) == CASE op \in {"add_ref_copy", "release", "dispose"} -> {"live"}
                 [] op = "destroy" -> {"disposed"}
                 [] OTHER -> {"live", "disposed"}

\* Somebody will still give up a reference to the block
Referenced(b) ==
    \/ \E t \in SpThreads : \/ spWeakPtr[t] = b
                            \/ \E s \in SpSlots : spShared[t][s] = b
                            \/ \E i \in DOMAIN spWork[t] : spWork[t][i].b = b
    \/ \E c \in SpBlocks : spNext[c] = b

\* However releases, locks of weak pointers and destructors that release further pointers
\* interleave: what a shared_ptr points to has not been disposed of, no counter of a block that
\* was destroyed is touched, an object is disposed of once and its block destroyed once, by
\* the last reference and not earlier, and none is forgotten.
CountsSound ==
    /\ \A t \in SpThreads :
          /\ \A s \in SpSlots : spShared[t][s] # SpNull => spState[spShared[t][s]] = "live"
          /\ spWeakPtr[t] # SpNull => spState[spWeakPtr[t]] # "free"
          /\ \A i \in DOMAIN spWork[t] : spState[spWork[t][i].b] \in Allowed(spWork[t][i].op)
    /\ \A b \in SpBlocks : /\ spNext[b] # SpNull => spState[spNext[b]] = "live"
                           /\ spState[b] # "free" <=> Referenced(b)
============================================================================
