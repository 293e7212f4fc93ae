--------------------------- MODULE MCLockFreeStack ---------------------------
(***************************************************************************)
(* Two components of C++ libraries that do not interact, for TLC: boost's  *)
(* stack, with a node in the pool and one in the allocator, and the counts *)
(* of libstdc++'s shared_ptr.  A behaviour is a behaviour of one of them,  *)
(* chosen in the initial state; the other stands still.                    *)
(***************************************************************************)
EXTENDS LockFreeStack, SharedPtr, TLC

CONSTANTS t1, t2, n1, n2

VARIABLE focus

\* What is pushed.  The code does not look at the elements: two values tell the order of a range.
MCOne == {[kind |-> "push", bounded |-> TRUE, arg |-> <<1>>]}
MCRange == MCOne \cup {[kind |-> "range", bounded |-> b, arg |-> <<2, 1>>] : b \in BOOLEAN}

\* The component that stands still does so in one of its initial states.
MCInit ==
    /\ focus \in {"stack", "pointers"}
    /\ Init /\ SpInit
    /\ focus = "stack" => spPolicy = "atomic"

In(part) == focus = part /\ UNCHANGED focus

MCNext ==
    \/ In("stack") /\ Next /\ UNCHANGED spVars
    \/ In("pointers") /\ SpNext /\ UNCHANGED vars

MCSpec == MCInit /\ [][MCNext]_<<focus, vars, spVars>>

\* The threads are interchangeable in both
ThreadSymmetry == Permutations(Threads)

=============================================================================
