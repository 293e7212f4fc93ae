------------------------------ MODULE MCEvents ------------------------------
(***************************************************************************)
(* The two event loops for TLC: redis' ae and the kernel's epoll.  A       *)
(* behaviour is a behaviour of one of them; the other stands still.        *)
(***************************************************************************)
EXTENDS AeEventLoop, EventPoll, TLC

VARIABLE focus

\* aeMain's flags, and a caller that must not block
MCFlags == {{"file", "time"}, {"file", "dont_wait"}}
\* One level-triggered file, one that is edge-triggered or one-shot
MCModes == [f \in EpFiles |-> IF f = "f1" THEN {"LT"} ELSE {"ET", "ONESHOT"}]

\* The waiters are interchangeable
MCSymmetry == Permutations(EpWaiters)

MCInit == focus \in {"ae", "epoll"} /\ AeInit /\ EpInit

MCNext ==
    \/ focus = "ae" /\ AeNext /\ UNCHANGED <<focus, epVars>>
    \/ focus = "epoll" /\ EpNext /\ UNCHANGED <<focus, aeVars>>

MCSpec == MCInit /\ [][MCNext]_<<focus, aeVars, epVars>>
=============================================================================
