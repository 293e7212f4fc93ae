----------------------------- MODULE MCAndroid -----------------------------
(***************************************************************************)
(* Android's message queue and its broadcast queue for TLC.  A behaviour   *)
(* is a behaviour of one of them; the other stands still.                  *)
(***************************************************************************)
EXTENDS MessageQueue, BroadcastQueue

VARIABLE focus

\* One registered receiver and two manifest receivers, of two applications; the second manifest
\* receiver comes last by its priority.
MCRegistered == <<"f1">>
MCComponents == <<"c1", "c2">>
MCAppOf == [x \in {"f1", "c1", "c2"} |-> IF x = "c1" THEN "b" ELSE "a"]
MCPriority == [x \in {"f1", "c1", "c2"} |-> IF x = "c2" THEN 0 ELSE 1]

\* The part that stands still does so in one of its initial states.
MCInit ==
    /\ focus \in {"messages", "broadcasts"}
    /\ MqInit /\ BcInit
    /\ focus = "messages" => bcProc = [app \in BcApps |-> "dead"]

MCNext ==
    \/ focus = "messages" /\ MqNext /\ UNCHANGED <<focus, bcVars>>
    \/ focus = "broadcasts" /\ BcNext /\ UNCHANGED <<focus, mqVars>>

\* MqFairness, for the part that runs
MCFairness ==
    /\ WF_mqVars(focus = "messages" /\ LooperNext)
    /\ WF_mqVars(focus = "messages" /\ BarrierIsRemoved)

MCSpec == MCInit /\ [][MCNext]_<<focus, mqVars, bcVars>> /\ MCFairness
=============================================================================
