------------------------------- MODULE MCAQS -------------------------------
(* Small instances of AQS for TLC *)
EXTENDS AQSCondition, TLC

CONSTANTS t1, t2, t3, t4

Op(call, shared, how) == [call |-> call, shared |-> shared, how |-> how]
Locked(how) == <<Op("acquire", FALSE, how), Op("release", FALSE, "plain")>>

\* On a mutex, one timed thread among plain ones, or two neighbours that are interrupted
MCTimed == [t \in Threads |-> Locked(IF t = t3 THEN "nanos" ELSE "plain")]
MCInterrupted == [t \in Threads |-> Locked(IF t \in {t2, t3} THEN "interruptibly" ELSE "plain")]
MCContended == {MCTimed, MCInterrupted}

\* Threads that await or signal between an acquire and a release
Within(call, how) ==
    <<Op("acquire", FALSE, "plain"), Op(call, FALSE, how), Op("release", FALSE, "plain")>>
MCSignal == t1 :> Within("await", "interruptibly") @@ t2 :> Within("await", "nanos")
         @@ t3 :> Within("signal", "plain")
MCSignalAll == t1 :> Within("await", "nanos") @@ t2 :> Within("signalAll", "plain")
            @@ t3 :> Within("await", "plain")
MCRelink == t1 :> Within("await", "plain") @@ t2 :> Within("await", "nanos")
         @@ t3 :> <<Op("acquire", FALSE, "plain"), Op("await", FALSE, "nanos"),
                    Op("signalAll", FALSE, "plain"), Op("release", FALSE, "plain")>>

\* A semaphore: two threads wait and one releases twice
MCShared == {t1 :> <<Op("acquire", TRUE, "plain")>> @@ t2 :> <<Op("acquire", TRUE, "interruptibly")>>
             @@ t3 :> <<Op("release", TRUE, "plain"), Op("release", TRUE, "plain")>>}

MCPrograms == MCShared \cup {MCSignal, MCSignalAll, MCRelink}

\* The nodes of t1 and t2 that wait for a signal in the beginning
MCWaiting ==
    IF program \in {MCSignal, MCRelink} THEN {<<t1, 2>>, <<t2, 2>>}
    ELSE IF program = MCSignalAll THEN {<<t1, 2>>} ELSE {}

\* Later in the life of the mutex: t1 holds it, and the others are queued and parked in the
\* order of ts; whoever is not is about to come.
MCQueued(ts) ==
    LET Behind(i) == IF i = 1 THEN Dummy ELSE <<ts[i - 1], 1>>
        Before(i) == IF i = Len(ts) THEN NULL ELSE <<ts[i + 1], 1>>
        Place(t) == CHOOSE i \in DOMAIN ts : ts[i] = t
    IN  /\ state = 1 /\ head = Dummy /\ tail = Behind(Len(ts) + 1)
        /\ order = [i \in DOMAIN ts |-> <<ts[i], 1>>]
        /\ node = [n \in NewNodes |->
              IF n = Dummy THEN [NewNode(NULL) EXCEPT !.ws = SIGNAL, !.next = Before(0)]
              ELSE IF n \notin {order[i] : i \in DOMAIN ts} THEN NewNode(NULL)
              ELSE LET i == Place(n[1])
                   IN  [ws |-> IF i = Len(ts) THEN 0 ELSE SIGNAL, prev |-> Behind(i),
                        next |-> Before(i), thread |-> n[1]]]
        /\ th = [t \in Threads |->
              IF t = t1 THEN [Start EXCEPT !.i = 2]
              ELSE IF t \notin {ts[i] : i \in DOMAIN ts} THEN Start
              ELSE [Start EXCEPT !.pc = "park", !.pred = Behind(Place(t))]]
        /\ permit = [t \in Threads |-> FALSE]
        /\ intr = [t \in Threads |-> FALSE]

MCContendedInit ==
    /\ \/ program = MCTimed /\ MCQueued(<<t2, t3>>) /\ victims = {}
       \/ program = MCInterrupted /\ MCQueued(<<t2, t3, t4>>) /\ victims = Victims
    /\ CondInit

MCFairSpec ==
    /\ MCContendedInit
    /\ [][Next /\ UNCHANGED <<condition, moved>>]_condVars
    /\ Fairness

\* The beginnings of aqs_safety: nobody is interrupted yet, no permit is out.
MCRested ==
    /\ permit = [t \in Threads |-> FALSE]
    /\ intr = [t \in Threads |-> FALSE]
    /\ moved = {}

\* t is the only thread in the queue, and parked.
MCOneQueued(t) ==
    /\ head = Dummy /\ tail = <<t, 1>> /\ order = <<<<t, 1>>>>
    /\ node = [n \in NewNodes |->
          CASE n = Dummy      -> [ws |-> SIGNAL, prev |-> NULL, next |-> <<t, 1>>, thread |-> NULL]
            [] n = <<t, 1>>    -> [NewNode(t) EXCEPT !.prev = Dummy]
            [] n \in MCWaiting -> [NewNode(n[1]) EXCEPT !.ws = CONDITION]
            [] OTHER          -> NewNode(NULL)]

\* The semaphore has no permit and t1 waits for one.
MCSharedInit ==
    /\ program \in MCShared /\ MCRested /\ MCOneQueued(t1)
    /\ state = 0 /\ victims = Victims
    /\ th = [t \in Threads |-> IF t = t1 THEN [Start EXCEPT !.pc = "park", !.pred = Dummy] ELSE Start]
    /\ firstWaiter = NULL /\ lastWaiter = NULL /\ nextWaiter = [n \in NewNodes |-> NULL]

\* t3, which never had to queue, holds the lock, and t1 and t2 wait for its signal, which it
\* gives at once or after it waited behind them for a while.
MCSignalInit ==
    /\ program \in {MCSignal, MCRelink} /\ MCRested
    /\ state = 1 /\ victims = IF program = MCSignal THEN {t1} ELSE {}
    /\ head = NULL /\ tail = NULL /\ order = <<>>
    /\ node = [n \in NewNodes |-> IF n \in MCWaiting THEN [NewNode(n[1]) EXCEPT !.ws = CONDITION]
                                  ELSE NewNode(NULL)]
    /\ th = [t \in Threads |-> IF t = t3 THEN [Start EXCEPT !.i = 2]
                               ELSE [Start EXCEPT !.i = 2, !.pc = "cpark"]]
    /\ firstWaiter = <<t1, 2>> /\ lastWaiter = <<t2, 2>>
    /\ nextWaiter = [n \in NewNodes |-> IF n = <<t1, 2>> THEN <<t2, 2>> ELSE NULL]

\* t1 waits for a signal, t2 is queued for the lock and will give it, and t3, which holds the
\* lock, is about to wait too.
MCSignalAllInit ==
    /\ program = MCSignalAll /\ MCRested /\ MCOneQueued(t2)
    /\ state = 1 /\ victims = {}
    /\ th = t1 :> [Start EXCEPT !.i = 2, !.pc = "cpark"] @@ t3 :> [Start EXCEPT !.i = 2]
         @@ t2 :> [Start EXCEPT !.pc = "park", !.pred = Dummy]
    /\ firstWaiter = <<t1, 2>> /\ lastWaiter = <<t1, 2>> /\ nextWaiter = [n \in NewNodes |-> NULL]

MCSpec == (MCSharedInit \/ MCSignalInit \/ MCSignalAllInit) /\ [][CondNext]_condVars

=============================================================================
