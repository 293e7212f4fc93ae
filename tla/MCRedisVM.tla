----------------------------- MODULE MCRedisVM -----------------------------
(* Small instances of RedisVM for TLC *)
EXTENDS RedisVM, TLC

CONSTANTS k1, k2, c1

Cmd(op, argv) == [op |-> op, argv |-> argv]

\* One-key commands on both keys
MCSingle == {Cmd(op, <<k>>) : op \in {"get", "update", "del"}, k \in Keys}
\* Two-key commands, one of them naming a key twice
MCMulti == {Cmd("get", <<k1, k2>>), Cmd("get", <<k1, k1>>), Cmd("update", <<k1>>),
            Cmd("update", <<k2>>), Cmd("del", <<k1>>)}
MCPagesOf == [d \in Data |-> d]

----------------------------------------------------------------------------
(* What vm_two_threads identifies, which lets it have an address for every object two keys, their
   jobs and a command may need.

   The addresses of objects are only compared, and every object in use is referred to by a key
   or a job, so two states that differ in the choice of the addresses are one: an address is
   named after the first place that refers to it.  Of a canceled job the code reads the value
   only, to release it.  A page of the swap file that nobody owns is written before it is
   read again. *)

\* The pages that the BGSAVE child still has to read
ReadByChild ==
    IF child = NULL THEN {}
    ELSE UNION {Run(child[k].page, PagesOf[child[k].data]) : k \in {l \in Keys : child[l].page # NULL}}

MCView ==
    LET working == SelectSeq([t \in Threads |-> server.io_processing[t]], LAMBDA j : j # NULL)
        jobs    == server.io_newjobs \o working \o server.io_processed
        refs    == <<server.dict[k1], server.dict[k2]>> \o [i \in DOMAIN jobs |-> jobs[i].val]
                   \o [i \in DOMAIN jobs |-> IF jobs[i].canceled THEN NULL ELSE jobs[i].id]
        name    == [o \in {x \in Objs : \E i \in DOMAIN refs : refs[i] = x} |->
                        CHOOSE i \in DOMAIN refs : refs[i] = o /\ \A n \in 1 .. i - 1 : refs[n] # o]
        Name(o) == IF o = NULL THEN NULL ELSE name[o]
        Named(j) == IF j = NULL THEN NULL
                    ELSE IF j.canceled THEN [val |-> Name(j.val)]
                    ELSE [j EXCEPT !.id = Name(@), !.val = Name(@)]
        kept    == UNION {OwnedPages(w) : w \in PageOwners} \cup ReadByChild
    IN  <<[server EXCEPT !.dict = [k \in Keys |-> Name(@[k])],
                         !.heap = {<<name[o], @[o]>> : o \in DOMAIN name},
                         !.io_newjobs = [i \in DOMAIN @ |-> Named(@[i])],
                         !.io_processing = [t \in Threads |-> Named(@[t])],
                         !.io_processed = [i \in DOMAIN @ |-> Named(@[i])]],
          main, thread, pipe, clients, [p \in kept |-> swap[p]], child, truth>>

\* The keys are interchangeable: every command is there for both
KeySymmetry == Permutations(Keys)

============================================================================
