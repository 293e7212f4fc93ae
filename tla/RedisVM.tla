------------------------------ MODULE RedisVM ------------------------------
(***************************************************************************)
(* Redis 2.2 virtual memory with threaded I/O (redis/2.2/VM/vm.c and the   *)
(* reference counting of redis/2.2/robj/object.c).                         *)
(*                                                                         *)
(* The main thread (the event loop), up to MaxThreads I/O threads and a    *)
(* BGSAVE child run concurrently.  The global `struct redisServer` is the  *)
(* record `server`; every C helper that changes it is an operator from a   *)
(* server state to a server state, so that an action composes the calls    *)
(* its handler makes.  A failing redisAssert sets server.panic.            *)
(*                                                                         *)
(* Sections under io_mutex are atomic steps.  The main thread's work       *)
(* between two sections only touches objects that no I/O thread holds, so  *)
(* it is merged into the section that precedes it; the two busy waits      *)
(* (vmCancelThreadedIOJob on a job in io_processing, waitEmptyIOJobsQueue) *)
(* are states of the main thread.                                          *)
(***************************************************************************)
EXTENDS Integers, Sequences, FiniteSets, SequencesExt

CONSTANTS
    Keys,        \* names in the (single) database
    Clients,     \* connections
    Commands,    \* what a client may send: [op, argv] with argv a sequence of keys
    Data,        \* abstract contents of a value
    PagesOf,     \* PagesOf[d]: rdbSavedObjectPages of a value holding d
    Objs,        \* heap addresses for values and vmpointers (bounds the heap)
    VmPages,     \* server.vm_pages
    MaxThreads,  \* the I/O threads there may be
    Settings,    \* of server.vm_max_threads: MaxThreads, or 0 for the blocking VM
    MaxMemory,   \* server.vm_max_memory, counted in value objects
    PipeSize,    \* bytes the notification pipe holds before write(2) blocks
    SeekMayFail, \* whether fseeko may fail in vmWriteObjectOnSwap
    NULL

ASSUME VMAssumption ==
    /\ IsFiniteSet(Keys) /\ IsFiniteSet(Clients)
    /\ Objs \subseteq Nat /\ IsFiniteSet(Objs)
    /\ VmPages \in Nat \ {0} /\ MaxThreads \in Nat /\ MaxMemory \in Nat
    /\ Settings \subseteq {0, MaxThreads}
    /\ PipeSize \in Nat \ {0}
    /\ PagesOf \in [Data -> Nat \ {0}]
    /\ SeekMayFail \in BOOLEAN
    /\ \A cmd \in Commands : cmd.op \in {"get", "update", "del"} /\ cmd.argv \in Seq(Keys)

VARIABLES
    server,  \* struct redisServer
    main,    \* where the main thread is, and its locals
    thread,  \* thread[t]: program counter of I/O thread t
    pipe,    \* bytes in the notification pipe
    clients, \* clients[c]: the command c is executing and its REDIS_IO_WAIT flag
    swap,    \* contents of the swap file, page by page
    child,   \* what a running BGSAVE child sees of the keys, or NULL
    truth    \* history: the contents last given to each key, or NULL

vars == <<server, main, thread, pipe, clients, swap, child, truth>>

Threads == 1..MaxThreads
Pages == 0..(VmPages - 1)
Run(page, count) == page..(page + count - 1)

----------------------------------------------------------------------------
(* Objects and jobs *)

FreeObj == [kind |-> "free", storage |-> "MEMORY", refcount |-> 0, data |-> NULL,
            page |-> 0, usedpages |-> 0]

\* createObject: a value with one reference, in memory
createObject(d) == [FreeObj EXCEPT !.kind = "val", !.refcount = 1, !.data = d]

\* createVmPointer, and the page fields its callers fill in
createVmPointer(page, pages) ==
    [FreeObj EXCEPT !.kind = "vp", !.storage = "SWAPPED", !.page = page, !.usedpages = pages]

NewJob(type, key, id, val, page) ==
    [type |-> type, key |-> key, id |-> id, val |-> val, page |-> page, pages |-> 0,
     canceled |-> FALSE]

Avail(s) == {o \in Objs : s.heap[o].kind = "free"}
\* zmalloc of an object: the lowest free address, so that a freed address is reused at once
Malloc(s) == CHOOSE o \in Avail(s) : \A p \in Avail(s) : o <= p

redisAssert(s, cond) == IF cond THEN s ELSE [s EXCEPT !.panic = TRUE]

----------------------------------------------------------------------------
(* Page table *)

vmMarkPagesUsed(s, page, count) ==
    redisAssert([s EXCEPT !.vm_bitmap = @ \cup Run(page, count),
                     !.vm_stats_used_pages = @ + count],
           Run(page, count) \cap s.vm_bitmap = {})

vmMarkPagesFree(s, page, count) ==
    redisAssert([s EXCEPT !.vm_bitmap = @ \ Run(page, count),
                     !.vm_stats_used_pages = @ - count],
           Run(page, count) \subseteq s.vm_bitmap)

\* What vmFindContiguousPages may return (module VMPages models the search itself): the
\* first page of a free run.  The REDIS_ERR return is left to the callers.
vmFindContiguousPages(s, n) ==
    {p \in Pages : Run(p, n) \subseteq Pages /\ Run(p, n) \cap s.vm_bitmap = {}}

\* Mutant: saved one page too far
WriteSwapNextPage(sw, page, d) ==
    [p \in Pages |-> IF p \in Run(page + 1, PagesOf[d]) THEN <<d, p - page - 1>> ELSE sw[p]]

\* Contents of the swap file after object contents d are saved from `page` on
WriteSwap(sw, page, d) ==
    [p \in Pages |-> IF p \in Run(page, PagesOf[d]) THEN <<d, p - page>> ELSE sw[p]]

\* rdbLoadObject at `page`: the contents saved there, or NULL when pages are overwritten
vmReadObjectFromSwap(sw, page) ==
    IF \E d \in Data : \A p \in Run(page, PagesOf[d]) : p \in Pages /\ sw[p] = <<d, p - page>>
    THEN CHOOSE d \in Data :
            \A p \in Run(page, PagesOf[d]) : p \in Pages /\ sw[p] = <<d, p - page>>
    ELSE NULL

----------------------------------------------------------------------------
(* Reference counts and the job queues *)

\* The tail of decrRefCount: an object in memory loses a reference
Release(s, o) ==
    redisAssert([s EXCEPT !.heap[o] = IF @.refcount = 1 THEN FreeObj
                                 ELSE [@ EXCEPT !.refcount = @ - 1]],
           s.heap[o].refcount > 0)

\* freeIOJob: a value still marked SWAPPING goes back to MEMORY, so the decrRefCount that
\* follows does not look for a job
freeIOJob(s, j) ==
    IF j.val = NULL THEN s
    ELSE Release([s EXCEPT !.heap[j.val].storage = IF @ = "SWAPPING" THEN "MEMORY" ELSE @],
                 j.val)

\* queueIOJob with spawnIOThread: a thread is started unless the maximum runs already.
queueIOJob(s, j) ==
    [s EXCEPT !.io_newjobs = Append(@, j),
              !.io_active_threads = IF @ < s.vm_max_threads THEN @ + 1 ELSE @]

Spawned(s) == \* threads that run after a main-thread step that ended in state s
    LET running == {t \in Threads : thread[t] # "exited"}
        fresh   == s.io_active_threads - Cardinality(running)
        idle    == Threads \ running
    IN  {t \in idle : Cardinality({u \in idle : u <= t}) <= fresh}

StartThreads(s) == thread' = [t \in Threads |-> IF t \in Spawned(s) THEN "top" ELSE thread[t]]

IsLiveJobOf(j, o) == j # NULL /\ ~j.canceled /\ j.id = o

\* vmCancelThreadedIOJob spins while the job is in io_processing
Spinning(s, o) ==
    /\ \A i \in DOMAIN s.io_newjobs : ~IsLiveJobOf(s.io_newjobs[i], o)
    /\ \E t \in Threads : IsLiveJobOf(s.io_processing[t], o)

\* Mutant: the storage field is not restored
UndoStorageForgotten(s, o) == s

UndoStorage(s, o) ==
    [s EXCEPT !.heap[o].storage = CASE @ = "LOADING" -> "SWAPPED"
                                    [] @ = "SWAPPING" -> "MEMORY"
                                    [] OTHER -> @]

\* Mutant: the pages of a canceled swap stay reserved
GiveBackNever(s, j) == s

\* The swap did not happen, or is discarded: its pages are free again
GiveBack(s, j) == IF j.type = "DO_SWAP" THEN vmMarkPagesFree(s, j.page, j.pages) ELSE s

\* vmCancelThreadedIOJob once it no longer spins: a queued job is dropped, a processed one
\* is marked; the pages reserved for a DO_SWAP are given back
vmCancelThreadedIOJob(s, o) ==
    LET queued == {i \in DOMAIN s.io_newjobs : IsLiveJobOf(s.io_newjobs[i], o)}
        done   == {i \in DOMAIN s.io_processed : IsLiveJobOf(s.io_processed[i], o)}
        first(S) == CHOOSE i \in S : \A k \in S : i <= k
    IN  CASE queued # {} ->
               LET i == first(queued)
                   j == s.io_newjobs[i]
                   s1 == freeIOJob(GiveBack(s, j), j)
               IN  UndoStorage([s1 EXCEPT !.io_newjobs = RemoveAt(@, i)], o)
          [] queued = {} /\ done # {} ->
               LET i == first(done)
                   s1 == GiveBack(s, s.io_processed[i])
               IN  UndoStorage([s1 EXCEPT !.io_processed[i].canceled = TRUE], o)
          [] OTHER -> [s EXCEPT !.panic = TRUE]

\* Mutant: a load in progress is not seen
HasJobSwapping(s, o) == s.heap[o].storage = "SWAPPING"

\* The object is being loaded or swapped out by a job, which must be canceled first
HasJob(s, o) == s.heap[o].storage \in {"LOADING", "SWAPPING"}

\* decrRefCount of the object a key holds (the caller has waited until ~Spinning)
decrRefCount(s, o) ==
    LET s1 == IF HasJob(s, o) THEN vmCancelThreadedIOJob(s, o) ELSE s
    IN  IF s.heap[o].kind = "vp"
        THEN LET s2 == vmMarkPagesFree(s1, s.heap[o].page, s.heap[o].usedpages)
             IN  [s2 EXCEPT !.heap[o] = FreeObj, !.vm_stats_swapped_objects = @ - 1]
        ELSE Release(s1, o)

----------------------------------------------------------------------------
(* Clients waiting for swapped keys *)

dontWaitForSwappedKey(s, c, k) ==
    redisAssert([s EXCEPT !.client_keys[c] = RemoveFirst(@, k), !.io_keys[k] = RemoveFirst(@, c)],
           Contains(s.client_keys[c], k) /\ Contains(s.io_keys[k], c))

\* Mutant: only the first waiter is served
handleFirstClientOnly(s, k) ==
    IF s.io_keys[k] = <<>> THEN s
    ELSE LET c  == Head(s.io_keys[k])
             s1 == dontWaitForSwappedKey(s, c, k)
         IN  IF s1.client_keys[c] = <<>>
             THEN [s1 EXCEPT !.io_ready_clients = Append(@, c)] ELSE s1

\* Mutant: the client is not put in io_ready_clients
handleClientsNotReady(s, k) ==
    LET Wake(acc, c) == dontWaitForSwappedKey(acc, c, k)
    IN  FoldLeft(Wake, s, s.io_keys[k])

\* The loop runs once per waiter, always on the head of the list
handleClientsBlockedOnSwappedKey(s, k) ==
    LET Wake(acc, c) ==
            LET s1 == dontWaitForSwappedKey(acc, c, k)
            IN  IF s1.client_keys[c] = <<>>
                THEN [s1 EXCEPT !.io_ready_clients = Append(@, c)]
                ELSE s1
    IN  FoldLeft(Wake, s, s.io_keys[k])

\* waitForSwappedKey for a key whose job, if it is being swapped out, is not in processing
waitForSwappedKey(s, c, k) ==
    LET o == s.dict[k]
        s1 == [s EXCEPT !.client_keys[c] = Append(@, k), !.io_keys[k] = Append(@, c)]
    IN  IF o = NULL \/ s.heap[o].storage = "MEMORY" THEN s
        ELSE IF s.heap[o].storage = "SWAPPING" THEN vmCancelThreadedIOJob(s, o)
        ELSE IF s.heap[o].storage = "SWAPPED"
             THEN queueIOJob([s1 EXCEPT !.heap[o].storage = "LOADING"],
                             NewJob("LOAD", k, o, NULL, s.heap[o].page))
             ELSE s1

----------------------------------------------------------------------------
(* Blocking loads and swaps *)

\* vmGenericLoadObject with preview = 0: the pages and the vmpointer are freed, the value
\* replaces it in the dictionary
vmGenericLoadObject(s, k) ==
    LET vp == s.dict[k]
        s1 == vmMarkPagesFree(redisAssert(s, s.heap[vp].storage \in {"SWAPPED", "LOADING"}),
                              s.heap[vp].page, s.heap[vp].usedpages)
        n  == Malloc(s)
    IN  [s1 EXCEPT !.heap = [@ EXCEPT ![n] = createObject(vmReadObjectFromSwap(swap, s.heap[vp].page)),
                                      ![vp] = FreeObj],
                   !.dict[k] = n,
                   !.vm_stats_swapped_objects = @ - 1]

\* vmLoadObject: a load in the background is stopped first
vmLoadObject(s, k) ==
    LET o == s.dict[k]
    IN  vmGenericLoadObject(IF s.heap[o].storage = "LOADING" THEN vmCancelThreadedIOJob(s, o) ELSE s, k)

\* lookupKey (db.c, external): brings the value home; a swap in progress is canceled, and
\* whoever waited for a load that is cut short is told
lookupKey(s, k) ==
    LET o == s.dict[k]
    IN  IF o = NULL \/ (s.heap[o].kind = "val" /\ ~HasJob(s, o)) THEN s
        ELSE IF s.heap[o].kind = "val" THEN vmCancelThreadedIOJob(s, o)
        ELSE IF HasJob(s, o) THEN handleClientsBlockedOnSwappedKey(vmLoadObject(s, k), k)
        ELSE vmLoadObject(s, k)

\* dbDelete (db.c, external): the waiters are told, then the value is released
dbDelete(s, k) ==
    LET s1 == handleClientsBlockedOnSwappedKey(s, k)
    IN  IF s.dict[k] = NULL THEN s ELSE [decrRefCount(s1, s.dict[k]) EXCEPT !.dict[k] = NULL]

\* No BGSAVE or BGREWRITEAOF child is running
vmCanSwapOut == child = NULL

\* zmalloc_used_memory() > server.vm_max_memory
OverMemory(s) == Cardinality({o \in Objs : s.heap[o].kind = "val"}) > MaxMemory

\* The keys whose value vmSwapOneObject accepts
Swappable(s) ==
    {k \in Keys : s.dict[k] # NULL /\ s.heap[s.dict[k]].storage = "MEMORY"
                                   /\ s.heap[s.dict[k]].refcount = 1}

\* Mutant: the job's reference is not counted
vmSwapObjectThreadedNoRef(s, k) ==
    LET v == s.dict[k]
    IN  queueIOJob([s EXCEPT !.heap[v].storage = "SWAPPING"],
                   NewJob("PREPARE_SWAP", k, v, v, 0))

\* vmSwapObjectThreaded: the job holds a reference to the value
vmSwapObjectThreaded(s, k) ==
    LET v == s.dict[k]
    IN  queueIOJob([s EXCEPT !.heap[v].refcount = @ + 1, !.heap[v].storage = "SWAPPING"],
                   NewJob("PREPARE_SWAP", k, v, v, 0))

\* vmSwapObjectBlocking after a run of pages was found and written: the value is freed and a
\* vmpointer takes its place
vmSwapObjectBlocking(s, k, page) ==
    LET v  == s.dict[k]
        n  == Malloc(s)
        pages == PagesOf[s.heap[v].data]
        s1 == redisAssert([s EXCEPT !.heap[n] = createVmPointer(page, pages)],
                     s.heap[v].storage = "MEMORY" /\ s.heap[v].refcount = 1)
        s2 == vmMarkPagesUsed(decrRefCount(s1, v), page, pages)
    IN  [s2 EXCEPT !.dict[k] = n, !.vm_stats_swapped_objects = @ + 1]

----------------------------------------------------------------------------
(* The main thread *)

Idle == [pc |-> "loop", c |-> NULL, rest |-> <<>>, processed |-> 0, toprocess |-> -1,
         trytoswap |-> TRUE, wait |-> FALSE]

\* Outside the event loop's top level the main thread runs its handler to the end
At(pc) == ~server.panic /\ main.pc = pc

\* The heap is finite in the model: new work is accepted while n free addresses remain
\* after every queued load got its own.
UnreadLoads(s) ==
    LET Unread(j) == j # NULL /\ j.type = "LOAD" /\ j.val = NULL
    IN  Cardinality({i \in DOMAIN s.io_newjobs : Unread(s.io_newjobs[i])})
        + Cardinality({t \in Threads : Unread(s.io_processing[t])})
Headroom(n) == Cardinality(Avail(server)) - UnreadLoads(server) >= n

\* The key's job is in io_processing: the main thread sleeps and looks again
MustSpin(k) ==
    LET o == server.dict[k]
    IN  o # NULL /\ HasJob(server, o) /\ Spinning(server, o)

\* A client sends a command (processCommand, external): keys are preloaded when there are I/O
\* threads and the command table names them, which it does not for DEL (vm_firstkey = 0).
SendCommand(c, cmd) ==
    /\ At("loop")
    /\ clients[c].cmd = NULL
    /\ Headroom(2 * Len(cmd.argv) + 1)
    /\ clients' = [clients EXCEPT ![c].cmd = cmd]
    /\ main' = [Idle EXCEPT !.pc = IF cmd.op = "del" \/ server.vm_max_threads = 0
                                          THEN "exec" ELSE "preload",
                            !.c = c, !.rest = cmd.argv]
    /\ UNCHANGED <<server, thread, pipe, swap, child, truth>>

\* blockClientOnSwappedKeys / waitForMultipleSwappedKeys: one key of the command; after
\* the last one the client blocks if it waits for some key, and runs otherwise
Preload ==
    /\ At("preload")
    /\ LET c == main.c
           k == Head(main.rest)
           s == waitForSwappedKey(server, c, k)
           blocked == s.client_keys[c] # <<>>
       IN  /\ ~(server.dict[k] # NULL /\ server.heap[server.dict[k]].storage = "SWAPPING"
                 /\ MustSpin(k))
           /\ server' = s
           /\ StartThreads(s)
           /\ IF Len(main.rest) > 1
              THEN main' = [main EXCEPT !.rest = Tail(@)] /\ UNCHANGED clients
              ELSE IF blocked
              THEN main' = Idle /\ clients' = [clients EXCEPT ![c].io_wait = TRUE]
              ELSE /\ main' = [main EXCEPT !.pc = "exec", !.rest = clients[c].cmd.argv]
                   /\ UNCHANGED clients
    /\ UNCHANGED <<pipe, swap, child, truth>>

\* The command touches its next key: a read, a change in place (or creation) of the value,
\* or a delete
Exec ==
    /\ At("exec")
    /\ ~MustSpin(Head(main.rest))
    /\ LET k  == Head(main.rest)
           op == clients[main.c].cmd.op
           s  == lookupKey(server, k)
       IN  \/ op = "get" /\ server' = s /\ UNCHANGED truth
           \/ op = "del" /\ server' = dbDelete(server, k) /\ truth' = [truth EXCEPT ![k] = NULL]
           \/ /\ op = "update"
              /\ \E d \in Data :
                    /\ truth' = [truth EXCEPT ![k] = d]
                    /\ server' = IF s.dict[k] = NULL
                                 THEN [s EXCEPT !.heap[Malloc(s)] = createObject(d),
                                                !.dict[k] = Malloc(s)]
                                 ELSE [s EXCEPT !.heap[s.dict[k]].data = d]
    /\ IF Len(main.rest) > 1
       THEN main' = [main EXCEPT !.rest = Tail(@)] /\ UNCHANGED clients
       ELSE main' = Idle /\ clients' = [clients EXCEPT ![main.c].cmd = NULL]
    /\ UNCHANGED <<thread, pipe, swap, child>>

\* vmCancelThreadedIOJob finds its job in io_processing: usleep and look again
SpinOnJob ==
    /\ At("preload") \/ At("exec")
    /\ MustSpin(Head(main.rest))
    /\ UNCHANGED vars

\* beforeSleep (redis.c, external): a client whose keys were all loaded runs its command
ResumeClient ==
    /\ At("loop")
    /\ server.io_ready_clients # <<>>
    /\ LET c == Head(server.io_ready_clients)
       IN  /\ Headroom(Len(clients[c].cmd.argv) + 1)
           /\ server' = [server EXCEPT !.io_ready_clients = Tail(@)]
           /\ clients' = [clients EXCEPT ![c].io_wait = FALSE]
           /\ main' = [Idle EXCEPT !.pc = "exec", !.c = c, !.rest = clients[c].cmd.argv]
    /\ UNCHANGED <<thread, pipe, swap, child, truth>>

\* freeClient (networking.c, external) of a client in REDIS_IO_WAIT
Disconnect(c) ==
    /\ At("loop")
    /\ clients[c].io_wait
    /\ LET Forget(acc, k) == dontWaitForSwappedKey(acc, c, k)
       IN  server' = IF server.client_keys[c] = <<>>
                     THEN redisAssert([server EXCEPT !.io_ready_clients = RemoveFirst(@, c)],
                                      Contains(server.io_ready_clients, c))
                     ELSE FoldLeft(Forget, server, server.client_keys[c])
    /\ clients' = [clients EXCEPT ![c] = [cmd |-> NULL, io_wait |-> FALSE]]
    /\ UNCHANGED <<main, thread, pipe, swap, child, truth>>

\* serverCron (redis.c, external) calls vmSwapOneObject when memory is short and no child
\* is saving: threaded, or blocking when there are no I/O threads
SwapOneObjectThreaded ==
    /\ At("loop") /\ server.vm_max_threads > 0 /\ vmCanSwapOut /\ OverMemory(server)
    /\ \E k \in Swappable(server) :
          LET s == vmSwapObjectThreaded(server, k)
          IN  server' = s /\ StartThreads(s)
    /\ UNCHANGED <<main, pipe, clients, swap, child, truth>>

SwapOneObjectBlocking ==
    /\ At("loop") /\ server.vm_max_threads = 0 /\ vmCanSwapOut /\ OverMemory(server) /\ Headroom(1)
    /\ \E k \in Swappable(server) :
          LET d == server.heap[server.dict[k]].data
          IN  \E page \in vmFindContiguousPages(server, PagesOf[d]) :
                 /\ server' = vmSwapObjectBlocking(server, k, page)
                 /\ swap' = WriteSwap(swap, page, d)
    /\ UNCHANGED <<main, thread, pipe, clients, child, truth>>

\* The event loop sees the notification pipe readable and calls vmThreadedIOCompletedJob
PipeReadable ==
    /\ At("loop") /\ pipe > 0
    /\ main' = [Idle EXCEPT !.pc = "completed"]
    /\ UNCHANGED <<server, thread, pipe, clients, swap, child, truth>>

----------------------------------------------------------------------------
(* vmThreadedIOCompletedJob, one byte of the pipe per step *)

REDIS_MAX_COMPLETED_JOBS_PROCESSED == 1

Return(m) == IF m.wait THEN [Idle EXCEPT !.pc = "waitempty"] ELSE Idle

\* processed++, and the return once `toprocess` jobs were handled
Count(m) ==
    IF m.processed + 1 = m.toprocess THEN Return(m)
    ELSE [m EXCEPT !.processed = @ + 1, !.pc = "completed"]

toprocess(len) ==
    LET n == (len * REDIS_MAX_COMPLETED_JOBS_PROCESSED) \div 100
    IN  IF n <= 0 THEN 1 ELSE n

\* A loaded value replaces its vmpointer; the clients waiting for it are served
CompletedLoad(s, j) ==
    LET vp == s.dict[j.key]
        s1 == vmMarkPagesFree(s, s.heap[vp].page, s.heap[vp].usedpages)
        s2 == [s1 EXCEPT !.vm_stats_swapped_objects = @ - 1,
                         !.dict[j.key] = j.val,
                         !.heap[j.val].refcount = @ + 1]
        s3 == freeIOJob(handleClientsBlockedOnSwappedKey(s2, j.key), j)
    IN  [s3 EXCEPT !.heap[vp] = FreeObj]

\* Mutant: a child that was forked after the job was queued is ignored
CompletedPrepareSwapAlways(s, j) ==
    {freeIOJob([s EXCEPT !.heap[j.val].storage = "MEMORY"], j)}
    \cup {queueIOJob(vmMarkPagesUsed(s, page, j.pages), [j EXCEPT !.page = page, !.type = "DO_SWAP"])
             : page \in vmFindContiguousPages(s, j.pages)}

\* The value's size is known.  The outcomes are giving up (a child is saving, or the search
\* fails, which it may although there is room: see VMPages) and queueing the job again as
\* DO_SWAP with its pages reserved.
CompletedPrepareSwap(s, j) ==
    LET room == IF vmCanSwapOut THEN vmFindContiguousPages(s, j.pages) ELSE {}
    IN  {freeIOJob([s EXCEPT !.heap[j.val].storage = "MEMORY"], j)}
        \cup {queueIOJob(vmMarkPagesUsed(s, page, j.pages),
                         [j EXCEPT !.page = page, !.type = "DO_SWAP"]) : page \in room}

\* The value is on disk: a vmpointer takes its place and both references are dropped
CompletedDoSwap(s, j) ==
    LET n  == Malloc(s)
        s1 == redisAssert([s EXCEPT !.heap[n] = createVmPointer(j.page, j.pages),
                                    !.dict[j.key] = n],
                          s.heap[j.val].storage = "SWAPPING")
        s2 == decrRefCount([s1 EXCEPT !.heap[j.val].storage = "MEMORY"], j.val)
    IN  freeIOJob([s2 EXCEPT !.vm_stats_swapped_objects = @ + 1], j)

\* Mutant: a canceled job is handled like any other
IgnoredNever(j) == FALSE

\* If this job is marked as canceled, just ignore it
Ignored(j) == j.canceled

CompletedJob ==
    /\ At("completed") /\ pipe > 0
    /\ pipe' = pipe - 1
    /\ IF server.io_processed = <<>>
       THEN server' = [server EXCEPT !.panic = TRUE] /\ UNCHANGED <<main, thread>>
       ELSE LET j == Head(server.io_processed)
                s == [server EXCEPT !.io_processed = Tail(@)]
                m == [main EXCEPT !.toprocess = IF @ = -1 THEN toprocess(Len(server.io_processed))
                                                ELSE @]
            IN  \/ /\ Ignored(j)
                   /\ server' = freeIOJob(s, j)
                   /\ main' = m
                   /\ UNCHANGED thread
                \/ /\ ~Ignored(j) /\ s.dict[j.key] = NULL
                   /\ server' = [s EXCEPT !.panic = TRUE]
                   /\ UNCHANGED <<main, thread>>
                \/ /\ ~Ignored(j) /\ s.dict[j.key] # NULL /\ j.type = "LOAD"
                   /\ server' = CompletedLoad(s, j)
                   /\ main' = Count(m)
                   /\ UNCHANGED thread
                \/ /\ ~Ignored(j) /\ s.dict[j.key] # NULL /\ j.type = "PREPARE_SWAP"
                   /\ \E s1 \in CompletedPrepareSwap(s, j) : server' = s1 /\ StartThreads(s1)
                   /\ main' = Count(m)
                \/ /\ ~Ignored(j) /\ s.dict[j.key] # NULL /\ j.type = "DO_SWAP"
                   /\ LET s1 == CompletedDoSwap(s, j)
                      IN  /\ server' = s1
                          /\ main' = IF m.trytoswap /\ vmCanSwapOut /\ OverMemory(s1)
                                     THEN [m EXCEPT !.pc = "more"] ELSE Count(m)
                   /\ UNCHANGED thread
    /\ UNCHANGED <<clients, swap, child, truth>>

\* read(2) returns EAGAIN: no byte is left
CompletedEAGAIN ==
    /\ At("completed") /\ pipe = 0
    /\ main' = Return(main)
    /\ UNCHANGED <<server, thread, pipe, clients, swap, child, truth>>

\* One round of the loop that queues more swaps.  vmSwapOneObject samples the keys, so it
\* may miss a swappable one unless every key is swappable.
SwapMore ==
    /\ At("more")
    /\ \/ \E k \in Swappable(server) :
             LET s == vmSwapObjectThreaded(server, k)
             IN  /\ server' = s
                 /\ StartThreads(s)
                 /\ main' = IF Len(server.io_newjobs) < server.vm_max_threads THEN main ELSE Count(main)
       \/ /\ Swappable(server) = {} \/ Swappable(server) # {k \in Keys : server.dict[k] # NULL}
          /\ main' = Count([main EXCEPT !.trytoswap = FALSE])
          /\ UNCHANGED <<server, thread>>
    /\ UNCHANGED <<pipe, clients, swap, child, truth>>

----------------------------------------------------------------------------
(* BGSAVE *)

StartBgsave ==
    /\ At("loop") /\ child = NULL
    /\ main' = [Idle EXCEPT !.pc = "waitempty"]
    /\ UNCHANGED <<server, thread, pipe, clients, swap, child, truth>>

\* Mutant: completed jobs are not handled while waiting
WaitEmptyIOJobsQueuePassive ==
    /\ At("waitempty")
    /\ IF server.io_active_threads = 0
       THEN child' = [k \in Keys |-> [page |-> NULL, data |-> truth[k]]] /\ main' = Idle
       ELSE UNCHANGED <<child, main>>
    /\ UNCHANGED <<server, thread, pipe, clients, swap, truth>>

\* waitEmptyIOJobsQueue: while threads run, completed jobs are handled here; then fork.
\* The child inherits the dictionary: values in memory, page numbers for the others.
WaitEmptyIOJobsQueue ==
    /\ At("waitempty")
    /\ \/ /\ server.io_newjobs = <<>>
          /\ \A t \in Threads : server.io_processing[t] = NULL
          /\ server.io_active_threads = 0
          /\ child' = [k \in Keys |->
                LET o == server.dict[k]
                IN  [page |-> IF o # NULL /\ server.heap[o].kind = "vp" THEN server.heap[o].page
                              ELSE NULL,
                     data |-> truth[k]]]
          /\ main' = Idle
       \/ /\ \/ server.io_newjobs # <<>>
             \/ \E t \in Threads : server.io_processing[t] # NULL
             \/ server.io_active_threads # 0
          /\ server.io_processed # <<>>
          /\ main' = [Idle EXCEPT !.pc = "completed", !.trytoswap = FALSE, !.wait = TRUE]
          /\ UNCHANGED child
       \/ /\ server.io_active_threads # 0
          /\ server.io_processed = <<>>
          /\ UNCHANGED <<main, child>>
    /\ UNCHANGED <<server, thread, pipe, clients, swap, truth>>

ChildExit ==
    /\ child # NULL
    /\ child' = NULL
    /\ UNCHANGED <<server, main, thread, pipe, clients, swap, truth>>

----------------------------------------------------------------------------
(* IOThreadEntryPoint *)

Runs(t, pc) == ~server.panic /\ thread[t] = pc

TakeJob(t) ==
    /\ Runs(t, "top") /\ server.io_newjobs # <<>>
    /\ server' = [server EXCEPT !.io_newjobs = Tail(@),
                                !.io_processing[t] = Head(server.io_newjobs)]
    /\ thread' = [thread EXCEPT ![t] = "work"]
    /\ UNCHANGED <<main, pipe, clients, swap, child, truth>>

\* Mutant: the thread leaves although jobs are queued
ThreadExitEarly(t) ==
    /\ Runs(t, "top")
    /\ server' = [server EXCEPT !.io_active_threads = @ - 1]
    /\ thread' = [thread EXCEPT ![t] = "exited"]
    /\ UNCHANGED <<main, pipe, clients, swap, child, truth>>

ThreadExit(t) ==
    /\ Runs(t, "top") /\ server.io_newjobs = <<>>
    /\ server' = [server EXCEPT !.io_active_threads = @ - 1]
    /\ thread' = [thread EXCEPT ![t] = "exited"]
    /\ UNCHANGED <<main, pipe, clients, swap, child, truth>>

\* The job itself, outside io_mutex.  A DO_SWAP that cannot seek marks its job canceled.
ProcessJob(t) ==
    /\ Runs(t, "work")
    /\ LET j == server.io_processing[t]
       IN  \/ /\ j.type = "LOAD"
              /\ LET n == Malloc(server)
                 IN  server' = [server EXCEPT
                                  !.heap[n] = createObject(vmReadObjectFromSwap(swap, j.page)),
                                  !.io_processing[t].val = n]
              /\ UNCHANGED swap
           \/ /\ j.type = "PREPARE_SWAP"
              /\ server' = [server EXCEPT !.io_processing[t].pages =
                                             PagesOf[server.heap[j.val].data]]
              /\ UNCHANGED swap
           \/ /\ j.type = "DO_SWAP"
              /\ swap' = WriteSwap(swap, j.page, server.heap[j.val].data)
              /\ UNCHANGED server
           \/ /\ j.type = "DO_SWAP" /\ SeekMayFail
              /\ server' = [server EXCEPT !.io_processing[t].canceled = TRUE]
              /\ UNCHANGED swap
    /\ thread' = [thread EXCEPT ![t] = "finish"]
    /\ UNCHANGED <<main, pipe, clients, child, truth>>

FinishJob(t) ==
    /\ Runs(t, "finish")
    /\ server' = [server EXCEPT !.io_processed = Append(@, server.io_processing[t]),
                                !.io_processing[t] = NULL]
    /\ thread' = [thread EXCEPT ![t] = "signal"]
    /\ UNCHANGED <<main, pipe, clients, swap, child, truth>>

\* write(2) blocks while the pipe is full
SignalMain(t) ==
    /\ Runs(t, "signal") /\ pipe < PipeSize
    /\ pipe' = pipe + 1
    /\ thread' = [thread EXCEPT ![t] = "top"]
    /\ UNCHANGED <<server, main, clients, swap, child, truth>>

----------------------------------------------------------------------------
\* vmInit, and a dataset that fits in memory (the contents of key k are in Data)
Init ==
    /\ server \in [vm_max_threads : Settings, dict : {[k \in Keys |-> NULL]},
                   heap : {[o \in Objs |-> FreeObj]},
                   vm_bitmap : {{}}, vm_stats_used_pages : {0}, vm_stats_swapped_objects : {0},
                   io_newjobs : {<<>>}, io_processing : {[t \in Threads |-> NULL]},
                   io_processed : {<<>>}, io_active_threads : {0}, io_ready_clients : {<<>>},
                   io_keys : {[k \in Keys |-> <<>>]}, client_keys : {[c \in Clients |-> <<>>]},
                   panic : {FALSE}]
    /\ main = Idle
    /\ thread = [t \in Threads |-> "exited"]
    /\ pipe = 0
    /\ clients = [c \in Clients |-> [cmd |-> NULL, io_wait |-> FALSE]]
    /\ swap = [p \in Pages |-> NULL]
    /\ child = NULL
    /\ truth = [k \in Keys |-> NULL]

Handlers == Preload \/ Exec \/ CompletedJob \/ CompletedEAGAIN \/ SwapMore \/ WaitEmptyIOJobsQueue

MainThread ==
    \/ \E c \in Clients, cmd \in Commands : SendCommand(c, cmd)
    \/ \E c \in Clients : Disconnect(c)
    \/ SwapOneObjectThreaded \/ SwapOneObjectBlocking \/ StartBgsave
    \/ ResumeClient \/ PipeReadable \/ SpinOnJob
    \/ Handlers

IOThread(t) == TakeJob(t) \/ ThreadExit(t) \/ ProcessJob(t) \/ FinishJob(t) \/ SignalMain(t)

Next == MainThread \/ ChildExit \/ \E t \in Threads : IOThread(t)

Spec == Init /\ [][Next]_vars

\* A handler runs to its end; the event loop serves the pipe and the ready clients in every
\* round; an I/O thread that can run does.
FairSpec ==
    /\ Spec
    /\ WF_vars(Handlers) /\ SF_vars(PipeReadable) /\ SF_vars(ResumeClient)
    /\ \A t \in Threads : WF_vars(IOThread(t))

----------------------------------------------------------------------------
(* Properties *)

ProcessingJobs == {server.io_processing[t] : t \in Threads} \ {NULL}
AllJobs == Range(server.io_newjobs) \cup ProcessingJobs \cup Range(server.io_processed)
LiveJobs == {j \in AllJobs : ~j.canceled}

JobType ==
    [type : {"LOAD", "PREPARE_SWAP", "DO_SWAP"}, key : Keys, id : Objs, val : Objs \cup {NULL},
     page : Pages, pages : 0..VmPages, canceled : BOOLEAN]

\* The types of the server structure, of the threads and of the clients
TypeOK ==
    /\ server.dict \in [Keys -> Objs \cup {NULL}]
    /\ \A o \in Objs : /\ server.heap[o].kind \in {"free", "val", "vp"}
                      /\ server.heap[o].storage \in {"MEMORY", "SWAPPED", "SWAPPING", "LOADING"}
                      /\ server.heap[o].refcount \in Nat
    /\ server.vm_bitmap \subseteq Pages
    /\ server.vm_stats_used_pages \in 0..VmPages
    /\ server.vm_stats_swapped_objects \in 0..Cardinality(Keys)
    /\ AllJobs \subseteq JobType
    /\ server.io_active_threads \in 0..MaxThreads
    /\ thread \in [Threads -> {"exited", "top", "work", "finish", "signal"}]
    /\ pipe \in 0..PipeSize
    /\ main.pc \in {"loop", "preload", "exec", "completed", "more", "waitempty"}
    /\ truth \in [Keys -> Data \cup {NULL}]

\* No redisAssert of vm.c or object.c ever fails: a byte in the pipe always has its job, the
\* key of a job that was not canceled is still there, pages are never marked twice, a
\* cancel finds its job, a waiter is registered on both sides.
NoAssertionFails == ~server.panic

\* An object marked SWAPPING or LOADING has exactly one live job, of the right type and
\* under the key that holds the object; every other live job is a contradiction.
\* This is what vmCancelThreadedIOJob and the completion handler rely on.
JobMatchesStorage ==
    /\ \A j \in LiveJobs :
          /\ server.dict[j.key] = j.id
          /\ server.heap[j.id].storage = IF j.type = "LOAD" THEN "LOADING" ELSE "SWAPPING"
    /\ \A o \in Objs :
          server.heap[o].storage \in {"SWAPPING", "LOADING"} =>
              Cardinality({j \in LiveJobs : j.id = o}) = 1

\* The types, and the correspondence of jobs and storage fields that vm.c keeps
JobsSound == TypeOK /\ JobMatchesStorage

\* The page table is exactly the disjoint union of the pages of the swapped out values and
\* of the pages reserved by DO_SWAP jobs; the page counter agrees ("if the job will be
\* canceled, we'll mark them as freed again", vm.c).
PageOwners ==
    {<<"vp", o>> : o \in {x \in Objs : server.heap[x].kind = "vp"}}
    \cup {<<"job", j>> : j \in {x \in LiveJobs : x.type = "DO_SWAP"}}
OwnedPages(w) ==
    IF w[1] = "vp" THEN Run(server.heap[w[2]].page, server.heap[w[2]].usedpages)
    ELSE Run(w[2].page, w[2].pages)
PagesAreDisjoint ==
    \A v, w \in PageOwners : v # w => OwnedPages(v) \cap OwnedPages(w) = {}
PageAccounting ==
    /\ PagesAreDisjoint
    /\ server.vm_bitmap = UNION {OwnedPages(w) : w \in PageOwners}
    /\ server.vm_stats_used_pages = Cardinality(server.vm_bitmap)

\* A value's reference count is the number of dictionary entries and jobs that hold it: no
\* value is freed while an I/O thread works on it and none is leaked by a canceled job.
RefcountExact ==
    LET NJobs(o) ==
          LET Holds(j) == j # NULL /\ j.val = o
          IN  Cardinality({i \in DOMAIN server.io_newjobs : Holds(server.io_newjobs[i])})
              + Cardinality({t \in Threads : Holds(server.io_processing[t])})
              + Cardinality({i \in DOMAIN server.io_processed : Holds(server.io_processed[i])})
        NKeys(o) == Cardinality({k \in Keys : server.dict[k] = o})
    IN  \A o \in Objs :
          CASE server.heap[o].kind = "val" -> server.heap[o].refcount = NKeys(o) + NJobs(o)
            [] server.heap[o].kind = "vp" -> NKeys(o) = 1 /\ NJobs(o) = 0
            [] OTHER -> NKeys(o) = 0 /\ NJobs(o) = 0

\* What a key holds, in memory or on disk, is what was last stored under it, whatever the
\* interleaving of swap out, load, cancel, delete and change in place.
DataIntegrity ==
    \A k \in Keys :
      LET o == server.dict[k]
      IN  IF o = NULL THEN truth[k] = NULL
          ELSE truth[k] = IF server.heap[o].kind = "vp"
                          THEN vmReadObjectFromSwap(swap, server.heap[o].page)
                          ELSE server.heap[o].data

\* While a BGSAVE child runs, the pages it may still read hold what they held at the fork:
\* no I/O thread and no blocking swap overwrites them.
SnapshotIntact ==
    child # NULL =>
        \A k \in Keys : child[k].page # NULL =>
            vmReadObjectFromSwap(swap, child[k].page) = child[k].data

\* While an I/O thread works on a job, nobody changes or frees the value it saves or the
\* vmpointer it loads from: the main thread waits in vmCancelThreadedIOJob first.  (A step
\* that fails an assertion ends the process.)
WorkUndisturbed ==
    [][\A t \in Threads :
         LET j == server.io_processing[t]
         IN  j # NULL /\ server'.io_processing[t] = j /\ ~server'.panic =>
               /\ j.val # NULL => /\ server'.heap[j.val].kind = "val"
                                 /\ server'.heap[j.val].data = server.heap[j.val].data
               /\ j.type = "LOAD" => server'.heap[j.id] = server.heap[j.id]]_vars

\* The hand-over of jobs between the threads follows VMQueue
Queue == INSTANCE VMQueue WITH
    MaxJobs <- Cardinality(Objs),
    newjobs <- Len(server.io_newjobs),
    processed <- Len(server.io_processed),
    thread <- [t \in Threads |-> IF thread[t] = "finish" THEN "work" ELSE thread[t]],
    active <- server.io_active_threads

\* RedisVM implements VMQueue: every step of the server that touches the lists, the pipe or
\* the threads is a step of the protocol proved correct there
ImplementsQueue == Queue!QueueSpec

\* A blocked client is never forgotten: each key it waits for is being loaded by a live
\* job, both directions of the waiting relation agree, and once it waits for nothing it is
\* in io_ready_clients exactly once.
WaitersAreServed ==
    LET Count2(s, x) == Cardinality({i \in DOMAIN s : s[i] = x})
    IN  /\ \A k \in Keys : server.io_keys[k] # <<>> =>
              \E j \in LiveJobs : j.type = "LOAD" /\ j.key = k
        /\ \A k \in Keys, c \in Clients :
              Count2(server.io_keys[k], c) = Count2(server.client_keys[c], k)
        /\ \A c \in Clients :
              Count2(server.io_ready_clients, c) =
                  IF clients[c].io_wait /\ server.client_keys[c] = <<>> THEN 1 ELSE 0

\* A client blocked on swapped keys is eventually resumed (or goes away)
BlockedClientsResume ==
    \A c \in Clients : clients[c].io_wait ~> ~clients[c].io_wait

\* The main thread always comes back to its event loop: the busy wait of vmCancelThreadedIOJob
\* for a job in io_processing ends, and so does waitEmptyIOJobsQueue before a fork, although
\* the I/O threads it waits for may be blocked on a full pipe that only it empties
MainThreadReturns == (main.pc # "loop") ~> (main.pc = "loop")

============================================================================
