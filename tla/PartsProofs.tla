---------------------------- MODULE PartsProofs -----------------------------
(***************************************************************************)
(* Proofs about parts that are modelled on their own: the hand-over of jobs *)
(* in the virtual memory of Redis, for any number of threads, jobs and pipe *)
(* size; its page table, for every file size, jump distance and object size; *)
(* the counter of used memory of zmalloc, for any number of threads and    *)
(* blocks, any sizes and any width of size_t; and the reference counts of  *)
(* shared_ptr, which count the references that are still to be given up.   *)
(***************************************************************************)
EXTENDS VMPages, VMQueue, Zmalloc, SharedPtr, ListsProofs, FiniteSetTheorems

-----------------------------------------------------------------------------
(* The hand-over of jobs *)

QueueInv == QueueTypeOK /\ OneBytePerJob /\ ActiveThreadsExact /\ NoStrandedJob

\* There are finitely many threads, and so of those that run or signal.
LEMMA ThreadSets ==
    /\ IsFiniteSet(Threads) /\ Cardinality(Threads) = MaxThreads
    /\ IsFiniteSet(Running) /\ IsFiniteSet(Signalling)
    /\ Cardinality(Running) \in Nat /\ Cardinality(Signalling) \in Nat
<1>1. IsFiniteSet(Threads) /\ Cardinality(Threads) = MaxThreads
  BY FS_Interval, QueueAssumption DEF Threads
<1>2. Running \in SUBSET Threads /\ Signalling \in SUBSET Threads
  BY DEF Running, Signalling
<1>3. IsFiniteSet(Running) /\ IsFiniteSet(Signalling)
  BY <1>1, <1>2, FS_Subset
<1> QED BY <1>1, <1>3, FS_CardinalityType

\* The same for the threads after a step
LEMMA ThreadSetsPrime ==
    /\ IsFiniteSet(Running') /\ IsFiniteSet(Signalling')
    /\ Cardinality(Running') \in Nat /\ Cardinality(Signalling') \in Nat
<1>2. Running' \in SUBSET Threads /\ Signalling' \in SUBSET Threads
  BY DEF Running, Signalling
<1>3. IsFiniteSet(Running') /\ IsFiniteSet(Signalling')
  BY ThreadSets, <1>2, FS_Subset
<1> QED BY <1>3, FS_CardinalityType

\* What queueIOJob does to the thread sets: one thread more runs, and none signals more
LEMMA EnqueueStep ==
    ASSUME QueueInv, Enqueue
    PROVE  /\ newjobs' \in Nat
           /\ active' \in 0..MaxThreads
           /\ thread' \in [Threads -> ThreadState]
           /\ Signalling' = Signalling
           /\ active' = Cardinality(Running')
           /\ Running' # {}
<1>1. newjobs' \in Nat
  BY DEF QueueInv, QueueTypeOK, Enqueue
<1>2. CASE active < MaxThreads
  <2>1. PICK t \in Threads \ Running : thread' = [thread EXCEPT ![t] = "top"]
    BY <1>2, QueueAssumption DEF QueueInv, QueueTypeOK, Enqueue
  <2>2. active' = active + 1
    BY <1>2, QueueAssumption DEF QueueInv, QueueTypeOK, Enqueue
  <2>3. thread' \in [Threads -> ThreadState]
    BY <2>1 DEF QueueInv, QueueTypeOK, ThreadState
  <2>4. Running' = Running \cup {t} /\ Signalling' = Signalling
    BY <2>1 DEF QueueInv, QueueTypeOK, Running, Signalling
  <2>5. Cardinality(Running') = Cardinality(Running) + 1
    BY <2>1, <2>4, ThreadSets, FS_AddElement
  <2> QED BY <1>1, <1>2, <2>2, <2>3, <2>4, <2>5, QueueAssumption
          DEF QueueInv, QueueTypeOK, ActiveThreadsExact
<1>3. CASE active >= MaxThreads
  <2>1. UNCHANGED <<active, thread>> /\ active = MaxThreads
    BY <1>3, QueueAssumption DEF QueueInv, QueueTypeOK, Enqueue
  <2>2. Running' = Running /\ Signalling' = Signalling
    BY <2>1 DEF Running, Signalling
  <2>3. Running # {}
    BY <2>1, FS_EmptySet, QueueAssumption DEF QueueInv, ActiveThreadsExact
  <2> QED BY <1>1, <2>1, <2>2, <2>3, QueueAssumption DEF QueueInv, QueueTypeOK, ActiveThreadsExact
<1> QED BY <1>2, <1>3, QueueAssumption DEF QueueInv, QueueTypeOK

\* queueIOJob, vmCancelThreadedIOJob and vmThreadedIOCompletedJob keep the invariant.
LEMMA MainStep == ASSUME QueueInv, MainThread PROVE QueueInv'
<1>1. CASE QueueJob
  <2>1. Enqueue /\ UNCHANGED <<processed, pipe>>
    BY <1>1 DEF QueueJob
  <2> QED BY <2>1, EnqueueStep
          DEF QueueInv, QueueTypeOK, OneBytePerJob, ActiveThreadsExact, NoStrandedJob
<1>2. CASE CancelQueued
  <2>1. Running' = Running /\ Signalling' = Signalling
    BY <1>2 DEF CancelQueued, Running, Signalling
  <2> QED BY <1>2, <2>1
          DEF QueueInv, QueueTypeOK, OneBytePerJob, ActiveThreadsExact, NoStrandedJob, CancelQueued
<1>3. CASE CompleteJob
  <2>1. pipe' \in 0..PipeSize /\ pipe' = pipe - 1 /\ processed' = processed - 1 /\ pipe > 0
    BY <1>3, QueueAssumption DEF QueueInv, QueueTypeOK, CompleteJob
  <2>2. /\ newjobs' \in Nat /\ active' \in 0..MaxThreads
        /\ thread' \in [Threads -> ThreadState]
        /\ Signalling' = Signalling /\ active' = Cardinality(Running')
        /\ newjobs' > 0 => Running' # {}
    <3>1. CASE Enqueue
      BY <3>1, EnqueueStep
    <3>2. CASE UNCHANGED <<newjobs, active, thread>>
      BY <3>2 DEF QueueInv, QueueTypeOK, ActiveThreadsExact, NoStrandedJob, Running, Signalling
    <3> QED BY <1>3, <3>1, <3>2 DEF CompleteJob
  <2>3. processed' \in Nat /\ processed' = pipe' + Cardinality(Signalling')
    BY <2>1, <2>2, ThreadSets DEF QueueInv, QueueTypeOK, OneBytePerJob
  <2> QED BY <2>1, <2>2, <2>3
          DEF QueueInv, QueueTypeOK, OneBytePerJob, ActiveThreadsExact, NoStrandedJob
<1> QED BY <1>1, <1>2, <1>3 DEF MainThread

\* IOThreadEntryPoint keeps the invariant.
LEMMA ThreadStep == ASSUME QueueInv, NEW t \in Threads, IOThread(t) PROVE QueueInv'
<1>0. thread \in [Threads -> ThreadState] /\ QueueTypeOK
  BY DEF QueueInv, QueueTypeOK
<1>1. CASE TakeJob(t)
  <2>1. /\ thread' \in [Threads -> ThreadState]
        /\ Running' = Running /\ Signalling' = Signalling /\ t \in Running
    BY <1>0, <1>1 DEF TakeJob, Running, Signalling, ThreadState
  <2> QED BY <1>1, <2>1
          DEF QueueInv, QueueTypeOK, OneBytePerJob, ActiveThreadsExact, NoStrandedJob, TakeJob
<1>2. CASE ThreadExit(t)
  <2>1. /\ thread' \in [Threads -> ThreadState] /\ t \in Running
        /\ Running' = Running \ {t} /\ Signalling' = Signalling
    BY <1>0, <1>2 DEF ThreadExit, Running, Signalling, ThreadState
  <2>2. Cardinality(Running') = Cardinality(Running) - 1
    BY <2>1, ThreadSets, FS_RemoveElement
  <2>3. active' = Cardinality(Running') /\ active' \in 0..MaxThreads
    BY <1>2, <2>2, ThreadSets, ThreadSetsPrime, QueueAssumption
    DEF QueueInv, QueueTypeOK, ActiveThreadsExact, ThreadExit
  <2> QED BY <1>2, <2>1, <2>3
          DEF QueueInv, QueueTypeOK, OneBytePerJob, ActiveThreadsExact, NoStrandedJob, ThreadExit
<1>3. CASE FinishJob(t)
  <2>1. /\ thread' \in [Threads -> ThreadState] /\ t \notin Signalling
        /\ Running' = Running /\ Signalling' = Signalling \cup {t}
    BY <1>0, <1>3 DEF FinishJob, Running, Signalling, ThreadState
  <2>2. Cardinality(Signalling') = Cardinality(Signalling) + 1
    BY <2>1, ThreadSets, FS_AddElement
  <2> QED BY <1>3, <2>1, <2>2, ThreadSets
          DEF QueueInv, QueueTypeOK, OneBytePerJob, ActiveThreadsExact, NoStrandedJob, FinishJob
<1>4. CASE SignalMain(t)
  <2>1. /\ thread' \in [Threads -> ThreadState] /\ t \in Signalling
        /\ Running' = Running /\ Signalling' = Signalling \ {t}
    BY <1>0, <1>4 DEF SignalMain, Running, Signalling, ThreadState
  <2>2. Cardinality(Signalling') = Cardinality(Signalling) - 1
    BY <2>1, ThreadSets, FS_RemoveElement
  <2> QED BY <1>4, <2>1, <2>2, ThreadSets, QueueAssumption
          DEF QueueInv, QueueTypeOK, OneBytePerJob, ActiveThreadsExact, NoStrandedJob, SignalMain
<1> QED BY <1>1, <1>2, <1>3, <1>4 DEF IOThread

\* The invariant holds before any job was queued.
LEMMA InitQueueInv == QueueInit => QueueInv
<1> SUFFICES ASSUME QueueInit PROVE QueueInv
  OBVIOUS
<1>1. Running = {} /\ Signalling = {}
  BY DEF QueueInit, Running, Signalling
<1> QED BY <1>1, FS_EmptySet, QueueAssumption
        DEF QueueInit, QueueInv, QueueTypeOK, OneBytePerJob, ActiveThreadsExact, NoStrandedJob, ThreadState

\* The inductive invariant of the hand-over protocol
THEOREM QueueInvariance == QueueSpec => []QueueInv
<1>1. ASSUME QueueInv, UNCHANGED queueVars PROVE QueueInv'
  BY <1>1 DEF queueVars, QueueInv, QueueTypeOK, OneBytePerJob, ActiveThreadsExact, NoStrandedJob, Running,
              Signalling
<1>2. QueueInv /\ [QueueNext]_queueVars => QueueInv'
  BY <1>1, MainStep, ThreadStep DEF QueueNext
<1> QED BY InitQueueInv, <1>2, PTL DEF QueueSpec

\* vm.c: the lists never underflow and at most vm_max_threads threads are counted
THEOREM QueueTypeCorrect == QueueSpec => []QueueTypeOK
<1>1. QueueInv => QueueTypeOK
  BY DEF QueueInv
<1> QED BY <1>1, QueueInvariance, PTL

\* vmThreadedIOCompletedJob: a byte in the pipe always has its job in io_processed
THEOREM EveryByteHasAJob == QueueSpec => []OneBytePerJob
<1>1. QueueInv => OneBytePerJob
  BY DEF QueueInv
<1> QED BY <1>1, QueueInvariance, PTL

\* waitEmptyIOJobsQueue: io_active_threads is exact
THEOREM ThreadsCounted == QueueSpec => []ActiveThreadsExact
<1>1. QueueInv => ActiveThreadsExact
  BY DEF QueueInv
<1> QED BY <1>1, QueueInvariance, PTL

\* queueIOJob and IOThreadEntryPoint: a queued job always has a thread to take it
THEOREM JobsHaveAThread == QueueSpec => []NoStrandedJob
<1>1. QueueInv => NoStrandedJob
  BY DEF QueueInv
<1> QED BY <1>1, QueueInvariance, PTL

\* queueIOJob, IOThreadEntryPoint, vmThreadedIOCompletedJob: no job is lost between the threads
THEOREM HandoverIsSound == QueueSpec => []HandoverSound
<1>1. OneBytePerJob /\ ActiveThreadsExact /\ NoStrandedJob => HandoverSound
  BY DEF HandoverSound
<1> QED BY <1>1, EveryByteHasAJob, ThreadsCounted, JobsHaveAThread, PTL

-----------------------------------------------------------------------------
(* The page table.  FoundIsFree is not inductive: it needs what the loop   *)
(* knows half way.  TailFree is the loop invariant: the numfree pages that *)
(* end just before the page to be tested are free and inside the file,     *)
(* unless the scan is about to wrap, where the count is dropped.           *)

TailFree ==
    find.pc = "scan" =>
        /\ find.n >= 1
        /\ find.numfree > 0 /\ find.base + find.offset # VmPages =>
              LET p == This(find.base, find.offset)
              IN  /\ p <= VmPages
                  /\ find.numfree <= p
                  /\ \A q \in (p - find.numfree)..(p - 1) : q \notin vm_bitmap

\* Allocated clusters lie in the file
ClustersInFile == \A c \in clusters : Run(c[1], c[2]) \subseteq Pages

PagesInv ==
    /\ PagesTypeOK
    /\ TailFree
    /\ FoundIsFree
    /\ find.pc = "ok" => find.n >= 1
    /\ ClustersInFile
    /\ ClustersDisjoint
    /\ UsedPagesExact

----------------------------------------------------------------------------

\* One iteration of the search keeps the loop invariant: NumFree counts free pages that end
\* at the page just tested
LEMMA NumFreeSound ==
    ASSUME PagesTypeOK, TailFree, find.pc = "scan", find.offset < VmPages
    PROVE  LET this == This(find.base, find.offset)
               free == NumFree(find)
           IN  /\ this \in Pages
               /\ free \in Nat
               /\ free <= this + 1
               /\ \A q \in (this - free + 1)..this : q \notin vm_bitmap
<1> DEFINE this == This(find.base, find.offset)
           free == NumFree(find)
<1>1. /\ VmPages \in Nat \ {0} /\ find.base \in 0..VmPages /\ find.offset \in Nat
      /\ find.numfree \in Nat
  BY PagesAssumption DEF PagesTypeOK, FindType
<1>2. this \in Pages
  BY <1>1 DEF This, Pages
<1>3. CASE this \in vm_bitmap
  <2>1. free = 0
    BY <1>3 DEF NumFree, vmFreePage
  <2> QED BY <2>1, <1>2, <1>1 DEF Pages
<1>4. CASE this \notin vm_bitmap /\ find.base + find.offset >= VmPages /\ this = 0
  <2>1. free = 1
    BY <1>4 DEF NumFree, vmFreePage
  <2> QED BY <2>1, <1>2, <1>4, <1>1 DEF Pages
<1>5. CASE this \notin vm_bitmap /\ ~(find.base + find.offset >= VmPages /\ this = 0)
  <2>1. free = find.numfree + 1
    BY <1>5 DEF NumFree, vmFreePage
  <2>2. find.base + find.offset # VmPages
    BY <1>5, <1>1 DEF This
  <2>3. CASE find.numfree = 0
    BY <2>1, <2>3, <1>1, <1>2, <1>5 DEF Pages
  <2>4. CASE find.numfree > 0
    <3>1. /\ find.numfree <= this
          /\ \A q \in (this - find.numfree)..(this - 1) : q \notin vm_bitmap
      BY <2>2, <2>4 DEF TailFree
    <3>2. this \in Int /\ this >= 0
      BY <1>2, <1>1 DEF Pages
    <3>3. \A q \in (this - free + 1)..this : q = this \/ q \in (this - find.numfree)..(this - 1)
      BY <2>1, <3>2, <1>1
    <3> QED BY <3>1, <3>2, <3>3, <2>1, <1>1, <1>2, <1>5
  <2> QED BY <2>3, <2>4, <1>1
<1> QED BY <1>3, <1>4, <1>5

\* Every page the scan tests is inside the file
LEMMA ScanStaysInFile == PagesTypeOK => ScanInBounds
  BY PagesAssumption DEF PagesTypeOK, FindType, ScanInBounds, This, Pages

\* The invariant holds for the empty swap file.
LEMMA InitPagesInv == PagesInit => PagesInv
<1> SUFFICES ASSUME PagesInit PROVE PagesInv
  OBVIOUS
<1>1. PagesTypeOK
  BY PagesAssumption DEF PagesInit, PagesTypeOK, FindType, NoFind
<1>2. TailFree /\ FoundIsFree /\ (find.pc = "ok" => find.n >= 1)
  BY DEF PagesInit, TailFree, FoundIsFree, NoFind
<1>3. ClustersInFile /\ ClustersDisjoint
  BY DEF PagesInit, ClustersInFile, ClustersDisjoint, Allocated
<1>4. UsedPagesExact
  BY FS_EmptySet DEF PagesInit, UsedPagesExact
<1> QED BY <1>1, <1>2, <1>3, <1>4 DEF PagesInv

\* vmFindContiguousPages keeps the invariant at every iteration.
LEMMA FindStep ==
    ASSUME PagesInv,
           \/ \E n \in 1..MaxCount : StartFind(n)
           \/ Found \/ Scan \/ NotFound \/ GiveUp
    PROVE  PagesInv'
<1> USE PagesAssumption
<1>0. /\ UNCHANGED <<vm_bitmap, clusters, vm_stats_used_pages>>
      /\ PagesTypeOK /\ TailFree
  BY DEF PagesInv, StartFind, Found, Scan, NotFound, GiveUp
<1>1. (ClustersInFile /\ ClustersDisjoint /\ UsedPagesExact)'
  BY <1>0 DEF PagesInv, ClustersInFile, ClustersDisjoint, Allocated, UsedPagesExact
<1>2. ASSUME NEW n \in 1..MaxCount, StartFind(n) PROVE PagesInv'
  <2>0. /\ vm_next_page' \in 0..VmPages
        /\ vm_near_pages' \in 0..MaxNearPages
        /\ find' = [pc |-> "scan", n |-> n, base |-> vm_next_page', offset |-> 0,
                    since_jump |-> 0, numfree |-> 0, first |-> 0]
    <3>0. /\ vm_near_pages' = IF vm_near_pages = MaxNearPages THEN 1 ELSE vm_near_pages + 1
          /\ vm_next_page' = IF vm_near_pages = MaxNearPages THEN 0 ELSE vm_next_page
      BY <1>2 DEF StartFind
    <3>a. vm_near_pages \in 0..MaxNearPages /\ vm_next_page \in 0..VmPages
      BY <1>0 DEF PagesTypeOK
    <3>1. vm_next_page' \in 0..VmPages /\ vm_near_pages' \in 0..MaxNearPages
      BY <3>0, <3>a
    <3>2. find' = [NoFind EXCEPT !.pc = "scan", !.n = n, !.base = vm_next_page']
      BY <1>2 DEF StartFind
    <3> QED BY <3>1, <3>2 DEF NoFind
  <2>1. PagesTypeOK'
    <3>1. n \in 0..MaxCount
      OBVIOUS
    <3>2. find' \in FindType
      BY <2>0, <3>1 DEF FindType
    <3> QED BY <2>0, <3>2, <1>0 DEF PagesTypeOK, FindType
  <2>2. (TailFree /\ FoundIsFree /\ (find.pc = "ok" => find.n >= 1))'
    BY <2>0 DEF TailFree, FoundIsFree
  <2> QED BY <2>1, <2>2, <1>1 DEF PagesInv
<1>3. ASSUME Found PROVE PagesInv'
  <2> DEFINE this == This(find.base, find.offset)
  <2>1. /\ this \in Pages /\ find.n <= this + 1
        /\ \A q \in (this - find.n + 1)..this : q \notin vm_bitmap
    BY <1>0, <1>3, NumFreeSound DEF Found
  <2>2. find' = [find EXCEPT !.pc = "ok", !.numfree = find.n, !.first = this - (find.n - 1)]
    BY <1>3 DEF Found
  <2>3. this \in Int /\ this >= 0 /\ this < VmPages /\ find.n \in Nat /\ find.n >= 1
    BY <2>1, <1>0, <1>3 DEF Pages, PagesTypeOK, FindType, TailFree, Found
  <2>4. PagesTypeOK'
    <3>0. this - (find.n - 1) \in Int
      BY <2>3
    <3>1. find' \in FindType
      BY <1>0, <2>2, <2>3, <3>0 DEF PagesTypeOK, FindType
    <3>2. vm_next_page' \in 0..VmPages
      BY <1>3, <2>3 DEF Found
    <3> QED BY <3>1, <3>2, <1>0, <1>3 DEF PagesTypeOK, Found
  <2>5. find'.n = find.n /\ find'.first = this - (find.n - 1) /\ find'.pc = "ok"
    BY <1>0, <2>2 DEF PagesTypeOK, FindType
  <2>6. FoundIsFree'
    <3>1. Run(find'.first, find'.n) = (this - find.n + 1)..this
      BY <2>5, <2>3 DEF Run
    <3> QED BY <3>1, <2>1, <2>3, <1>0 DEF FoundIsFree, Pages
  <2> QED BY <2>4, <2>5, <2>6, <2>3, <1>1 DEF PagesInv, TailFree
<1>4. ASSUME Scan PROVE PagesInv'
  <2> DEFINE this == This(find.base, find.offset)
             free == NumFree(find)
  <2>1. /\ this \in Pages /\ free \in Nat /\ free <= this + 1
        /\ \A q \in (this - free + 1)..this : q \notin vm_bitmap
    BY <1>0, <1>4, NumFreeSound DEF Scan
  <2>2. /\ find.pc = "scan" /\ find.offset < VmPages /\ find.n >= 1
        /\ find.base \in 0..VmPages /\ find.offset \in Nat /\ find.since_jump \in Nat
    BY <1>0, <1>4 DEF Scan, PagesTypeOK, FindType, TailFree
  <2>3. CASE \E jump \in 0..(MaxRandomJump - 1) :
               find' = [find EXCEPT !.offset = @ + jump, !.since_jump = 0, !.numfree = 0]
    <3>1. PagesTypeOK'
      <4>0. PICK jump \in 0..(MaxRandomJump - 1) :
               find' = [find EXCEPT !.offset = @ + jump, !.since_jump = 0, !.numfree = 0]
        BY <2>3
      <4>a. find.offset + jump \in Nat
        BY <2>2, <4>0
      <4>1. find' \in FindType
        BY <1>0, <4>0, <4>a DEF PagesTypeOK, FindType
      <4> QED BY <4>1, <1>0, <1>4 DEF PagesTypeOK, Scan
    <3>2. find'.numfree = 0 /\ find'.pc = "scan" /\ find'.n = find.n
      BY <1>0, <2>2, <2>3 DEF PagesTypeOK, FindType
    <3> QED BY <3>1, <3>2, <2>2, <1>1 DEF PagesInv, TailFree, FoundIsFree
  <2>4. CASE find' = [find EXCEPT !.offset = @ + 1, !.since_jump = find.since_jump + 1,
                                  !.numfree = free]
    <3>1. PagesTypeOK'
      <4>0. find.offset + 1 \in Nat /\ find.since_jump + 1 \in Nat
        BY <2>2
      <4>1. find' \in FindType
        BY <1>0, <2>1, <2>4, <4>0 DEF PagesTypeOK, FindType
      <4> QED BY <4>1, <1>0, <1>4 DEF PagesTypeOK, Scan
    <3>2. /\ find'.numfree = free /\ find'.pc = "scan" /\ find'.n = find.n
          /\ find'.base = find.base /\ find'.offset = find.offset + 1
      BY <1>0, <2>2, <2>4 DEF PagesTypeOK, FindType
    <3>3. find'.base + find'.offset # VmPages => This(find'.base, find'.offset) = this + 1
      BY <3>2, <2>2 DEF This
    <3>4. this \in Int /\ this >= 0 /\ this < VmPages
      BY <2>1 DEF Pages
    <3>5. ((this + 1) - free)..((this + 1) - 1) = (this - free + 1)..this
      BY <3>4, <2>1
    <3>6. TailFree'
      BY <3>2, <3>3, <3>4, <3>5, <2>1, <2>2, <1>0 DEF TailFree
    <3> QED BY <3>1, <3>2, <3>6, <1>1 DEF PagesInv, FoundIsFree
  <2> QED BY <2>3, <2>4, <1>4 DEF Scan
<1>5. ASSUME NotFound \/ GiveUp PROVE PagesInv'
  <2>1. PagesTypeOK'
    BY <1>5, <1>0 DEF NotFound, GiveUp, PagesTypeOK, FindType, NoFind
  <2>2. find'.pc \notin {"scan", "ok"}
    BY <1>5, <1>0 DEF NotFound, GiveUp, PagesTypeOK, FindType, NoFind
  <2> QED BY <2>1, <2>2, <1>1 DEF PagesInv, TailFree, FoundIsFree
<1> QED BY <1>2, <1>3, <1>4, <1>5

\* A run of n pages has n pages.
LEMMA RunCardinality ==
    ASSUME NEW first \in Int, NEW n \in Nat
    PROVE  IsFiniteSet(Run(first, n)) /\ Cardinality(Run(first, n)) = n
  BY FS_Interval DEF Run

\* Finitely many pages are in use.
LEMMA BitmapFinite == PagesTypeOK => IsFiniteSet(vm_bitmap)
<1>1. VmPages - 1 \in Int
  BY PagesAssumption
<1>2. IsFiniteSet(Pages)
  BY <1>1, FS_Interval DEF Pages
<1> QED BY <1>2, FS_Subset DEF PagesTypeOK

\* vmMarkPagesUsed keeps the invariant.
LEMMA MarkUsedStep ==
    ASSUME PagesInv, vmMarkPagesUsed
    PROVE  PagesInv'
<1> USE PagesAssumption
<1> DEFINE new == <<find.first, find.n>>
           R == Run(find.first, find.n)
<1>1. /\ PagesTypeOK /\ find.pc = "ok" /\ find.n \in 1..MaxCount /\ find.first \in Int
      /\ R \subseteq Pages \ vm_bitmap
      /\ vm_bitmap' = vm_bitmap \cup R
      /\ vm_stats_used_pages' = vm_stats_used_pages + find.n
      /\ clusters' = clusters \cup {new}
      /\ find' = NoFind
  BY DEF PagesInv, PagesTypeOK, FindType, vmMarkPagesUsed, FoundIsFree
<1>2. PagesTypeOK'
  <2>1. vm_bitmap' \subseteq Pages
    BY <1>1 DEF PagesTypeOK, FindType
  <2>2. clusters' \subseteq Int \X (1..MaxCount)
    BY <1>1 DEF PagesTypeOK, FindType
  <2> QED BY <2>1, <2>2, <1>1 DEF PagesTypeOK, FindType, NoFind, vmMarkPagesUsed
<1>3. (TailFree /\ FoundIsFree /\ (find.pc = "ok" => find.n >= 1))'
  BY <1>1 DEF TailFree, FoundIsFree, NoFind
<1>4. new[1] = find.first /\ new[2] = find.n
  OBVIOUS
<1>5. ClustersInFile'
  BY <1>1, <1>4 DEF PagesInv, ClustersInFile
<1>6. ClustersDisjoint'
  <2>1. \A c \in clusters : Run(c[1], c[2]) \cap R = {}
    BY <1>1 DEF PagesInv, ClustersDisjoint, Allocated
  <2>2. vm_bitmap' = Allocated(clusters')
    BY <1>1, <1>4 DEF PagesInv, ClustersDisjoint, Allocated
  <2> QED BY <2>1, <2>2, <1>1, <1>4 DEF PagesInv, ClustersDisjoint
<1>7. UsedPagesExact'
  <2>1. IsFiniteSet(vm_bitmap) /\ IsFiniteSet(R) /\ Cardinality(R) = find.n
    BY <1>1, BitmapFinite, RunCardinality
  <2>2. vm_bitmap \cap R = {}
    BY <1>1
  <2>3. Cardinality(vm_bitmap \cup R) = Cardinality(vm_bitmap) + find.n
    <3>1. Cardinality(vm_bitmap \cup R)
            = Cardinality(vm_bitmap) + Cardinality(R) - Cardinality(vm_bitmap \cap R)
      BY <2>1, FS_Union
    <3>2. Cardinality(vm_bitmap \cap R) = 0
      BY <2>2, FS_EmptySet
    <3>3. Cardinality(vm_bitmap) \in Nat
      BY <2>1, FS_CardinalityType
    <3> QED BY <3>1, <3>2, <3>3, <2>1, <1>1
  <2> QED BY <2>3, <1>1 DEF PagesInv, UsedPagesExact
<1> QED BY <1>2, <1>3, <1>5, <1>6, <1>7 DEF PagesInv

\* vmMarkPagesFree keeps the invariant.
LEMMA MarkFreeStep ==
    ASSUME PagesInv, NEW c \in clusters, vmMarkPagesFree(c)
    PROVE  PagesInv'
<1> USE PagesAssumption
<1> DEFINE R == Run(c[1], c[2])
<1>1. /\ PagesTypeOK /\ find.pc = "idle" /\ find' = find
      /\ vm_bitmap' = vm_bitmap \ R
      /\ vm_stats_used_pages' = vm_stats_used_pages - c[2]
      /\ clusters' = clusters \ {c}
      /\ c[1] \in Int /\ c[2] \in 1..MaxCount
  BY DEF PagesInv, PagesTypeOK, FindType, vmMarkPagesFree
<1>2. PagesTypeOK'
  BY <1>1 DEF PagesTypeOK, vmMarkPagesFree
<1>3. (TailFree /\ FoundIsFree /\ (find.pc = "ok" => find.n >= 1))'
  BY <1>1 DEF TailFree, FoundIsFree
<1>4. ClustersInFile'
  BY <1>1 DEF PagesInv, ClustersInFile
<1>5. R \subseteq vm_bitmap
  BY DEF PagesInv, ClustersDisjoint, Allocated
<1>6. ClustersDisjoint'
  <2>1. vm_bitmap \ R = Allocated(clusters \ {c})
    BY DEF PagesInv, ClustersDisjoint, Allocated
  <2> QED BY <2>1, <1>1 DEF PagesInv, ClustersDisjoint
<1>7. UsedPagesExact'
  <2>1. IsFiniteSet(vm_bitmap) /\ Cardinality(R) = c[2]
    BY <1>1, BitmapFinite, RunCardinality
  <2>2. vm_bitmap \cap R = R
    BY <1>5
  <2>3. Cardinality(vm_bitmap \ R) = Cardinality(vm_bitmap) - Cardinality(R)
    BY <2>1, <2>2, FS_Difference
  <2> QED BY <2>3, <2>1, <1>1 DEF PagesInv, UsedPagesExact
<1> QED BY <1>2, <1>3, <1>4, <1>6, <1>7 DEF PagesInv

\* Every step of the page table keeps the invariant.
LEMMA StepPagesInv == PagesInv /\ [PagesNext]_pagesVars => PagesInv'
<1>1. ASSUME PagesInv, UNCHANGED pagesVars PROVE PagesInv'
  BY <1>1 DEF pagesVars, PagesInv, PagesTypeOK, TailFree, FoundIsFree, ClustersInFile, ClustersDisjoint,
              Allocated, UsedPagesExact
<1> QED BY <1>1, FindStep, MarkUsedStep, MarkFreeStep DEF PagesNext

\* The inductive invariant holds in every reachable state
THEOREM PagesInvariance == PagesSpec => []PagesInv
  BY InitPagesInv, StepPagesInv, PTL DEF PagesSpec

\* vm.c: the page table, the next-page hint and the locals of the search keep their ranges
THEOREM PagesTypeCorrect == PagesSpec => []PagesTypeOK
<1>1. PagesInv => PagesTypeOK
  BY DEF PagesInv
<1> QED BY <1>1, PagesInvariance, PTL

\* vmFindContiguousPages never reads the bitmap outside the file
THEOREM NeverOutOfBounds == PagesSpec => []ScanInBounds
  BY PagesTypeCorrect, ScanStaysInFile, PTL

\* vmFindContiguousPages returns a run of n free pages inside the file, so the assertion in
\* vmMarkPageUsed never fails
THEOREM FoundPagesAreFree == PagesSpec => []FoundIsFree
<1>1. PagesInv => FoundIsFree
  BY DEF PagesInv
<1> QED BY <1>1, PagesInvariance, PTL

\* No page belongs to two clusters and the bitmap holds no other page, so the assertion in
\* vmMarkPageFree never fails
THEOREM ClustersStayDisjoint == PagesSpec => []ClustersDisjoint
<1>1. PagesInv => ClustersDisjoint
  BY DEF PagesInv
<1> QED BY <1>1, PagesInvariance, PTL

\* vm_stats_used_pages is the number of used pages
THEOREM UsedPagesCounterExact == PagesSpec => []UsedPagesExact
<1>1. PagesInv => UsedPagesExact
  BY DEF PagesInv
<1> QED BY <1>1, PagesInvariance, PTL

\* vmFindContiguousPages: what it tests is in the file, what it returns is in the file and free
THEOREM SearchIsSound == PagesSpec => []SearchSound
<1>1. ScanInBounds /\ FoundIsFree => SearchSound
  BY DEF SearchSound
<1> QED BY <1>1, NeverOutOfBounds, FoundPagesAreFree, PTL

\* vmMarkPagesUsed, vmMarkPagesFree: the bitmap and the counter stand for the clusters handed out
THEOREM PageTableStaysExact == PagesSpec => []PageTableExact
<1>1. ClustersDisjoint /\ UsedPagesExact => PageTableExact
  BY DEF PageTableExact
<1> QED BY <1>1, ClustersStayDisjoint, UsedPagesCounterExact, PTL

----------------------------------------------------------------------------
(* A search that made no jump overlooks nothing *)

\* Between these pages, the last one excluded, every run of n pages has a page in use
NoRunIn(lo, hi, n, used) == \A p \in Int : lo <= p /\ p + n <= hi => \E q \in Run(p, n) : q \in used

\* All the free pages that end before page p, in the stretch that begins at lo, are counted.
CountExact(lo, p, free, used) ==
    /\ free <= p - lo
    /\ free < p - lo => p - free - 1 \in used

\* While offset and since_jump grow together: no run was overlooked so far, neither before nor
\* after the wrap, and numfree counts all the free pages that end before the page to be tested.
NothingOverlooked ==
    find.pc \in {"scan", "err"} /\ find.offset = find.since_jump =>
        LET end == find.base + find.offset IN
        /\ find.offset <= VmPages
        /\ end <= VmPages => NoRunIn(find.base, end, find.n, vm_bitmap)
        /\ end > VmPages => /\ NoRunIn(find.base, VmPages, find.n, vm_bitmap)
                            /\ NoRunIn(0, end - VmPages, find.n, vm_bitmap)
        /\ find.pc = "scan" =>
              /\ end < VmPages => CountExact(find.base, end, find.numfree, vm_bitmap)
              /\ end > VmPages => CountExact(0, end - VmPages, find.numfree, vm_bitmap)

CountStaysBelow == find.pc = "scan" => find.numfree < find.n
ErrIsTheEnd == find.pc = "err" => find.offset >= VmPages

ScanInv == NothingOverlooked /\ CountStaysBelow /\ ErrIsTheEnd

\* What the iteration counts at the page it tests, when no run ends there
LEMMA NumFreeExact ==
    ASSUME PagesInv, ScanInv, Scan
    PROVE  LET end == find.base + find.offset
               free == NumFree(find)
           IN  /\ free \in Nat /\ free < find.n
               /\ find.offset = find.since_jump =>
                    /\ end < VmPages => CountExact(find.base, end + 1, free, vm_bitmap)
                    /\ end >= VmPages => CountExact(0, end - VmPages + 1, free, vm_bitmap)
<1> DEFINE this == This(find.base, find.offset)
           free == NumFree(find)
           end == find.base + find.offset
<1>a. /\ find \in FindType /\ VmPages \in Nat \ {0} /\ find.pc = "scan" /\ find.n >= 1
  BY PagesAssumption DEF PagesInv, PagesTypeOK, Scan, TailFree
<1>b. free # find.n /\ find.offset < VmPages /\ vm_bitmap' = vm_bitmap
  BY DEF Scan
<1>1. /\ VmPages \in Nat \ {0} /\ find.base \in 0 .. VmPages /\ find.offset \in Nat /\ find.offset < VmPages
      /\ find.numfree \in Nat /\ find.n \in Nat /\ find.pc = "scan" /\ find.n >= 1
      /\ free # find.n /\ find.numfree < find.n
  BY <1>a, <1>b DEF ScanInv, FindType, CountStaysBelow
<1>2. /\ end < VmPages => this = end
      /\ end >= VmPages => this = end - VmPages
      /\ this \in Int /\ end \in Int
  BY <1>1 DEF This
<1>4. CASE this \in vm_bitmap
  <2>1. free = 0
    BY <1>4 DEF NumFree, vmFreePage
  <2>2. /\ end < VmPages => end + 1 - free - 1 = this
        /\ end >= VmPages => end - VmPages + 1 - free - 1 = this
    BY <2>1, <1>1, <1>2
  <2> QED BY <2>1, <2>2, <1>1, <1>2, <1>4 DEF CountExact
<1>5. CASE this \notin vm_bitmap /\ end = VmPages
  <2>1. free = 1
    BY <1>5, <1>1, <1>2 DEF NumFree, vmFreePage
  <2> QED BY <2>1, <1>1, <1>5 DEF CountExact
<1>6. CASE this \notin vm_bitmap /\ end # VmPages
  <2>1. free = find.numfree + 1
    BY <1>6, <1>1, <1>2 DEF NumFree, vmFreePage
  <2>2. free \in Nat /\ free < find.n
    BY <2>1, <1>1
  <2>3. ASSUME find.offset = find.since_jump
        PROVE  /\ end < VmPages => CountExact(find.base, end + 1, free, vm_bitmap)
               /\ end >= VmPages => CountExact(0, end - VmPages + 1, free, vm_bitmap)
    <3>1. /\ end < VmPages => CountExact(find.base, end, find.numfree, vm_bitmap)
          /\ end > VmPages => CountExact(0, end - VmPages, find.numfree, vm_bitmap)
      BY <1>1, <2>3 DEF ScanInv, NothingOverlooked
    <3>2. end + 1 - free - 1 = end - find.numfree - 1
      BY <2>1, <1>1
    <3>3. end - VmPages + 1 - free - 1 = end - VmPages - find.numfree - 1
      BY <2>1, <1>1
    <3> QED BY <3>1, <3>2, <3>3, <2>1, <1>1, <1>6 DEF CountExact
  <2> QED BY <2>2, <2>3
<1> QED BY <1>4, <1>5, <1>6

\* One more page extends a stretch without a run, if fewer than n pages before it are free
LEMMA StretchGrows ==
    ASSUME NEW lo \in Int, NEW this \in Int, NEW free \in Nat, NEW n \in Nat \ {0},
           NEW used, NoRunIn(lo, this, n, used), free < n,
           CountExact(lo, this + 1, free, used)
    PROVE  NoRunIn(lo, this + 1, n, used)
<1> SUFFICES ASSUME NEW p \in Int, lo <= p, p + n <= this + 1
             PROVE  \E q \in Run(p, n) : q \in used
  BY DEF NoRunIn
<1>1. CASE p + n <= this
  BY <1>1 DEF NoRunIn
<1>2. CASE p + n = this + 1
  <2>1. this - free \in used /\ this + 1 - free - 1 = this - free
    BY <1>2 DEF CountExact
  <2>2. this - free \in p .. p + n - 1
    BY <1>2
  <2> QED BY <2>1, <2>2 DEF Run
<1> QED BY <1>1, <1>2

\* No run fits into no pages.
LEMMA NoRunInNothing ==
    ASSUME NEW lo \in Int, NEW n \in Nat \ {0}, NEW used
    PROVE  NoRunIn(lo, lo, n, used)
BY DEF NoRunIn

\* An iteration of the search overlooks no run of free pages.
LEMMA ScanOverlooksNothing ==
    ASSUME PagesInv, ScanInv, Scan
    PROVE  ScanInv'
<1> DEFINE free == NumFree(find)
           end == find.base + find.offset
<1>a. /\ find \in FindType /\ VmPages \in Nat \ {0} /\ find.pc = "scan" /\ find.n >= 1
  BY PagesAssumption DEF PagesInv, PagesTypeOK, Scan, TailFree
<1>b. free # find.n /\ find.offset < VmPages /\ vm_bitmap' = vm_bitmap
  BY DEF Scan
<1>1. /\ VmPages \in Nat \ {0} /\ find.base \in 0 .. VmPages /\ find.offset \in Nat /\ find.offset < VmPages
      /\ find.numfree \in Nat /\ find.n \in Nat \ {0} /\ find.since_jump \in Nat
  BY <1>a, <1>b DEF FindType
<1>4. CASE \E jump \in 0 .. (MaxRandomJump - 1) :
             find' = [find EXCEPT !.offset = @ + jump, !.since_jump = 0, !.numfree = 0]
  <2>1. PICK jump \in 0 .. (MaxRandomJump - 1) :
             find' = [find EXCEPT !.offset = @ + jump, !.since_jump = 0, !.numfree = 0]
    BY <1>4
  <2>2. /\ find'.pc = "scan" /\ find'.n = find.n /\ find'.base = find.base /\ find'.numfree = 0
        /\ find'.offset = find.offset + jump /\ find'.since_jump = 0
    BY <1>a, <2>1 DEF FindType
  <2>3. jump \in Nat
    BY PagesAssumption
  <2>4. NothingOverlooked'
    <3> SUFFICES ASSUME find'.offset = find'.since_jump PROVE NothingOverlooked'
      BY DEF NothingOverlooked
    <3>a. find.offset + jump = 0
      BY <2>2
    <3>b. find'.offset = 0 /\ find'.base = find.base
      BY <2>2, <3>a
    <3>c. find.base + 0 = find.base
      BY <1>1
    <3>1. find'.offset = 0 /\ find'.base + find'.offset = find.base
      BY <3>b, <3>c
    <3>2. NoRunIn(find.base, find.base, find.n, vm_bitmap')
      BY <1>1, NoRunInNothing
    <3>3. CountExact(find.base, find.base, 0, vm_bitmap') /\ ~(find.base > VmPages) /\ 0 <= VmPages
      BY <1>1 DEF CountExact
    <3> QED BY <3>1, <3>2, <3>3, <2>2 DEF NothingOverlooked
  <2> QED BY <2>2, <2>4, <1>1 DEF ScanInv, CountStaysBelow, ErrIsTheEnd
<1>5. CASE find' = [find EXCEPT !.offset = @ + 1, !.since_jump = find.since_jump + 1, !.numfree = free]
  <2>1. /\ free \in Nat /\ free < find.n
        /\ find.offset = find.since_jump =>
                    /\ end < VmPages => CountExact(find.base, end + 1, free, vm_bitmap)
                    /\ end >= VmPages => CountExact(0, end - VmPages + 1, free, vm_bitmap)
    BY NumFreeExact
  <2>2. /\ find'.pc = "scan" /\ find'.n = find.n /\ find'.base = find.base /\ find'.numfree = free
        /\ find'.offset = find.offset + 1 /\ find'.since_jump = find.since_jump + 1
    BY <1>a, <1>5 DEF FindType
  <2>3. NothingOverlooked'
    <3> SUFFICES ASSUME find.offset = find.since_jump PROVE NothingOverlooked'
      BY <2>2, <1>1 DEF NothingOverlooked
    <3>1. /\ end <= VmPages => NoRunIn(find.base, end, find.n, vm_bitmap)
          /\ end > VmPages => /\ NoRunIn(find.base, VmPages, find.n, vm_bitmap)
                              /\ NoRunIn(0, end - VmPages, find.n, vm_bitmap)
      BY <1>a DEF ScanInv, NothingOverlooked
    <3>2. /\ end < VmPages => CountExact(find.base, end + 1, free, vm_bitmap)
          /\ end >= VmPages => CountExact(0, end - VmPages + 1, free, vm_bitmap)
      BY <2>1
    <3>3. find'.base + find'.offset = end + 1 /\ find'.offset <= VmPages
      BY <2>2, <1>1
    <3>4. CASE end < VmPages
      <4>1. NoRunIn(find.base, end + 1, find.n, vm_bitmap)
        <5>1. /\ find.base \in Int /\ end \in Int /\ free \in Nat /\ find.n \in Nat \ {0} /\ free < find.n
              /\ NoRunIn(find.base, end, find.n, vm_bitmap) /\ CountExact(find.base, end + 1, free, vm_bitmap)
          BY <1>1, <2>1, <3>1, <3>2, <3>4
        <5> QED BY <5>1, StretchGrows
      <4>2. end + 1 <= VmPages /\ ~(end + 1 > VmPages)
        BY <1>1, <3>4
      <4> QED BY <3>2, <3>3, <3>4, <4>1, <4>2, <2>2, <1>b DEF NothingOverlooked
    <3>5. CASE end >= VmPages
      <4>1. NoRunIn(0, end - VmPages, find.n, vm_bitmap) /\ NoRunIn(find.base, VmPages, find.n, vm_bitmap)
        <5>1. CASE end = VmPages
          <6>1. NoRunIn(0, 0, find.n, vm_bitmap) /\ end - VmPages = 0
            BY <5>1, <1>1, NoRunInNothing
          <6>2. end <= VmPages
            BY <5>1, <1>1
          <6> QED BY <5>1, <6>1, <6>2, <3>1
        <5>2. CASE end > VmPages
          BY <5>2, <3>1
        <5> QED BY <5>1, <5>2, <3>5, <1>1
      <4>2. NoRunIn(0, end - VmPages + 1, find.n, vm_bitmap)
        <5>1. /\ 0 \in Int /\ end - VmPages \in Int /\ free \in Nat /\ find.n \in Nat \ {0} /\ free < find.n
              /\ CountExact(0, end - VmPages + 1, free, vm_bitmap)
          BY <1>1, <2>1, <3>2, <3>5
        <5> QED BY <4>1, <5>1, StretchGrows
      <4>3. /\ end + 1 > VmPages /\ end + 1 - VmPages = end - VmPages + 1
            /\ ~(end + 1 <= VmPages) /\ ~(end + 1 < VmPages)
        BY <1>1, <3>5
      <4>4. /\ NoRunIn(find'.base, VmPages, find'.n, vm_bitmap')
            /\ NoRunIn(0, (find'.base + find'.offset) - VmPages, find'.n, vm_bitmap')
            /\ CountExact(0, (find'.base + find'.offset) - VmPages, find'.numfree, vm_bitmap')
            /\ ~(find'.base + find'.offset <= VmPages) /\ ~(find'.base + find'.offset < VmPages)
        <5>1. (find'.base + find'.offset) - VmPages = end - VmPages + 1
          BY <2>2, <4>3, <1>1
        <5>2. CountExact(0, end - VmPages + 1, free, vm_bitmap)
          BY <3>2, <3>5
        <5> QED BY <3>3, <4>1, <4>2, <4>3, <5>1, <5>2, <2>2, <1>b
      <4>5. find'.offset <= VmPages
        BY <3>3
      <4> QED BY <4>4, <4>5 DEF NothingOverlooked
    <3> QED BY <3>4, <3>5, <1>1
  <2> QED BY <2>1, <2>2, <2>3 DEF ScanInv, CountStaysBelow, ErrIsTheEnd
<1> QED BY <1>4, <1>5 DEF Scan

\* No step makes the search overlook a run.
LEMMA StepScanInv == PagesInv /\ ScanInv /\ [PagesNext]_pagesVars => ScanInv'
<1> SUFFICES ASSUME PagesInv, ScanInv, [PagesNext]_pagesVars PROVE ScanInv'
  OBVIOUS
<1>1. ASSUME NEW n \in 1 .. MaxCount, StartFind(n) PROVE ScanInv'
  <2>1. /\ vm_next_page \in 0 .. VmPages /\ VmPages \in Nat \ {0} /\ n \in Nat \ {0}
        /\ vm_bitmap' = vm_bitmap
    BY <1>1, PagesAssumption DEF PagesInv, PagesTypeOK, StartFind
  <2>2. /\ vm_next_page' = IF vm_near_pages = MaxNearPages THEN 0 ELSE vm_next_page
        /\ find' = [NoFind EXCEPT !.pc = "scan", !.n = n, !.base = vm_next_page']
    BY <1>1 DEF StartFind
  <2>3. /\ find'.pc = "scan" /\ find'.n = n /\ find'.base = vm_next_page' /\ find'.offset = 0
        /\ find'.since_jump = 0 /\ find'.numfree = 0
    BY <2>2 DEF NoFind
  <2>4. vm_next_page' \in 0 .. VmPages
    BY <2>1, <2>2
  <2>5. NothingOverlooked'
    <3>a. find'.base \in 0 .. VmPages /\ find'.offset = 0
      BY <2>3, <2>4
    <3>b. \A base \in 0 .. VmPages : base + 0 = base /\ base \in Int /\ ~(base > VmPages) /\ 0 <= VmPages
      BY <2>1
    <3>1. find'.base + find'.offset = find'.base /\ find'.base \in Int /\ ~(find'.base > VmPages) /\ 0 <= VmPages
      BY <3>a, <3>b
    <3>2. NoRunIn(find'.base, find'.base, find'.n, vm_bitmap')
      BY <2>1, <2>3, <3>1, NoRunInNothing
    <3>3. CountExact(find'.base, find'.base, find'.numfree, vm_bitmap')
      BY <2>3, <3>1 DEF CountExact
    <3> QED BY <2>3, <3>1, <3>2, <3>3 DEF NothingOverlooked
  <2> QED BY <2>1, <2>3, <2>5 DEF ScanInv, CountStaysBelow, ErrIsTheEnd
<1>2. CASE Scan
  BY <1>2, ScanOverlooksNothing
<1>3. CASE NotFound
  <2>1. /\ find \in FindType /\ vm_bitmap' = vm_bitmap /\ find.pc = "scan" /\ find.offset >= VmPages
        /\ find' = [find EXCEPT !.pc = "err"]
    BY <1>3 DEF NotFound, PagesInv, PagesTypeOK
  <2>2. /\ find'.pc = "err" /\ find'.n = find.n /\ find'.base = find.base /\ find'.offset = find.offset
        /\ find'.since_jump = find.since_jump
    BY <2>1 DEF FindType
  <2> QED BY <2>1, <2>2 DEF ScanInv, NothingOverlooked, NoRunIn, CountStaysBelow, ErrIsTheEnd
<1>4. CASE Found \/ vmMarkPagesUsed \/ GiveUp
  <2>1. find'.pc \notin {"scan", "err"}
    <3>1. find \in FindType
      BY DEF PagesInv, PagesTypeOK
    <3>2. CASE Found
      BY <3>1, <3>2 DEF Found, FindType
    <3>3. CASE vmMarkPagesUsed \/ GiveUp
      BY <3>3 DEF vmMarkPagesUsed, GiveUp, NoFind
    <3> QED BY <3>2, <3>3, <1>4
  <2> QED BY <2>1 DEF ScanInv, NothingOverlooked, CountStaysBelow, ErrIsTheEnd
<1>5. ASSUME NEW c \in clusters, vmMarkPagesFree(c) PROVE ScanInv'
  BY <1>5 DEF vmMarkPagesFree, ScanInv, NothingOverlooked, CountStaysBelow, ErrIsTheEnd
<1>6. CASE UNCHANGED pagesVars
  BY <1>6 DEF pagesVars, ScanInv, NothingOverlooked, NoRunIn, CountStaysBelow, ErrIsTheEnd
<1> QED BY <1>1, <1>2, <1>3, <1>4, <1>5, <1>6 DEF PagesNext

\* What a failed search knows, once it has been around the file
LEMMA OverlooksNothing == PagesInv /\ ScanInv => ScanComplete
<1> SUFFICES ASSUME PagesInv, ScanInv, find.pc = "err", find.offset = find.since_jump,
                    NEW p \in Pages, Run(p, find.n) \subseteq Pages \ vm_bitmap
             PROVE  p < find.base /\ find.base < p + find.n
  BY DEF ScanComplete
<1>1. /\ VmPages \in Nat \ {0} /\ find.base \in 0 .. VmPages /\ find.offset \in Nat /\ find.n \in Nat
      /\ p \in Int /\ p >= 0 /\ p < VmPages
  BY PagesAssumption DEF PagesInv, PagesTypeOK, FindType, Pages
<1>2. find.offset = VmPages
  BY <1>1 DEF ScanInv, NothingOverlooked, ErrIsTheEnd
<1>3. /\ NoRunIn(find.base, VmPages, find.n, vm_bitmap)
      /\ find.base > 0 => NoRunIn(0, find.base, find.n, vm_bitmap)
  <2>1. CASE find.base = 0
    <3>1. find.base + find.offset <= VmPages /\ find.base + find.offset = VmPages
      BY <2>1, <1>1, <1>2
    <3> QED BY <2>1, <3>1 DEF ScanInv, NothingOverlooked
  <2>2. CASE find.base > 0
    <3>1. find.base + find.offset > VmPages /\ (find.base + find.offset) - VmPages = find.base
      BY <2>2, <1>1, <1>2
    <3>2. /\ NoRunIn(find.base, VmPages, find.n, vm_bitmap)
          /\ NoRunIn(0, (find.base + find.offset) - VmPages, find.n, vm_bitmap)
      BY <1>1, <3>1 DEF ScanInv, NothingOverlooked
    <3> QED BY <3>1, <3>2
  <2> QED BY <2>1, <2>2, <1>1
<1>4. p + find.n <= VmPages
  <2>1. CASE find.n = 0
    BY <2>1, <1>1
  <2>2. CASE find.n > 0
    <3>1. p + find.n - 1 \in Run(p, find.n)
      BY <2>2, <1>1 DEF Run
    <3> QED BY <3>1, <1>1 DEF Pages
  <2> QED BY <2>1, <2>2, <1>1
<1>5. ~ \E q \in Run(p, find.n) : q \in vm_bitmap
  OBVIOUS
<1>6. ~(find.base <= p)
  BY <1>1, <1>3, <1>4, <1>5 DEF NoRunIn
<1>7. ~(p + find.n <= find.base)
  BY <1>1, <1>3, <1>5, <1>6 DEF NoRunIn
<1> QED BY <1>1, <1>6, <1>7

\* vmFindContiguousPages: a search without a jump that fails has overlooked no run of free pages
\* but one across the page where it started
THEOREM ScanIsComplete == PagesSpec => []ScanComplete
<1>1. PagesInit => PagesInv /\ ScanInv
  <2>1. PagesInit => ScanInv
    BY DEF PagesInit, NoFind, ScanInv, NothingOverlooked, CountStaysBelow, ErrIsTheEnd
  <2> QED BY <2>1, InitPagesInv
<1>2. PagesInv /\ ScanInv /\ [PagesNext]_pagesVars => (PagesInv /\ ScanInv)'
  BY StepPagesInv, StepScanInv
<1> QED BY <1>1, <1>2, OverlooksNothing, PTL DEF PagesSpec

-----------------------------------------------------------------------------
(* Sums *)

\* The sum of c over s counts the pairs of an element and a number below its value.
Units(c, s) == {p \in s \X Nat : p[2] < c[p[1]]}
SumOver(c, s) == Cardinality(Units(c, s))

\* A sum of finitely many naturals is a natural.
LEMMA SumType ==
    ASSUME NEW s, IsFiniteSet(s), NEW c, \A x \in s : c[x] \in Nat
    PROVE  IsFiniteSet(Units(c, s)) /\ SumOver(c, s) \in Nat
<1> DEFINE column == [x \in s |-> {x} \X (0 .. c[x] - 1)]
           columns == {column[x] : x \in s}
<1>1. \A x \in s : IsFiniteSet(column[x])
  <2> SUFFICES ASSUME NEW x \in s PROVE IsFiniteSet({x} \X (0 .. c[x] - 1))
    OBVIOUS
  <2>1. IsFiniteSet(0 .. c[x] - 1) /\ IsFiniteSet({x})
    <3>1. c[x] - 1 \in Int
      OBVIOUS
    <3>2. IsFiniteSet(0 .. c[x] - 1)
      BY <3>1, FS_Interval
    <3>3. IsFiniteSet({x})
      BY FS_Singleton
    <3> QED BY <3>2, <3>3
  <2> QED BY <2>1, FS_Product
<1>2. column \in Surjection(s, columns)
  BY DEF Surjection
<1>3. IsFiniteSet(columns)
  BY <1>2, FS_Surjection
<1>4. IsFiniteSet(UNION columns)
  BY <1>1, <1>3, FS_UNION
<1>5. Units(c, s) \subseteq UNION columns
  <2> SUFFICES ASSUME NEW x \in s, NEW n \in Nat, n < c[x] PROVE <<x, n>> \in column[x]
    BY DEF Units
  <2> QED OBVIOUS
<1> QED BY <1>4, <1>5, FS_Subset, FS_CardinalityType DEF SumOver

\* Taking an element out takes its value off the sum.
LEMMA SumSplits ==
    ASSUME NEW s, IsFiniteSet(s), NEW c, \A x \in s : c[x] \in Nat, NEW x \in s
    PROVE  SumOver(c, s) = c[x] + SumOver(c, s \ {x})
<1> DEFINE column == {x} \X (0 .. c[x] - 1)
           rest == Units(c, s \ {x})
<1>1. IsFiniteSet(column) /\ Cardinality(column) = c[x]
  <2>1. IsFiniteSet(0 .. c[x] - 1) /\ Cardinality(0 .. c[x] - 1) = c[x]
    BY FS_Interval
  <2>2. IsFiniteSet({x}) /\ Cardinality({x}) = 1
    BY FS_Singleton
  <2>3. IsFiniteSet(column) /\ Cardinality(column) = Cardinality({x}) * Cardinality(0 .. c[x] - 1)
    BY <2>1, <2>2, FS_Product
  <2>4. 1 * c[x] = c[x]
    OBVIOUS
  <2> QED BY <2>1, <2>2, <2>3, <2>4
<1>2. IsFiniteSet(rest) /\ Cardinality(rest) \in Nat
  <2>1. IsFiniteSet(s \ {x}) /\ \A y \in s \ {x} : c[y] \in Nat
    BY FS_Subset
  <2> QED BY <2>1, SumType DEF SumOver
<1>3. column \cap rest = {}
  BY DEF Units
<1>4. Units(c, s) = column \cup rest
  BY DEF Units
<1> HIDE DEF column, rest
<1>5. Cardinality(column \cup rest) = c[x] + Cardinality(rest) - 0
  BY <1>1, <1>2, <1>3, FS_Union, FS_EmptySet
<1> QED BY <1>2, <1>4, <1>5 DEF SumOver, rest

\* Only the values of the elements matter, and those that are not zero.
LEMMA SumSame ==
    ASSUME NEW s, NEW t \in SUBSET s, NEW c, NEW d,
           \A x \in s : c[x] = IF x \in t THEN d[x] ELSE 0
    PROVE  SumOver(c, s) = SumOver(d, t)
<1>1. Units(c, s) = Units(d, t)
  BY DEF Units
<1> QED BY <1>1 DEF SumOver

\* Changing one value changes the sum by as much.
LEMMA SumChanges ==
    ASSUME NEW s, IsFiniteSet(s), NEW c \in [s -> Nat], NEW d \in [s -> Nat], NEW x \in s,
           \A y \in s : y # x => d[y] = c[y]
    PROVE  SumOver(d, s) = (SumOver(c, s) + d[x]) - c[x]
<1>1. SumOver(d, s) = d[x] + SumOver(d, s \ {x})
  BY SumSplits
<1>2. SumOver(c, s) = c[x] + SumOver(c, s \ {x})
  BY SumSplits
<1>3. SumOver(d, s \ {x}) = SumOver(c, s \ {x})
  BY SumSame
<1>4. SumOver(c, s \ {x}) \in Nat
  <2>1. IsFiniteSet(s \ {x}) /\ \A y \in s \ {x} : c[y] \in Nat
    BY FS_Subset
  <2> QED BY <2>1, SumType
<1> QED BY <1>1, <1>2, <1>3, <1>4

\* The library's sum over a finite set is this sum: it takes out one element after the other.
LEMMA LibrarySum ==
    ASSUME NEW S, IsFiniteSet(S), NEW c,
           \A x \in S : c[x] \in Nat /\ c[x] = Padded(block[x] + PrefixSize)
    PROVE  MapThenSumSet(LAMBDA b : Padded(block[b] + PrefixSize), S) = SumOver(c, S)
<1> DEFINE Taken(s) == CHOOSE x \in s : TRUE
           Body(g, s) == IF s = {} THEN 0 ELSE Padded(block[Taken(s)] + PrefixSize) + g[s \ {Taken(s)}]
           Is(g) == g = [s \in SUBSET S |-> Body(g, s)]
           T == [s \in SUBSET S |-> SumOver(c, s)]
<1>1. ASSUME NEW s \in SUBSET S PROVE SumOver(c, s) = Body(T, s)
  <2>1. IsFiniteSet(s) /\ \A x \in s : c[x] \in Nat
    BY FS_Subset
  <2>2. CASE s = {}
    <3>1. Units(c, {}) = {}
      BY DEF Units
    <3> QED BY <2>2, <3>1, FS_EmptySet DEF SumOver
  <2>3. CASE s # {}
    <3>1. Taken(s) \in s
      BY <2>3
    <3>2. s \ {Taken(s)} \in SUBSET S
      OBVIOUS
    <3> HIDE DEF Taken
    <3>3. SumOver(c, s) = c[Taken(s)] + SumOver(c, s \ {Taken(s)})
      BY <2>1, <3>1, SumSplits
    <3>4. c[Taken(s)] = Padded(block[Taken(s)] + PrefixSize)
      BY <3>1
    <3> QED BY <2>3, <3>2, <3>3, <3>4
  <2> QED BY <2>2, <2>3
<1>2. Is(T)
  BY <1>1
<1> DEFINE iter == CHOOSE g : Is(g)
<1>3. Is(iter)
  <2> HIDE DEF T
  <2> QED BY <1>2
<1>4. MapThenSumSet(LAMBDA b : Padded(block[b] + PrefixSize), S) = iter[S]
  BY DEF MapThenSumSet, MapThenFoldSet
<1> HIDE DEF iter
<1>5. \A s \in SUBSET S : iter[s] = Body(iter, s)
  BY <1>3
<1> DEFINE P == {n \in Nat : \A s \in SUBSET S : Cardinality(s) = n => iter[s] = T[s]}
<1>6. 0 \in P
  <2> SUFFICES ASSUME NEW s \in SUBSET S, Cardinality(s) = 0 PROVE iter[s] = T[s]
    OBVIOUS
  <2>1. s = {}
    BY FS_Subset, FS_EmptySet
  <2> QED BY <1>1, <1>5, <2>1
<1>7. ASSUME NEW n \in Nat, n \in P PROVE n + 1 \in P
  <2> SUFFICES ASSUME NEW s \in SUBSET S, Cardinality(s) = n + 1 PROVE iter[s] = T[s]
    <3> HIDE DEF T
    <3> QED OBVIOUS
  <2>1. s # {} /\ IsFiniteSet(s)
    BY FS_Subset, FS_EmptySet
  <2>2. Taken(s) \in s
    BY <2>1
  <2> DEFINE r == s \ {Taken(s)}
  <2>3. r \in SUBSET S /\ Cardinality(r) = n
    <3> HIDE DEF Taken
    <3>1. Cardinality(s \ {Taken(s)}) = Cardinality(s) - 1
      BY <2>1, <2>2, FS_RemoveElement
    <3> QED BY <3>1
  <2>4. iter[r] = T[r]
    BY <1>7, <2>3
  <2>5. iter[s] = Body(iter, s) /\ T[s] = Body(T, s)
    BY <1>1, <1>5
  <2> HIDE DEF T, Taken
  <2> QED BY <2>1, <2>4, <2>5
<1>8. P = Nat
  <2> HIDE DEF P
  <2> QED BY <1>6, <1>7, AllNumbers DEF P
<1>9. Cardinality(S) \in P
  BY <1>8, FS_CardinalityType
<1>10. iter[S] = T[S]
  BY <1>9
<1> QED BY <1>4, <1>10

-----------------------------------------------------------------------------
(* Remainders *)

\* Division with remainder
LEMMA Remainder ==
    ASSUME NEW a \in Int, NEW m \in Nat \ {0}
    PROVE  a % m \in 0 .. m - 1 /\ a \div m \in Int /\ a = m * (a \div m) + (a % m)
  OBVIOUS

\* What is left over is the remainder.
LEMMA RemainderOf ==
    ASSUME NEW q \in Int, NEW m \in Nat \ {0}, NEW r \in 0 .. m - 1
    PROVE  (m * q + r) % m = r
  OBVIOUS

\* A counter that wraps around may be reduced before something is added.
LEMMA AddRemainder ==
    ASSUME NEW a \in Int, NEW u \in Int, NEW m \in Nat \ {0}
    PROVE  ((a % m) + u) % m = (a + u) % m
<1> DEFINE r == a % m
           q == a \div m
           r2 == (r + u) % m
           q2 == (r + u) \div m
<1>1. r \in 0 .. m - 1 /\ q \in Int /\ a = m * q + r
  BY Remainder
<1>2. r + u \in Int
  BY <1>1
<1>3. r2 \in 0 .. m - 1 /\ q2 \in Int /\ r + u = m * q2 + r2
  <2> HIDE DEF r
  <2> QED BY <1>2, Remainder
<1> HIDE DEF r, q, r2, q2
<1>4. m * (q + q2) = m * q + m * q2 /\ m * q \in Int /\ m * q2 \in Int
  BY <1>1, <1>3
<1>5. a + u = m * (q + q2) + r2
  BY <1>1, <1>3, <1>4
<1>6. (a + u) % m = r2
  <2>1. (m * (q + q2) + r2) % m = r2
    <3>1. q + q2 \in Int
      BY <1>1, <1>3
    <3> QED BY <1>3, <3>1, RemainderOf
  <2> QED BY <1>5, <2>1
<1> QED BY <1>6 DEF r, r2

\* A multiple changes no remainder.
LEMMA PlusMultiple ==
    ASSUME NEW a \in Int, NEW p \in Int, NEW m \in Nat \ {0}, p % m = 0
    PROVE  (a + p) % m = a % m
<1>1. (p + a) % m = ((p % m) + a) % m
  BY AddRemainder
<1>2. (p % m) + a = a
  OBVIOUS
<1>3. p + a = a + p
  OBVIOUS
<1> QED BY <1>1, <1>2, <1>3

\* Rounding up to whole words
LEMMA PaddedIs ==
    ASSUME NEW n \in Nat
    PROVE  Padded(n) \in Nat /\ Padded(n + PrefixSize) = Padded(n) + PrefixSize
<1> DEFINE r == n % WordSize
<1>1. r \in 0 .. WordSize - 1
  BY ZAssumption, Remainder
<1>2. (n + PrefixSize) % WordSize = r
  <2>1. n \in Int /\ PrefixSize \in Int /\ WordSize \in Nat \ {0} /\ PrefixSize % WordSize = 0
    BY ZAssumption
  <2> QED BY <2>1, PlusMultiple
<1> HIDE DEF r
<1>3. Padded(n) = IF r # 0 THEN n + WordSize - r ELSE n
  BY DEF Padded, r
<1>4. Padded(n + PrefixSize) = IF r # 0 THEN (n + PrefixSize) + WordSize - r ELSE n + PrefixSize
  BY <1>2 DEF Padded
<1> QED BY <1>1, <1>3, <1>4, ZAssumption

-----------------------------------------------------------------------------
(* The invariant *)

Cost(n) == Padded(n + PrefixSize)

ZTypeOK ==
    /\ used_memory \in 0 .. SizeMod - 1
    /\ thread_safe \in BOOLEAN
    /\ block \in [Blocks -> Sizes \cup {0}]
    /\ zt \in [Mallocers -> [on : Blocks \cup {0}, updates : Seq(Int), loaded : Nat \cup {-1},
                             frees : BOOLEAN]]

\* One call at a time works on a block, one that is allocated; before the mutex is used there
\* is one thread, so that what it loaded is still there when it stores.
CallsSound ==
    /\ \A t \in Mallocers :
          /\ zt[t].on = 0 <=> zt[t] = Idle
          /\ zt[t].on # 0 => block[zt[t].on] # 0 /\ Len(zt[t].updates) <= 2
          /\ zt[t].loaded # -1 => ~thread_safe /\ zt[t].loaded = used_memory /\ zt[t].updates # <<>>
          /\ ~thread_safe /\ t # FirstThread => zt[t] = Idle
    /\ \A t, u \in Mallocers : t # u /\ zt[t].on # 0 => zt[t].on # zt[u].on

\* The updates that are left take the count of the block from c to what it costs, or to zero.
Settles(c, call, cost) ==
    LET target == IF call.frees THEN 0 ELSE cost
        u == call.updates
    IN  /\ u = <<>> => c = target
        /\ Len(u) = 1 => c + u[1] = target
        /\ Len(u) = 2 => c + u[1] >= 0 /\ (c + u[1]) + u[2] = target

\* c is what the counter counts of each block.
Ledger(c) ==
    /\ c \in [Blocks -> Nat]
    /\ used_memory = SumOver(c, Blocks) % SizeMod
    /\ \A b \in Blocks : (\A t \in Mallocers : zt[t].on # b) =>
                            c[b] = IF block[b] = 0 THEN 0 ELSE Cost(block[b])
    /\ \A t \in Mallocers : zt[t].on # 0 => Settles(c[zt[t].on], zt[t], Cost(block[zt[t].on]))

ZInv == ZTypeOK /\ CallsSound /\ \E c : Ledger(c)

-----------------------------------------------------------------------------
(* The first state *)

\* Nothing is allocated and nothing is counted at first.
LEMMA ZInitInv == ZInit => ZInv
<1> SUFFICES ASSUME ZInit PROVE ZInv
  OBVIOUS
<1>1. <<>> \in Seq(Int) /\ Len(<<>>) = 0
  OBVIOUS
<1>2. ZTypeOK
  <2>1. Idle \in [on : Blocks \cup {0}, updates : Seq(Int), loaded : Nat \cup {-1}, frees : {TRUE, FALSE}]
    BY <1>1 DEF Idle
  <2>2. used_memory \in 0 .. SizeMod - 1
    BY ZAssumption DEF ZInit
  <2> QED BY <2>1, <2>2 DEF ZInit, ZTypeOK
<1>3. CallsSound
  BY <1>1 DEF ZInit, CallsSound, Idle
<1> DEFINE c == [b \in Blocks |-> 0]
<1>4. used_memory = SumOver(c, Blocks) % SizeMod
  <2>1. Units(c, Blocks) = {}
    BY DEF Units
  <2>2. SumOver(c, Blocks) = 0
    BY <2>1, FS_EmptySet DEF SumOver
  <2>3. 0 % SizeMod = 0
    BY ZAssumption
  <2> HIDE DEF c
  <2> QED BY <2>2, <2>3 DEF ZInit
<1>5. Ledger(c)
  <2>1. c \in [Blocks -> Nat] /\ \A b \in Blocks : block[b] = 0 /\ c[b] = 0
    BY DEF ZInit
  <2>2. \A t \in Mallocers : zt[t].on = 0
    BY DEF ZInit, Idle
  <2> HIDE DEF c
  <2> QED BY <1>4, <2>1, <2>2 DEF Ledger
<1> QED BY <1>2, <1>3, <1>5 DEF ZInv

-----------------------------------------------------------------------------
(* The steps *)

\* The record of one thread is replaced, and block changes at most for the block of its call.
LEMMA OneCall ==
    ASSUME ZTypeOK, NEW t \in Mallocers, NEW r,
           zt' = [zt EXCEPT ![t] = r]
    PROVE  zt'[t] = r /\ \A u \in Mallocers : u # t => zt'[u] = zt[u]
  BY DEF ZTypeOK

\* A block that is not allocated or not worked on is what nobody calls for.
LEMMA NobodyOn ==
    ASSUME ZTypeOK, CallsSound, NEW b \in Blocks, block[b] = 0 \/ Live(b)
    PROVE  \A t \in Mallocers : zt[t].on # b
  BY ZAssumption DEF CallsSound, Live

\* A call begins: the count of its block is what it was, and the updates are yet to be made.
LEMMA CallStarts ==
    ASSUME ZInv, NEW t \in Mallocers, MayCall(t), NEW b \in Blocks, NEW size \in Sizes,
           block[b] = 0 \/ Live(b),
           NEW r, r = [on |-> b, updates |-> r.updates, loaded |-> -1, frees |-> r.frees],
           r.updates \in Seq(Int), r.updates # <<>>, Len(r.updates) <= 2, r.frees \in BOOLEAN,
           Settles(IF block[b] = 0 THEN 0 ELSE Cost(block[b]), r, Cost(size)),
           block' = [block EXCEPT ![b] = size], zt' = [zt EXCEPT ![t] = r],
           UNCHANGED <<used_memory, thread_safe>>
    PROVE  ZInv'
<1>1. /\ ZTypeOK /\ CallsSound /\ b # 0 /\ size # 0
      /\ block[b] \in Sizes \cup {0}
  BY ZAssumption DEF ZInv, ZTypeOK
<1>2. zt'[t] = r /\ \A u \in Mallocers : u # t => zt'[u] = zt[u]
  BY <1>1, OneCall
<1>3. block'[b] = size /\ \A d \in Blocks : d # b => block'[d] = block[d]
  BY <1>1 DEF ZTypeOK
<1>4. \A u \in Mallocers : zt[u].on # b
  BY <1>1, NobodyOn
<1>5. r.on = b /\ r.loaded = -1 /\ r # Idle
  BY <1>1 DEF Idle
<1>6. ZTypeOK'
  <2>1. r \in [on : Blocks \cup {0}, updates : Seq(Int), loaded : Nat \cup {-1}, frees : BOOLEAN]
    OBVIOUS
  <2> QED BY <1>1, <2>1 DEF ZTypeOK
<1>7. CallsSound'
  <2>1. ASSUME NEW u \in Mallocers
        PROVE  /\ zt'[u].on = 0 <=> zt'[u] = Idle
               /\ zt'[u].on # 0 => block'[zt'[u].on] # 0 /\ Len(zt'[u].updates) <= 2
               /\ zt'[u].loaded # -1 => ~thread_safe /\ zt'[u].loaded = used_memory /\ zt'[u].updates # <<>>
               /\ ~thread_safe /\ u # FirstThread => zt'[u] = Idle
    <3>1. CASE u = t
      <4>1. thread_safe \/ t = FirstThread
        BY DEF MayCall
      <4> QED BY <1>1, <1>2, <1>3, <1>5, <3>1, <4>1
    <3>2. CASE u # t
      <4>1. zt'[u] = zt[u] /\ zt[u].on # b /\ zt[u].on \in Blocks \cup {0}
        BY <1>1, <1>2, <1>4, <3>2 DEF ZTypeOK
      <4>2. zt[u].on # 0 => block'[zt[u].on] = block[zt[u].on]
        BY <1>3, <4>1
      <4> QED BY <1>1, <4>1, <4>2 DEF CallsSound
    <3> QED BY <3>1, <3>2
  <2>2. \A u, v \in Mallocers : u # v /\ zt'[u].on # 0 => zt'[u].on # zt'[v].on
    BY <1>1, <1>2, <1>4, <1>5 DEF CallsSound
  <2> QED BY <2>1, <2>2 DEF CallsSound
<1>8. PICK c : Ledger(c)
  BY DEF ZInv
<1>9. Ledger(c)'
  <2>1. ASSUME NEW d \in Blocks, \A u \in Mallocers : zt'[u].on # d
        PROVE  c[d] = IF block'[d] = 0 THEN 0 ELSE Cost(block'[d])
    <3>1. d # b
      BY <1>2, <1>5, <2>1
    <3>2. \A u \in Mallocers : zt[u].on # d
      <4>1. zt[t].on = 0 /\ d # 0
        BY ZAssumption DEF MayCall, Idle
      <4> QED BY <1>2, <2>1, <4>1
    <3> QED BY <1>3, <1>8, <3>1, <3>2 DEF Ledger
  <2>2. ASSUME NEW u \in Mallocers, zt'[u].on # 0
        PROVE  Settles(c[zt'[u].on], zt'[u], Cost(block'[zt'[u].on]))
    <3>1. CASE u = t
      <4>1. c[b] = IF block[b] = 0 THEN 0 ELSE Cost(block[b])
        BY <1>4, <1>8 DEF Ledger
      <4> QED BY <1>2, <1>3, <1>5, <3>1, <4>1
    <3>2. CASE u # t
      <4>1. zt'[u] = zt[u] /\ zt[u].on # b /\ zt[u].on \in Blocks
        BY <1>1, <1>2, <1>4, <2>2, <3>2 DEF ZTypeOK
      <4>2. block'[zt[u].on] = block[zt[u].on]
        BY <1>3, <4>1
      <4> QED BY <1>8, <2>2, <4>1, <4>2 DEF Ledger
    <3> QED BY <3>1, <3>2
  <2>3. c \in [Blocks -> Nat] /\ used_memory' = SumOver(c, Blocks) % SizeMod
    BY <1>8 DEF Ledger
  <2> QED BY <2>1, <2>2, <2>3 DEF Ledger
<1> QED BY <1>6, <1>7, <1>9 DEF ZInv

\* zmalloc, zrealloc and zfree owe the updates that lead to what the block costs then.
LEMMA Calls ==
    ASSUME ZInv, NEW t \in Mallocers, NEW b \in Blocks,
           \/ \E size \in Sizes : zmalloc(t, b, size) \/ zrealloc(t, b, size)
           \/ zfree(t, b)
    PROVE  ZInv'
<1>1. block \in [Blocks -> Sizes \cup {0}] /\ Sizes \subseteq Nat /\ PrefixSize \in Nat
  BY ZAssumption DEF ZInv, ZTypeOK
<1>2. \A n \in Nat : Cost(n) \in Nat /\ Padded(n) \in Nat /\ Cost(n) = Padded(n) + PrefixSize
  BY <1>1, PaddedIs DEF Cost
<1>3. ASSUME NEW size \in Sizes, zmalloc(t, b, size) PROVE ZInv'
  <2> DEFINE u == <<Padded(size + PrefixSize)>>
             r == [on |-> b, updates |-> u, loaded |-> -1, frees |-> FALSE]
  <2>1. u \in Seq(Int) /\ u # <<>> /\ Len(u) = 1 /\ u[1] = Cost(size) /\ Cost(size) \in Nat
    BY <1>1, <1>2 DEF Cost
  <2>2. Settles(0, r, Cost(size))
    BY <2>1 DEF Settles
  <2>3. /\ MayCall(t) /\ block[b] = 0 /\ block' = [block EXCEPT ![b] = size]
        /\ zt' = [zt EXCEPT ![t] = r] /\ UNCHANGED <<used_memory, thread_safe>>
    BY <1>3 DEF zmalloc, Owes, update_zmalloc_stat_alloc
  <2>4. /\ r = [on |-> b, updates |-> r.updates, loaded |-> -1, frees |-> r.frees]
        /\ r.updates \in Seq(Int) /\ r.updates # <<>> /\ Len(r.updates) <= 2 /\ r.frees \in BOOLEAN
    BY <2>1
  <2> HIDE DEF u, r
  <2> QED BY <2>2, <2>3, <2>4, CallStarts
<1>4. ASSUME NEW size \in Sizes, zrealloc(t, b, size) PROVE ZInv'
  <2> DEFINE u == <<-Padded(block[b]), Padded(size)>>
             r == [on |-> b, updates |-> u, loaded |-> -1, frees |-> FALSE]
  <2>1. Live(b) /\ block[b] # 0 /\ block[b] \in Nat
    BY <1>1, <1>4 DEF zrealloc, Live
  <2>2. /\ u \in Seq(Int) /\ u # <<>> /\ Len(u) = 2 /\ u[1] = -Padded(block[b]) /\ u[2] = Padded(size)
        /\ Padded(size) \in Nat /\ Padded(block[b]) \in Nat
    BY <1>1, <1>2, <2>1
  <2>3. Settles(Cost(block[b]), r, Cost(size))
    <3>1. Cost(block[b]) = Padded(block[b]) + PrefixSize /\ Cost(size) = Padded(size) + PrefixSize
      BY <1>1, <1>2, <2>1
    <3>2. r.updates = u /\ r.frees = FALSE
      OBVIOUS
    <3> HIDE DEF u, r
    <3>3. /\ Cost(block[b]) + u[1] >= 0
          /\ (Cost(block[b]) + u[1]) + u[2] = Cost(size)
      BY <1>1, <2>2, <3>1
    <3>4. Len(u) # 1 /\ u # <<>>
      BY <2>2
    <3> QED BY <3>2, <3>3, <3>4 DEF Settles
  <2>4. /\ MayCall(t) /\ block' = [block EXCEPT ![b] = size]
        /\ zt' = [zt EXCEPT ![t] = r] /\ UNCHANGED <<used_memory, thread_safe>>
    BY <1>4 DEF zrealloc, Owes, update_zmalloc_stat_alloc, update_zmalloc_stat_free
  <2>5. /\ r = [on |-> b, updates |-> r.updates, loaded |-> -1, frees |-> r.frees]
        /\ r.updates \in Seq(Int) /\ r.updates # <<>> /\ Len(r.updates) <= 2 /\ r.frees \in BOOLEAN
    BY <2>2
  <2> HIDE DEF u, r
  <2> QED BY <2>1, <2>3, <2>4, <2>5, CallStarts
<1>5. ASSUME zfree(t, b) PROVE ZInv'
  <2> DEFINE u == <<-Padded(block[b] + PrefixSize)>>
             r == [on |-> b, updates |-> u, loaded |-> -1, frees |-> TRUE]
  <2>1. Live(b) /\ block[b] # 0 /\ block[b] \in Sizes /\ block[b] \in Nat
    BY <1>1, <1>5 DEF zfree, Live
  <2>2. u \in Seq(Int) /\ u # <<>> /\ Len(u) = 1 /\ u[1] = -Cost(block[b]) /\ Cost(block[b]) \in Nat
    BY <1>2, <2>1 DEF Cost
  <2>3. Settles(Cost(block[b]), r, Cost(block[b]))
    BY <2>2 DEF Settles
  <2>4. /\ MayCall(t) /\ block' = [block EXCEPT ![b] = block[b]]
        /\ zt' = [zt EXCEPT ![t] = r] /\ UNCHANGED <<used_memory, thread_safe>>
    BY <1>1, <1>5 DEF zfree, Owes, update_zmalloc_stat_free
  <2>5. /\ r = [on |-> b, updates |-> r.updates, loaded |-> -1, frees |-> r.frees]
        /\ r.updates \in Seq(Int) /\ r.updates # <<>> /\ Len(r.updates) <= 2 /\ r.frees \in BOOLEAN
    BY <2>2
  <2> HIDE DEF u, r
  <2> QED BY <2>1, <2>3, <2>4, <2>5, CallStarts
<1> QED BY <1>3, <1>4, <1>5

\* A list of one or two updates
LEMMA ShortList ==
    ASSUME NEW u \in Seq(Int), u # <<>>, Len(u) <= 2
    PROVE  /\ Len(u) = 1 \/ Len(u) = 2
           /\ Head(u) = u[1] /\ u[1] \in Int
           /\ Tail(u) \in Seq(Int) /\ Len(Tail(u)) = Len(u) - 1
           /\ Len(u) = 1 => Tail(u) = <<>>
           /\ Len(u) = 2 => Tail(u) # <<>> /\ Tail(u)[1] = u[2] /\ u[2] \in Int
<1> DEFINE n == Len(u)
           w == Tail(u)
<1>1. n \in Nat \ {0} /\ n <= 2 /\ \A i \in 1 .. n : u[i] \in Int
  BY EmptySeq, LenProperties
<1>2. w \in Seq(Int) /\ Len(w) = n - 1 /\ \A i \in 1 .. Len(w) : w[i] = u[i + 1]
  BY HeadTailProperties
<1>3. w # <<>> => Len(w) \in Nat \ {0}
  BY <1>2, EmptySeq
<1>4. Len(<<>>) = 0
  OBVIOUS
<1>5. Head(u) = u[1]
  OBVIOUS
<1> HIDE DEF n, w
<1>6. n = 1 \/ n = 2
  BY <1>1
<1>7. u[1] \in Int
  BY <1>1
<1>8. n = 1 => w = <<>>
  BY <1>2, <1>3
<1>9. ASSUME n = 2 PROVE w # <<>> /\ w[1] = u[2] /\ u[2] \in Int
  <2>1. Len(w) = 1
    BY <1>2, <1>9
  <2>2. 1 + 1 = 2 /\ 1 \in 1 .. Len(w) /\ 2 \in 1 .. n
    BY <1>9, <2>1
  <2>3. w[1] = u[1 + 1]
    BY <1>2, <2>2
  <2> QED BY <1>1, <1>4, <2>1, <2>2, <2>3
<1> QED BY <1>2, <1>5, <1>6, <1>7, <1>8, <1>9 DEF n, w

\* An update, made to what the counter held last, moves on the count of its block.
LEMMA UpdateMade ==
    ASSUME ZInv, NEW t \in Mallocers, zt[t].updates # <<>>,
           thread_safe \/ zt[t].loaded # -1,
           used_memory' = (used_memory + Head(zt[t].updates)) % SizeMod,
           Counted(t), UNCHANGED <<thread_safe, block>>
    PROVE  ZInv'
<1> DEFINE b == zt[t].on
           u == zt[t].updates
           r == [zt[t] EXCEPT !.updates = Tail(u), !.loaded = -1]
<1>1. ZTypeOK /\ CallsSound
  BY DEF ZInv
<1>2. zt[t] \in [on : Blocks \cup {0}, updates : Seq(Int), loaded : Nat \cup {-1}, frees : BOOLEAN]
  BY <1>1 DEF ZTypeOK
<1>3. b \in Blocks /\ b # 0 /\ block[b] # 0 /\ (Len(u) = 1 \/ Len(u) = 2) /\ u \in Seq(Int) /\ Len(u) <= 2
  <2>1. zt[t] # Idle
    BY DEF Idle
  <2>2. b # 0 /\ b \in Blocks
    BY <1>1, <1>2, <2>1 DEF CallsSound
  <2>3. block[b] # 0 /\ Len(u) <= 2
    BY <1>1, <2>2 DEF CallsSound
  <2>4. u \in Seq(Int) /\ u # <<>>
    BY <1>2
  <2>5. Len(u) = 1 \/ Len(u) = 2
    <3> HIDE DEF u
    <3> QED BY <2>3, <2>4, ShortList
  <2> QED BY <2>2, <2>3, <2>4, <2>5
<1>4. /\ Head(u) = u[1] /\ u[1] \in Int
      /\ Tail(u) \in Seq(Int) /\ Len(Tail(u)) = Len(u) - 1
      /\ Len(u) = 1 => Tail(u) = <<>>
      /\ Len(u) = 2 => Tail(u) # <<>> /\ Tail(u)[1] = u[2] /\ u[2] \in Int
  <2>1. u # <<>>
    OBVIOUS
  <2>2. u \in Seq(Int) /\ Len(u) <= 2
    <3> HIDE DEF u, b
    <3> QED BY <1>3
  <2> HIDE DEF u
  <2> QED BY <2>1, <2>2, ShortList
<1>5. /\ r.on = b /\ r.updates = Tail(u) /\ r.loaded = -1 /\ r.frees = zt[t].frees
      /\ r \in [on : Blocks \cup {0}, updates : Seq(Int), loaded : Nat \cup {-1}, frees : BOOLEAN]
  BY <1>2, <1>4
<1>6. zt' = [zt EXCEPT ![t] = r]
  BY DEF Counted
<1> HIDE DEF r
<1>7. zt'[t] = r /\ \A v \in Mallocers : v # t => zt'[v] = zt[v]
  BY <1>1, <1>6, OneCall
<1>8. used_memory + u[1] \in Int /\ used_memory' \in 0 .. SizeMod - 1
  <2>1. used_memory \in Int /\ SizeMod \in Nat \ {0}
    BY <1>1, ZAssumption DEF ZTypeOK
  <2>2. used_memory + u[1] \in Int
    <3> HIDE DEF u
    <3> QED BY <1>4, <2>1
  <2> QED BY <1>4, <2>1, <2>2, Remainder
<1>9. ZTypeOK'
  BY <1>1, <1>5, <1>6, <1>8 DEF ZTypeOK
<1>10. CallsSound'
  <2>1. \A v \in Mallocers : zt'[v].on = zt[v].on
    BY <1>5, <1>7
  <2>2. ASSUME NEW v \in Mallocers
        PROVE  /\ zt'[v].on = 0 <=> zt'[v] = Idle
               /\ zt'[v].on # 0 => block[zt'[v].on] # 0 /\ Len(zt'[v].updates) <= 2
               /\ zt'[v].loaded # -1 => ~thread_safe /\ zt'[v].loaded = used_memory' /\ zt'[v].updates # <<>>
               /\ ~thread_safe /\ v # FirstThread => zt'[v] = Idle
    <3>1. CASE v = t
      <4>1. zt'[v] = r /\ r # Idle
        BY <1>3, <1>5, <1>7, <3>1 DEF Idle
      <4>2. thread_safe \/ t = FirstThread
        BY <1>1, <1>3 DEF CallsSound
      <4>3. Len(r.updates) <= 2
        <5> HIDE DEF u, b
        <5>1. r.updates = Tail(u) /\ Len(Tail(u)) = Len(u) - 1 /\ (Len(u) = 1 \/ Len(u) = 2)
          BY <1>3, <1>4, <1>5
        <5>2. CASE Len(u) = 1
          <6>1. Len(r.updates) = 0
            BY <5>1, <5>2
          <6> QED BY <6>1
        <5>3. CASE Len(u) = 2
          <6>1. Len(r.updates) = 1
            BY <5>1, <5>3
          <6> QED BY <6>1
        <5> QED BY <5>1, <5>2, <5>3
      <4> QED BY <1>3, <1>5, <3>1, <4>1, <4>2, <4>3
    <3>2. CASE v # t
      <4>1. zt'[v] = zt[v]
        BY <1>7, <3>2
      <4>2. zt[v].loaded = -1
        <5>1. CASE thread_safe
          BY <1>1, <5>1 DEF CallsSound
        <5>2. CASE ~thread_safe
          <6>1. t = FirstThread
            BY <1>1, <1>3, <5>2 DEF CallsSound
          <6> QED BY <1>1, <3>2, <5>2, <6>1 DEF CallsSound, Idle
        <5> QED BY <5>1, <5>2
      <4> QED BY <1>1, <4>1, <4>2 DEF CallsSound
    <3> QED BY <3>1, <3>2
  <2>3. \A v, w \in Mallocers : v # w /\ zt'[v].on # 0 => zt'[v].on # zt'[w].on
    BY <1>1, <2>1 DEF CallsSound
  <2> QED BY <2>2, <2>3 DEF CallsSound
<1>11. PICK c : Ledger(c)
  BY DEF ZInv
<1> DEFINE target == IF zt[t].frees THEN 0 ELSE Cost(block[b])
<1>12. c \in [Blocks -> Nat] /\ c[b] \in Nat /\ Settles(c[b], zt[t], Cost(block[b]))
  BY <1>3, <1>11 DEF Ledger
<1>13. target \in Nat
  <2>1. block[b] \in Nat /\ PrefixSize \in Nat
    BY <1>1, <1>3, ZAssumption DEF ZTypeOK
  <2>2. Cost(block[b]) \in Nat
    <3>1. block[b] + PrefixSize \in Nat
      BY <2>1
    <3> QED BY <3>1, PaddedIs DEF Cost
  <2> QED BY <2>2
<1>14. /\ c[b] + u[1] \in Nat
       /\ Settles(c[b] + u[1], r, Cost(block[b]))
  <2>1. /\ Len(u) = 1 => c[b] + u[1] = target
        /\ Len(u) = 2 => c[b] + u[1] >= 0 /\ (c[b] + u[1]) + u[2] = target
    BY <1>12 DEF Settles
  <2>2. r.updates = Tail(u) /\ target = IF r.frees THEN 0 ELSE Cost(block[b])
    BY <1>5
  <2> HIDE DEF u, b, target
  <2>3. CASE Len(u) = 1
    <3>1. r.updates = <<>> /\ Len(<<>>) = 0
      BY <1>4, <2>2, <2>3
    <3>2. c[b] + u[1] = target
      BY <2>1, <2>3
    <3>3. Settles(target, r, Cost(block[b]))
      BY <2>2, <3>1 DEF Settles
    <3> QED BY <1>13, <3>2, <3>3
  <2>4. CASE Len(u) = 2
    <3>1. r.updates # <<>> /\ Len(r.updates) = 1 /\ r.updates[1] = u[2]
      BY <1>4, <2>2, <2>4
    <3>2. c[b] + u[1] \in Nat
      BY <1>4, <1>12, <2>1, <2>4
    <3> QED BY <2>1, <2>2, <2>4, <3>1, <3>2 DEF Settles
  <2> QED BY <1>3, <2>3, <2>4
<1>15. PICK d \in [Blocks -> Nat] : d[b] = c[b] + u[1] /\ \A x \in Blocks : x # b => d[x] = c[x]
  <2> HIDE DEF u, b
  <2> DEFINE e == [c EXCEPT ![b] = c[b] + u[1]]
  <2>1. e \in [Blocks -> Nat] /\ e[b] = c[b] + u[1] /\ \A x \in Blocks : x # b => e[x] = c[x]
    BY <1>3, <1>12, <1>14
  <2> QED BY <2>1
<1>16. used_memory' = SumOver(d, Blocks) % SizeMod
  <2>2. SumOver(c, Blocks) \in Int /\ SizeMod \in Nat \ {0}
    <3>1. IsFiniteSet(Blocks) /\ \A x \in Blocks : c[x] \in Nat
      BY <1>12, ZAssumption
    <3>2. SumOver(c, Blocks) \in Nat
      BY <3>1, SumType
    <3> QED BY <3>2, ZAssumption
  <2>1. SumOver(d, Blocks) = SumOver(c, Blocks) + u[1]
    <3> HIDE DEF u, b
    <3>1. SumOver(d, Blocks) = (SumOver(c, Blocks) + d[b]) - c[b]
      <4>1. IsFiniteSet(Blocks) /\ b \in Blocks /\ c \in [Blocks -> Nat] /\ d \in [Blocks -> Nat]
        BY <1>3, <1>12, ZAssumption
      <4>2. \A x \in Blocks : x # b => d[x] = c[x]
        BY <1>15
      <4> QED BY <4>1, <4>2, SumChanges
    <3> QED BY <1>4, <1>12, <1>15, <2>2, <3>1
  <2>3. used_memory = SumOver(c, Blocks) % SizeMod
    BY <1>11 DEF Ledger
  <2>4. ((SumOver(c, Blocks) % SizeMod) + u[1]) % SizeMod = (SumOver(c, Blocks) + u[1]) % SizeMod
    BY <1>4, <2>2, AddRemainder
  <2>5. used_memory' = (used_memory + u[1]) % SizeMod
    BY <1>4
  <2> HIDE DEF u
  <2> QED BY <2>1, <2>3, <2>4, <2>5
<1>17. Ledger(d)'
  <2>1. ASSUME NEW x \in Blocks, \A v \in Mallocers : zt'[v].on # x
        PROVE  d[x] = IF block'[x] = 0 THEN 0 ELSE Cost(block'[x])
    <3>1. x # b /\ \A v \in Mallocers : zt[v].on # x
      BY <1>5, <1>7, <2>1
    <3> QED BY <1>11, <1>15, <3>1 DEF Ledger
  <2>2. ASSUME NEW v \in Mallocers, zt'[v].on # 0
        PROVE  Settles(d[zt'[v].on], zt'[v], Cost(block'[zt'[v].on]))
    <3>1. CASE v = t
      BY <1>5, <1>7, <1>14, <1>15, <3>1
    <3>2. CASE v # t
      <4>1. zt'[v] = zt[v] /\ zt[v].on \in Blocks
        BY <1>1, <1>7, <2>2, <3>2 DEF ZTypeOK
      <4>2. zt[v].on # b
        BY <1>1, <1>3, <3>2 DEF CallsSound
      <4> QED BY <1>11, <1>15, <2>2, <4>1, <4>2 DEF Ledger
    <3> QED BY <3>1, <3>2
  <2>3. d \in [Blocks -> Nat]
    BY <1>15
  <2> QED BY <1>16, <2>1, <2>2, <2>3 DEF Ledger
<1> QED BY <1>9, <1>10, <1>17 DEF ZInv

\* A load takes note of the counter, which nobody else changes before the mutex is used.
LEMMA LoadMade ==
    ASSUME ZInv, NEW t \in Mallocers, UpdateLoad(t)
    PROVE  ZInv'
<1>1. ZTypeOK /\ CallsSound
  BY DEF ZInv
<1>2. /\ zt' = [zt EXCEPT ![t] = [zt[t] EXCEPT !.loaded = used_memory]]
      /\ ~thread_safe /\ zt[t].updates # <<>>
      /\ UNCHANGED <<used_memory, thread_safe, block>>
  BY DEF UpdateLoad
<1> DEFINE r == [zt[t] EXCEPT !.loaded = used_memory]
<1>3. /\ zt[t] \in [on : Blocks \cup {0}, updates : Seq(Int), loaded : Nat \cup {-1}, frees : BOOLEAN]
      /\ used_memory \in Nat
  BY <1>1, ZAssumption DEF ZTypeOK
<1>4. /\ r.on = zt[t].on /\ r.updates = zt[t].updates /\ r.frees = zt[t].frees
      /\ r.loaded = used_memory
      /\ r \in [on : Blocks \cup {0}, updates : Seq(Int), loaded : Nat \cup {-1}, frees : BOOLEAN]
  BY <1>3
<1>5. zt' = [zt EXCEPT ![t] = r]
  BY <1>2
<1> HIDE DEF r
<1>6. zt'[t] = r /\ \A v \in Mallocers : v # t => zt'[v] = zt[v]
  BY <1>1, <1>5, OneCall
<1>7. ZTypeOK'
  BY <1>1, <1>2, <1>4, <1>5 DEF ZTypeOK
<1>8. zt[t] # Idle /\ zt[t].on # 0 /\ r # Idle
  <2>1. zt[t] # Idle
    BY <1>2 DEF Idle
  <2>2. r # Idle
    BY <1>2, <1>4 DEF Idle
  <2> QED BY <1>1, <2>1, <2>2 DEF CallsSound
<1>9. \A v \in Mallocers : /\ zt'[v].on = zt[v].on /\ zt'[v].updates = zt[v].updates
                           /\ zt'[v].frees = zt[v].frees
                           /\ zt'[v] = Idle <=> zt[v] = Idle
                           /\ zt'[v].loaded = IF v = t THEN used_memory ELSE zt[v].loaded
  BY <1>4, <1>6, <1>8
<1>10. CallsSound'
  BY <1>1, <1>2, <1>9 DEF CallsSound
<1>11. PICK c : Ledger(c)
  BY DEF ZInv
<1>12. Ledger(c)'
  <2>1. \A v \in Mallocers : zt'[v].on # 0 =>
            Settles(c[zt'[v].on], zt'[v], Cost(block'[zt'[v].on]))
    BY <1>2, <1>9, <1>11 DEF Ledger, Settles
  <2>2. \A x \in Blocks : (\A v \in Mallocers : zt'[v].on # x) =>
            c[x] = IF block'[x] = 0 THEN 0 ELSE Cost(block'[x])
    BY <1>2, <1>9, <1>11 DEF Ledger
  <2>3. c \in [Blocks -> Nat] /\ used_memory' = SumOver(c, Blocks) % SizeMod
    BY <1>2, <1>11 DEF Ledger
  <2> QED BY <2>1, <2>2, <2>3 DEF Ledger
<1> QED BY <1>7, <1>10, <1>12 DEF ZInv

\* A call that has made its updates returns, and its block counts for what it costs.
LEMMA Returns ==
    ASSUME ZInv, NEW t \in Mallocers, Return(t)
    PROVE  ZInv'
<1> DEFINE b == zt[t].on
           rec == [on : Blocks \cup {0}, updates : Seq(Int), loaded : Nat \cup {-1}, frees : BOOLEAN]
<1>1. ZTypeOK /\ CallsSound
  BY DEF ZInv
<1>2. /\ zt[t] # Idle /\ zt[t].updates = <<>> /\ zt' = [zt EXCEPT ![t] = Idle]
      /\ block' = IF zt[t].frees THEN [block EXCEPT ![b] = 0] ELSE block
      /\ UNCHANGED <<used_memory, thread_safe>>
  BY DEF Return
<1>3. b \in Blocks /\ b # 0 /\ block[b] # 0 /\ zt[t] \in rec
  BY <1>1, <1>2 DEF ZTypeOK, CallsSound
<1>4. zt'[t] = Idle /\ \A v \in Mallocers : v # t => zt'[v] = zt[v]
  BY <1>1, <1>2, OneCall
<1>5. /\ block' \in [Blocks -> Sizes \cup {0}]
      /\ block'[b] = IF zt[t].frees THEN 0 ELSE block[b]
      /\ \A x \in Blocks : x # b => block'[x] = block[x]
  BY <1>1, <1>2, <1>3 DEF ZTypeOK
<1>6. /\ Idle \in rec /\ Idle.on = 0 /\ Idle.loaded = -1
  <2>1. <<>> \in Seq(Int)
    OBVIOUS
  <2> QED BY <2>1, Zenon DEF Idle
<1>7. ZTypeOK'
  BY <1>1, <1>2, <1>5, <1>6 DEF ZTypeOK
<1>8. CallsSound'
  <2>1. ASSUME NEW v \in Mallocers
        PROVE  /\ zt'[v].on = 0 <=> zt'[v] = Idle
               /\ zt'[v].on # 0 => block'[zt'[v].on] # 0 /\ Len(zt'[v].updates) <= 2
               /\ zt'[v].loaded # -1 => ~thread_safe /\ zt'[v].loaded = used_memory /\ zt'[v].updates # <<>>
               /\ ~thread_safe /\ v # FirstThread => zt'[v] = Idle
    <3>1. CASE v = t
      BY <1>4, <1>6, <3>1
    <3>2. CASE v # t
      <4>1. zt'[v] = zt[v] /\ zt[v].on # b /\ zt[v].on \in Blocks \cup {0}
        BY <1>1, <1>3, <1>4, <3>2 DEF ZTypeOK, CallsSound
      <4>2. zt[v].on # 0 => block'[zt[v].on] = block[zt[v].on]
        BY <1>5, <4>1
      <4> QED BY <1>1, <4>1, <4>2 DEF CallsSound
    <3> QED BY <3>1, <3>2
  <2>2. \A v, w \in Mallocers : v # w /\ zt'[v].on # 0 => zt'[v].on # zt'[w].on
    BY <1>1, <1>4, <1>6 DEF CallsSound
  <2> QED BY <1>2, <2>1, <2>2 DEF CallsSound
<1>9. PICK c : Ledger(c)
  BY DEF ZInv
<1>10. c[b] = IF zt[t].frees THEN 0 ELSE Cost(block[b])
  <2>1. Settles(c[b], zt[t], Cost(block[b]))
    BY <1>3, <1>9 DEF Ledger
  <2> QED BY <1>2, <2>1 DEF Settles
<1>11. Ledger(c)'
  <2>1. ASSUME NEW x \in Blocks, \A v \in Mallocers : zt'[v].on # x
        PROVE  c[x] = IF block'[x] = 0 THEN 0 ELSE Cost(block'[x])
    <3>1. CASE x = b
      BY <1>3, <1>5, <1>10, <3>1
    <3>2. CASE x # b
      <4>1. \A v \in Mallocers : zt[v].on # x
        BY <1>4, <2>1, <3>2
      <4> QED BY <1>5, <1>9, <3>2, <4>1 DEF Ledger
    <3> QED BY <3>1, <3>2
  <2>2. ASSUME NEW v \in Mallocers, zt'[v].on # 0
        PROVE  Settles(c[zt'[v].on], zt'[v], Cost(block'[zt'[v].on]))
    <3>1. v # t /\ zt'[v] = zt[v]
      BY <1>4, <1>6, <2>2
    <3>2. zt[v].on # b /\ zt[v].on \in Blocks
      BY <1>1, <1>3, <2>2, <3>1 DEF ZTypeOK, CallsSound
    <3> QED BY <1>5, <1>9, <2>2, <3>1, <3>2 DEF Ledger
  <2>3. c \in [Blocks -> Nat] /\ used_memory' = SumOver(c, Blocks) % SizeMod
    BY <1>2, <1>9 DEF Ledger
  <2> QED BY <2>1, <2>2, <2>3 DEF Ledger
<1> QED BY <1>7, <1>8, <1>11 DEF ZInv

\* The mutex comes into use while the only thread is in no call.
LEMMA MutexComes ==
    ASSUME ZInv, zmalloc_enable_thread_safeness
    PROVE  ZInv'
<1>1. /\ ZTypeOK /\ CallsSound /\ thread_safe' = TRUE /\ zt[FirstThread] = Idle
      /\ UNCHANGED <<used_memory, block, zt>>
  BY DEF ZInv, zmalloc_enable_thread_safeness
<1>2. ZTypeOK'
  BY <1>1 DEF ZTypeOK
<1>3. \A t \in Mallocers : zt[t].loaded = -1
  <2> SUFFICES ASSUME NEW t \in Mallocers, zt[t].loaded # -1 PROVE FALSE
    OBVIOUS
  <2>1. ~thread_safe
    BY <1>1 DEF CallsSound
  <2>2. zt[t] = Idle
    BY <1>1, <2>1 DEF CallsSound
  <2> QED BY <2>2 DEF Idle
<1>4. CallsSound'
  BY <1>1, <1>3 DEF CallsSound
<1>5. PICK c : Ledger(c)
  BY DEF ZInv
<1>6. Ledger(c)'
  BY <1>1, <1>5 DEF Ledger
<1> QED BY <1>2, <1>4, <1>6 DEF ZInv

-----------------------------------------------------------------------------
(* Theorems *)

\* What the counter of zmalloc.c counts of each block is what the block costs, up to the
\* updates that the call that works on it has still to make.
THEOREM ZInvariance == ZSpec => []ZInv
<1>1. ASSUME ZInv, [ZNext]_zVars PROVE ZInv'
  <2>1. ASSUME NEW t \in Mallocers, UpdateLocked(t) PROVE ZInv'
    BY <1>1, <2>1, UpdateMade DEF UpdateLocked
  <2>2. ASSUME NEW t \in Mallocers, UpdateStore(t) PROVE ZInv'
    <3>1. zt[t].loaded = used_memory /\ zt[t].updates # <<>>
      BY <1>1, <2>2 DEF ZInv, CallsSound, UpdateStore
    <3> QED BY <1>1, <2>2, <3>1, UpdateMade DEF UpdateStore
  <2>3. CASE UNCHANGED zVars
    <3>1. UNCHANGED <<used_memory, thread_safe, block, zt>>
      BY <2>3 DEF zVars
    <3>2. PICK c : Ledger(c)
      BY <1>1 DEF ZInv
    <3>3. Ledger(c)'
      BY <3>1, <3>2 DEF Ledger
    <3>4. ZTypeOK' /\ CallsSound'
      BY <1>1, <3>1 DEF ZInv, ZTypeOK, CallsSound
    <3> QED BY <3>3, <3>4 DEF ZInv
  <2>4. ASSUME ZNext PROVE ZInv'
    <3>1. ASSUME NEW t \in Mallocers, NEW b \in Blocks, NEW size \in Sizes,
                 zmalloc(t, b, size) \/ zrealloc(t, b, size)
          PROVE  ZInv'
      BY <1>1, <3>1, Calls
    <3>2. ASSUME NEW t \in Mallocers, NEW b \in Blocks, zfree(t, b) PROVE ZInv'
      BY <1>1, <3>2, Calls
    <3>3. ASSUME NEW t \in Mallocers, UpdateLoad(t) \/ Return(t) PROVE ZInv'
      BY <1>1, <3>3, LoadMade, Returns
    <3> QED BY <1>1, <2>1, <2>2, <2>4, <3>1, <3>2, <3>3, MutexComes DEF ZNext
  <2> QED BY <1>1, <2>3, <2>4
<1> QED BY ZInitInv, <1>1, PTL DEF ZSpec

\* used_memory is exact whenever no call is in progress: the updates of zmalloc, zrealloc and
\* zfree add up, for any number of threads, blocks and sizes and any width of size_t.
THEOREM UsedMemoryExactAlways == ZSpec => []UsedMemoryExact
<1>1. ASSUME ZInv, \A t \in Mallocers : zt[t] = Idle
      PROVE  used_memory = MapThenSumSet(LAMBDA b : Padded(block[b] + PrefixSize),
                                         {b \in Blocks : block[b] # 0}) % SizeMod
  <2> DEFINE S == {b \in Blocks : block[b] # 0}
  <2>1. PICK c : Ledger(c)
    BY <1>1 DEF ZInv
  <2>2. c \in [Blocks -> Nat] /\ used_memory = SumOver(c, Blocks) % SizeMod
    BY <2>1 DEF Ledger
  <2>3. \A b \in Blocks : c[b] = IF block[b] = 0 THEN 0 ELSE Cost(block[b])
    <3>1. \A t \in Mallocers, b \in Blocks : zt[t].on # b
      BY <1>1, ZAssumption DEF Idle
    <3> QED BY <2>1, <3>1 DEF Ledger
  <2>4. S \in SUBSET Blocks /\ IsFiniteSet(S)
    BY ZAssumption, FS_Subset
  <2>5. \A b \in S : c[b] \in Nat /\ c[b] = Padded(block[b] + PrefixSize)
    BY <2>2, <2>3 DEF Cost
  <2>6. \A b \in Blocks : c[b] = IF b \in S THEN c[b] ELSE 0
    BY <2>3
  <2>7. SumOver(c, Blocks) = SumOver(c, S)
    <3> HIDE DEF S
    <3> QED BY <2>4, <2>6, SumSame
  <2>8. MapThenSumSet(LAMBDA b : Padded(block[b] + PrefixSize), S) = SumOver(c, S)
    <3> HIDE DEF S
    <3> QED BY <2>4, <2>5, LibrarySum
  <2> QED BY <2>2, <2>7, <2>8
<1>2. ZInv => UsedMemoryExact
  BY <1>1 DEF UsedMemoryExact
<1> QED BY ZInvariance, <1>2, PTL

-----------------------------------------------------------------------------
(* The reference counts of shared_ptr *)

Ops == {"add_ref_copy", "release", "dispose", "weak_add_ref", "weak_release", "destroy",
        "load", "cas", "lock", "undo"}
TaskType == [op : Ops, b : SpBlocks, count : Int, slot : SpSlots \cup {SpNull}]

SpTypeOK ==
    /\ spCount \in [SpBlocks -> [use : Int, weak : Int]]
    /\ spState \in [SpBlocks -> {"free", "live", "disposed"}]
    /\ spNext \in [SpBlocks -> SpBlocks \cup {SpNull}]
    /\ spMutex \in [SpBlocks -> SpThreads \cup {SpNull}]
    /\ spShared \in [SpThreads -> [SpSlots -> SpBlocks \cup {SpNull}]]
    /\ spWeakPtr \in [SpThreads -> SpBlocks \cup {SpNull}]
    /\ spWork \in [SpThreads -> Seq(TaskType)]
    /\ spPolicy \in {"atomic", "mutex"}

On(t, op, b) == Doing(t, op) /\ Blk(t) = b

\* What a thread has yet to do after the task at hand are releases.
ReleasesLast == \A t \in SpThreads : \A i \in 2 .. Len(spWork[t]) :
                    spWork[t][i].op \in {"release", "weak_release"}

\* Whoever is about to count a copy holds two references to the block, of which the other one
\* is counted: in a variable, or in an object that it has still to release.
CopiesHeld(t) ==
    Doing(t, "add_ref_copy") =>
        \E s \in SpSlots :
            /\ spShared[t][s] = Blk(t)
            /\ \/ \E r \in SpSlots \ {s} : spShared[t][r] = Blk(t)
               \/ /\ 2 \in 1 .. Len(spWork[t]) /\ spWork[t][2].op = "release"
                  /\ spNext[spWork[t][2].b] = Blk(t)

\* A weak reference is counted while a shared one is there.
WeakCopiesHeld(t) ==
    Doing(t, "weak_add_ref") =>
        spWeakPtr[t] = Blk(t) /\ \E s \in SpSlots : spShared[t][s] = Blk(t)

\* Whoever locks a weak pointer has it.
LocksHeld(t) ==
    \A op \in {"load", "cas", "lock", "undo"} : Doing(t, op) =>
        /\ spWeakPtr[t] = Blk(t)
        /\ Head(spWork[t]).slot \in SpSlots /\ spShared[t][Head(spWork[t]).slot] = SpNull
        /\ spPolicy = IF op \in {"load", "cas"} THEN "atomic" ELSE "mutex"

WorkSound == ReleasesLast /\ \A t \in SpThreads : CopiesHeld(t) /\ WeakCopiesHeld(t) /\ LocksHeld(t)

MutexSound == \A b \in SpBlocks, t \in SpThreads : spMutex[b] = t <=> On(t, "undo", b)

\* The tasks of a kind for a block, each as its thread and its height in that thread's stack
PendingIn(work, op, b) ==
    {p \in SpThreads \X (Nat \ {0}) :
        /\ p[2] <= Len(work[p[1]])
        /\ work[p[1]][Len(work[p[1]]) + 1 - p[2]].op = op
        /\ work[p[1]][Len(work[p[1]]) + 1 - p[2]].b = b}
Pending(op, b) == Cardinality(PendingIn(spWork, op, b))

\* The threads that do this to the block now
Doers(op, b) == {t \in SpThreads : On(t, op, b)}
Busy(op, b) == Cardinality(Doers(op, b))

Vars(b) == {p \in SpThreads \X SpSlots : spShared[p[1]][p[2]] = b}
Members(b) == {c \in SpBlocks : spNext[c] = b}
WeakVars(b) == {t \in SpThreads : spWeakPtr[t] = b /\ ~Doing(t, "weak_add_ref")}

Refs(b) == Cardinality(Vars(b)) + Cardinality(Members(b)) + Pending("release", b)
WeakRefs(b) == Cardinality(WeakVars(b)) + Pending("weak_release", b)

\* The counters and the state of a block follow from who refers to it and from what is being
\* done to it.
BlockSound(b) ==
    /\ spCount[b].use = (Refs(b) - Busy("add_ref_copy", b)) + Busy("undo", b)
    /\ spCount[b].weak = WeakRefs(b)
                          + (IF spState[b] = "live" THEN 1 ELSE 0)
                          + (IF spState[b] = "live" /\ Busy("dispose", b) = 0 THEN 1 ELSE 0)
    /\ Refs(b) > 0 <=> spState[b] = "live" /\ Busy("dispose", b) = 0
    /\ Busy("dispose", b) > 0 => spState[b] = "live"
    /\ Busy("dispose", b) <= 1 /\ Busy("destroy", b) <= 1 /\ Busy("undo", b) <= 1
    /\ Busy("destroy", b) > 0 => spState[b] = "disposed" /\ WeakRefs(b) = 0
    /\ WeakRefs(b) > 0 => spState[b] # "free"
    /\ spState[b] = "disposed" /\ Busy("destroy", b) = 0 => WeakRefs(b) > 0
    /\ spState[b] # "live" => spNext[b] = SpNull
    /\ Busy("undo", b) > 0 => Refs(b) = 0

FinitePending == \A op \in Ops : \A b \in SpBlocks : IsFiniteSet(PendingIn(spWork, op, b))

SpInv == SpTypeOK /\ WorkSound /\ MutexSound /\ FinitePending /\ \A b \in SpBlocks : BlockSound(b)

-----------------------------------------------------------------------------
(* Counting *)

One(p) == IF p THEN 1 ELSE 0
Is(x, y) == IF x = y THEN 1 ELSE 0
Now(t, op, b) == IF On(t, op, b) THEN 1 ELSE 0
HasWeak(t, b) == IF spWeakPtr[t] = b /\ ~Doing(t, "weak_add_ref") THEN 1 ELSE 0

\* Two sets that agree on everything but x
LEMMA OneDiffers ==
    ASSUME NEW S, NEW T, NEW x, IsFiniteSet(S), \A y : y # x => (y \in S <=> y \in T)
    PROVE  /\ IsFiniteSet(T) /\ Cardinality(S) \in Nat /\ Cardinality(T) \in Nat
           /\ Cardinality(T) = (Cardinality(S) - One(x \in S)) + One(x \in T)
<1>1. Cardinality(S) \in Nat
  BY FS_CardinalityType
<1>2. /\ IsFiniteSet(S \ {x})
      /\ Cardinality(S \ {x}) = IF x \in S THEN Cardinality(S) - 1 ELSE Cardinality(S)
  BY FS_RemoveElement
<1>3. /\ IsFiniteSet(S \cup {x})
      /\ Cardinality(S \cup {x}) = IF x \in S THEN Cardinality(S) ELSE Cardinality(S) + 1
  BY FS_AddElement
<1>4. CASE x \in S /\ x \in T
  <2>1. S = T
    BY <1>4
  <2> QED BY <2>1, <1>1, <1>4 DEF One, Now, Is
<1>5. CASE x \notin S /\ x \notin T
  <2>1. S = T
    BY <1>5
  <2> QED BY <2>1, <1>1, <1>5 DEF One, Now, Is
<1>6. CASE x \in S /\ x \notin T
  <2>1. T = S \ {x}
    BY <1>6
  <2>2. Cardinality(T) \in Nat
    BY <2>1, <1>2, FS_CardinalityType
  <2> QED BY <2>1, <2>2, <1>1, <1>2, <1>6 DEF One, Now, Is
<1>7. CASE x \notin S /\ x \in T
  <2>1. T = S \cup {x}
    BY <1>7
  <2> QED BY <2>1, <1>1, <1>3, <1>7 DEF One, Now, Is
<1> QED BY <1>4, <1>5, <1>6, <1>7

\* A finite set has elements or none.
LEMMA SomeOrNone ==
    ASSUME NEW S, IsFiniteSet(S)
    PROVE  Cardinality(S) \in Nat /\ (Cardinality(S) > 0 <=> S # {})
<1>1. Cardinality(S) \in Nat /\ (Cardinality(S) = 0 <=> S = {})
  BY FS_CardinalityType, FS_EmptySet
<1> QED BY <1>1

\* Of a set with at most one element all elements are the same.
LEMMA AtMostOne ==
    ASSUME NEW S, IsFiniteSet(S), Cardinality(S) <= 1, NEW x \in S, NEW y \in S
    PROVE  x = y
<1>1. Cardinality(S) \in Nat /\ Cardinality(S) > 0
  BY SomeOrNone
<1>2. Cardinality(S) = 1
  BY <1>1
<1>3. PICK z : S = {z}
  BY <1>2, FS_Singleton
<1> QED BY <1>3

Hit(x, op, b) == One(x.op = op /\ x.b = b)

\* The stacks V have n tasks of the kind more than the stacks W.
MoreTasks(V, W, n, op, b) ==
    /\ V \in [SpThreads -> Seq(TaskType)]
    /\ IsFiniteSet(PendingIn(V, op, b))
    /\ Cardinality(PendingIn(W, op, b)) \in Nat /\ Cardinality(PendingIn(V, op, b)) \in Nat
    /\ Cardinality(PendingIn(V, op, b)) = Cardinality(PendingIn(W, op, b)) + n

\* One more task on a stack
LEMMA TaskPushed ==
    ASSUME NEW W \in [SpThreads -> Seq(TaskType)], NEW t \in SpThreads, NEW x \in TaskType,
           NEW op, NEW b, IsFiniteSet(PendingIn(W, op, b)),
           NEW V, V = [W EXCEPT ![t] = <<x>> \o W[t]]
    PROVE  MoreTasks(V, W, Hit(x, op, b), op, b)
<1> DEFINE L == Len(W[t])
           new == <<t, L + 1>>
<1>1. W[t] \in Seq(TaskType) /\ L \in Nat
  OBVIOUS
<1>2. /\ <<x>> \o W[t] \in Seq(TaskType) /\ Len(<<x>> \o W[t]) = L + 1
      /\ \A i \in 1 .. L : (<<x>> \o W[t])[i + 1] = W[t][i]
      /\ (<<x>> \o W[t])[1] = x
  BY <1>1, ConcatProperties
<1>3. V \in [SpThreads -> Seq(TaskType)]
  BY <1>2
<1>4. V[t] = <<x>> \o W[t] /\ \A u \in SpThreads : u # t => V[u] = W[u]
  OBVIOUS
<1>5. ASSUME NEW p, p # new PROVE p \in PendingIn(W, op, b) <=> p \in PendingIn(V, op, b)
  <2>1. CASE p \in SpThreads \X (Nat \ {0}) /\ p[1] # t
    BY <2>1, <1>4 DEF PendingIn
  <2>2. CASE p \in SpThreads \X (Nat \ {0}) /\ p[1] = t
    <3>1. p[2] \in Nat \ {0} /\ p[2] # L + 1
      BY <2>2, <1>5
    <3>2. p[2] <= L <=> p[2] <= L + 1
      BY <3>1, <1>1
    <3>3. CASE p[2] <= L
      <4>1. L + 1 - p[2] \in 1 .. L /\ L + 1 + 1 - p[2] = (L + 1 - p[2]) + 1
        BY <3>1, <3>3, <1>1
      <4>2. V[t][L + 1 + 1 - p[2]] = W[t][L + 1 - p[2]]
        BY <4>1, <1>2, <1>4
      <4> QED BY <2>2, <3>2, <3>3, <4>2, <1>2, <1>4 DEF PendingIn
    <3>4. CASE ~(p[2] <= L)
      BY <2>2, <3>2, <3>4, <1>2, <1>4 DEF PendingIn
    <3> QED BY <3>3, <3>4
  <2> QED BY <2>1, <2>2 DEF PendingIn
<1>6. new \notin PendingIn(W, op, b)
  <2>1. ~(L + 1 <= L)
    BY <1>1
  <2> QED BY <2>1 DEF PendingIn
<1>7. new \in PendingIn(V, op, b) <=> x.op = op /\ x.b = b
  <2>1. /\ new \in SpThreads \X (Nat \ {0}) /\ L + 1 <= L + 1 /\ L + 1 + 1 - (L + 1) = 1
        /\ new[1] = t /\ new[2] = L + 1
    BY <1>1
  <2> QED BY <2>1, <1>2, <1>4 DEF PendingIn
<1>8. /\ IsFiniteSet(PendingIn(V, op, b))
      /\ Cardinality(PendingIn(W, op, b)) \in Nat /\ Cardinality(PendingIn(V, op, b)) \in Nat
      /\ Cardinality(PendingIn(V, op, b)) = (Cardinality(PendingIn(W, op, b)) - One(new \in PendingIn(W, op, b)))
                                              + One(new \in PendingIn(V, op, b))
  <2> HIDE DEF new
  <2> QED BY <1>5, OneDiffers
<1>9. One(new \in PendingIn(W, op, b)) = 0 /\ One(new \in PendingIn(V, op, b)) = Hit(x, op, b)
  BY <1>6, <1>7 DEF One, Now, Is, Hit
<1> QED BY <1>3, <1>8, <1>9 DEF One, Now, Is, MoreTasks

\* The task at hand is taken off a stack.
LEMMA TaskPopped ==
    ASSUME NEW W \in [SpThreads -> Seq(TaskType)], NEW t \in SpThreads, W[t] # <<>>,
           NEW op, NEW b, IsFiniteSet(PendingIn(W, op, b)),
           NEW V, V = [W EXCEPT ![t] = Tail(W[t])]
    PROVE  MoreTasks(V, W, -Hit(Head(W[t]), op, b), op, b)
<1> DEFINE x == Head(W[t])
<1>1. x \in TaskType /\ Tail(W[t]) \in Seq(TaskType) /\ W[t] = <<x>> \o Tail(W[t])
  <2>1. W[t] \in Seq(TaskType)
    OBVIOUS
  <2> QED BY <2>1, HeadTailProperties, ConcatProperties
<1>2. V \in [SpThreads -> Seq(TaskType)] /\ V[t] = Tail(W[t])
  BY <1>1
<1>3. W = [V EXCEPT ![t] = <<x>> \o V[t]]
  BY <1>1, <1>2
<1>4. IsFiniteSet(PendingIn(V, op, b))
  <2>1. PendingIn(V, op, b) \subseteq PendingIn(W, op, b)
    <3> SUFFICES ASSUME NEW p \in PendingIn(V, op, b) PROVE p \in PendingIn(W, op, b)
      OBVIOUS
    <3>1. CASE p[1] # t
      BY <3>1 DEF PendingIn
    <3>2. CASE p[1] = t
      <4> DEFINE L == Len(V[t])
      <4>1. L \in Nat /\ p[2] \in Nat \ {0} /\ p[2] <= L
        BY <1>2, <3>2 DEF PendingIn
      <4>2. Len(W[t]) = L + 1 /\ \A i \in 1 .. L : W[t][i + 1] = V[t][i]
        BY <1>1, <1>2, ConcatProperties
      <4>3. L + 1 - p[2] \in 1 .. L /\ L + 1 + 1 - p[2] = (L + 1 - p[2]) + 1 /\ p[2] <= L + 1
        BY <4>1
      <4>4. W[t][L + 1 + 1 - p[2]] = V[t][L + 1 - p[2]]
        BY <4>2, <4>3
      <4> QED BY <3>2, <4>2, <4>3, <4>4 DEF PendingIn
    <3> QED BY <3>1, <3>2
  <2> QED BY <2>1, FS_Subset
<1>5. MoreTasks(W, V, Hit(x, op, b), op, b)
  <2> HIDE DEF x
  <2> QED BY <1>1, <1>2, <1>3, <1>4, TaskPushed
<1>6. Hit(x, op, b) \in {0, 1}
  BY DEF Hit, One
<1> QED BY <1>2, <1>4, <1>5, <1>6 DEF MoreTasks

\* The tasks of an operation that has at most two
HitsIn(w, op, b) == (IF 1 \in DOMAIN w THEN Hit(w[1], op, b) ELSE 0)
                     + (IF 2 \in DOMAIN w THEN Hit(w[2], op, b) ELSE 0)

\* What an operation of at most two tasks may be
LEMMA ShortWork ==
    ASSUME NEW w \in Seq(TaskType), Len(w) <= 2
    PROVE  \/ w = <<>>
           \/ \E x \in TaskType : w = <<x>>
           \/ \E x, y \in TaskType : w = <<x, y>>
<1>1. Len(w) \in Nat /\ w = [i \in 1 .. Len(w) |-> w[i]] /\ \A i \in 1 .. Len(w) : w[i] \in TaskType
  BY LenProperties
<1>2. CASE Len(w) = 0
  BY <1>2, EmptySeq
<1>3. CASE Len(w) = 1
  <2>1. w[1] \in TaskType
    BY <1>1, <1>3
  <2>2. <<w[1]>> \in Seq(TaskType) /\ Len(<<w[1]>>) = 1 /\ <<w[1]>>[1] = w[1]
    BY <2>1
  <2>3. w = <<w[1]>>
    BY <1>1, <1>3, <2>2, SeqEqual
  <2> QED BY <2>1, <2>3
<1>4. CASE Len(w) = 2
  <2>1. w[1] \in TaskType /\ w[2] \in TaskType
    BY <1>1, <1>4
  <2> DEFINE v == <<w[1], w[2]>>
  <2>2. v \in Seq(TaskType) /\ Len(v) = 2 /\ v[1] = w[1] /\ v[2] = w[2]
    BY <2>1
  <2>3. \A i \in 1 .. 2 : w[i] = v[i]
    <3>1. \A i \in 1 .. 2 : i = 1 \/ i = 2
      OBVIOUS
    <3> QED BY <3>1, <2>2
  <2> HIDE DEF v
  <2>4. w = v
    BY <1>4, <2>2, <2>3, SeqEqual
  <2> QED BY <2>1, <2>4 DEF v
<1> QED BY <1>1, <1>2, <1>3, <1>4

\* An operation's tasks are put on a stack.
LEMMA WorkPushed ==
    ASSUME NEW W \in [SpThreads -> Seq(TaskType)], NEW t \in SpThreads,
           NEW w \in Seq(TaskType), Len(w) <= 2,
           NEW op, NEW b, IsFiniteSet(PendingIn(W, op, b)),
           NEW V, V = [W EXCEPT ![t] = w \o W[t]]
    PROVE  MoreTasks(V, W, HitsIn(w, op, b), op, b)
<1>0. W[t] \in Seq(TaskType) /\ Cardinality(PendingIn(W, op, b)) \in Nat
  BY FS_CardinalityType
<1>1. CASE w = <<>>
  <2>1. V = W
    BY <1>0, <1>1, ConcatEmptySeq
  <2>2. HitsIn(w, op, b) = 0
    BY <1>1 DEF HitsIn
  <2> DEFINE c == Cardinality(PendingIn(W, op, b))
  <2>3. c = c + HitsIn(w, op, b)
    BY <2>2, <1>0
  <2> HIDE DEF c
  <2>4. IsFiniteSet(PendingIn(V, op, b)) /\ c \in Nat
    BY <2>1, <1>0 DEF c
  <2> QED BY <2>1, <2>3, <2>4 DEF MoreTasks, c
<1>2. ASSUME NEW x \in TaskType, w = <<x>> PROVE HitsIn(w, op, b) = Hit(x, op, b)
  <2>1. 1 \in DOMAIN w /\ 2 \notin DOMAIN w /\ w[1] = x
    BY <1>2
  <2>2. Hit(x, op, b) \in Nat
    BY DEF Hit, One
  <2> QED BY <2>1, <2>2 DEF HitsIn
<1>3. ASSUME NEW x \in TaskType, NEW y \in TaskType, w = <<x, y>>
      PROVE  HitsIn(w, op, b) = Hit(x, op, b) + Hit(y, op, b)
  <2>1. 1 \in DOMAIN w /\ 2 \in DOMAIN w /\ w[1] = x /\ w[2] = y
    BY <1>3
  <2> QED BY <2>1 DEF HitsIn
<1>4. ASSUME NEW x \in TaskType, w = <<x>> PROVE MoreTasks(V, W, HitsIn(w, op, b), op, b)
  <2>1. V = [W EXCEPT ![t] = <<x>> \o W[t]]
    BY <1>4
  <2>2. MoreTasks(V, W, Hit(x, op, b), op, b)
    BY <2>1, TaskPushed
  <2> QED BY <2>2, <1>2, <1>4
<1>5. ASSUME NEW x \in TaskType, NEW y \in TaskType, w = <<x, y>>
      PROVE  MoreTasks(V, W, HitsIn(w, op, b), op, b)
  <2> DEFINE U == [W EXCEPT ![t] = <<y>> \o W[t]]
  <2>a. U = [W EXCEPT ![t] = <<y>> \o W[t]]
    OBVIOUS
  <2>2. U[t] = <<y>> \o W[t]
    OBVIOUS
  <2>3. w \o W[t] = <<x>> \o U[t]
    <3>1. <<x>> \in Seq(TaskType) /\ <<y>> \in Seq(TaskType)
      OBVIOUS
    <3>2. w = <<x>> \o <<y>>
      <4>1. <<x>> \o <<y>> \in Seq(TaskType) /\ Len(<<x>> \o <<y>>) = 2
            /\ (<<x>> \o <<y>>)[1] = x /\ (<<x>> \o <<y>>)[2] = y
        BY <3>1, ConcatProperties
      <4>2. Len(w) = 2 /\ w[1] = x /\ w[2] = y
        BY <1>5
      <4>3. \A i \in 1 .. 2 : i = 1 \/ i = 2
        OBVIOUS
      <4>4. \A i \in 1 .. 2 : w[i] = (<<x>> \o <<y>>)[i]
        BY <4>1, <4>2, <4>3, Zenon
      <4> DEFINE v == <<x>> \o <<y>>
      <4> HIDE DEF v
      <4>5. w = v
        BY <4>1, <4>2, <4>4, SeqEqual DEF v
      <4> QED BY <4>5 DEF v
    <3> QED BY <3>1, <3>2, <2>2, <1>0, ConcatAssociative
  <2>4. V = [U EXCEPT ![t] = <<x>> \o U[t]]
    BY <2>3
  <2> HIDE DEF U
  <2>1. MoreTasks(U, W, Hit(y, op, b), op, b)
    BY <2>a, TaskPushed
  <2>5. MoreTasks(V, U, Hit(x, op, b), op, b)
    <3>1. U \in [SpThreads -> Seq(TaskType)] /\ IsFiniteSet(PendingIn(U, op, b))
      BY <2>1 DEF MoreTasks
    <3> QED BY <3>1, <2>4, TaskPushed
  <2>6. Hit(x, op, b) \in Nat /\ Hit(y, op, b) \in Nat
    BY DEF Hit, One
  <2>7. HitsIn(w, op, b) = Hit(x, op, b) + Hit(y, op, b)
    BY <1>3, <1>5
  <2> QED BY <2>1, <2>5, <2>6, <2>7, <1>0 DEF MoreTasks
<1> QED BY <1>1, <1>4, <1>5, ShortWork

\* The task at hand makes room for others.
LEMMA WorkReplaced ==
    ASSUME NEW W \in [SpThreads -> Seq(TaskType)], NEW t \in SpThreads, W[t] # <<>>,
           NEW w \in Seq(TaskType), Len(w) <= 2,
           NEW op, NEW b, IsFiniteSet(PendingIn(W, op, b)),
           NEW V, V = [W EXCEPT ![t] = w \o Tail(W[t])]
    PROVE  MoreTasks(V, W, HitsIn(w, op, b) - Hit(Head(W[t]), op, b), op, b)
<1> DEFINE U == [W EXCEPT ![t] = Tail(W[t])]
<1>a. U = [W EXCEPT ![t] = Tail(W[t])]
  OBVIOUS
<1>2. V = [U EXCEPT ![t] = w \o U[t]]
  OBVIOUS
<1> HIDE DEF U
<1>1. MoreTasks(U, W, -Hit(Head(W[t]), op, b), op, b)
  BY <1>a, TaskPopped
<1>3. MoreTasks(V, U, HitsIn(w, op, b), op, b)
  <2>1. U \in [SpThreads -> Seq(TaskType)] /\ IsFiniteSet(PendingIn(U, op, b))
    BY <1>1 DEF MoreTasks
  <2> QED BY <2>1, <1>2, WorkPushed
<1>4. Hit(Head(W[t]), op, b) \in Nat /\ HitsIn(w, op, b) \in Nat
  BY DEF Hit, One, HitsIn
<1> QED BY <1>1, <1>3, <1>4 DEF MoreTasks

\* One thread changes what it does.
LEMMA DoersChange ==
    ASSUME NEW t \in SpThreads, NEW v, spWork'[t] = v,
           \A u \in SpThreads : u # t => spWork'[u] = spWork[u],
           NEW op, NEW b
    PROVE  /\ Busy(op, b) \in Nat /\ Busy(op, b)' \in Nat
           /\ Busy(op, b)' = (Busy(op, b) - Now(t, op, b))
                               + (IF v # <<>> THEN Hit(Head(v), op, b) ELSE 0)
<1>1. spWork'[t] = v /\ \A u \in SpThreads : u # t => spWork'[u] = spWork[u]
  OBVIOUS
<1>2. \A u \in SpThreads : u # t => (On(u, op, b)' <=> On(u, op, b))
  BY <1>1 DEF On, Doing, Blk
<1>3. \A u : u # t => (u \in Doers(op, b) <=> u \in Doers(op, b)')
  BY <1>2 DEF Doers
<1>4. IsFiniteSet(Doers(op, b))
  <2>1. Doers(op, b) \in SUBSET SpThreads
    BY DEF Doers
  <2> QED BY <2>1, SpAssumption, FS_Subset
<1>5. t \in Doers(op, b) <=> On(t, op, b)
  BY DEF Doers
<1>6. One(t \in Doers(op, b)') = (IF v # <<>> THEN Hit(Head(v), op, b) ELSE 0)
  BY <1>1 DEF Doers, On, Doing, Blk, Hit, One
<1>7. /\ Cardinality(Doers(op, b)) \in Nat /\ Cardinality(Doers(op, b)') \in Nat
      /\ Cardinality(Doers(op, b)') = (Cardinality(Doers(op, b)) - One(t \in Doers(op, b))) + One(t \in Doers(op, b)')
  <2> DEFINE S == Doers(op, b)
             T == Doers(op, b)'
  <2>1. IsFiniteSet(S) /\ \A u : u # t => (u \in S <=> u \in T)
    BY <1>3, <1>4
  <2> HIDE DEF S, T
  <2>2. Cardinality(S) \in Nat /\ Cardinality(T) \in Nat
        /\ Cardinality(T) = (Cardinality(S) - One(t \in S)) + One(t \in T)
    BY <2>1, OneDiffers
  <2> QED BY <2>2 DEF S, T
<1>8. One(t \in Doers(op, b)) = Now(t, op, b)
  BY <1>5 DEF One, Now, Is
<1> QED BY <1>6, <1>7, <1>8 DEF Busy

\* Nothing changes what is done while the stacks stay.
LEMMA DoersStay ==
    ASSUME UNCHANGED spWork, NEW op, NEW b
    PROVE  Busy(op, b)' = Busy(op, b) /\ Pending(op, b)' = Pending(op, b)
BY DEF Busy, Doers, On, Doing, Blk, Pending

\* Sets that are finite because threads, variables and blocks are
LEMMA FiniteSets ==
    ASSUME NEW op, NEW b
    PROVE  /\ IsFiniteSet(Vars(b)) /\ IsFiniteSet(Members(b)) /\ IsFiniteSet(WeakVars(b))
           /\ IsFiniteSet(Doers(op, b))
           /\ Cardinality(Vars(b)) \in Nat /\ Cardinality(Members(b)) \in Nat
           /\ Cardinality(WeakVars(b)) \in Nat /\ Busy(op, b) \in Nat
<1>1. IsFiniteSet(SpThreads \X SpSlots)
  BY SpAssumption, FS_Product
<1>2. /\ Vars(b) \in SUBSET (SpThreads \X SpSlots) /\ Members(b) \in SUBSET SpBlocks
      /\ WeakVars(b) \in SUBSET SpThreads /\ Doers(op, b) \in SUBSET SpThreads
  BY DEF Vars, Members, WeakVars, Doers
<1>3. /\ IsFiniteSet(Vars(b)) /\ IsFiniteSet(Members(b)) /\ IsFiniteSet(WeakVars(b))
      /\ IsFiniteSet(Doers(op, b))
  BY <1>1, <1>2, SpAssumption, FS_Subset
<1> QED BY <1>3, FS_CardinalityType DEF Busy

\* A thread assigns one of its variables.
LEMMA VarsChange ==
    ASSUME SpTypeOK, NEW t \in SpThreads, NEW s \in SpSlots, NEW new \in SpBlocks \cup {SpNull},
           spShared' = [spShared EXCEPT ![t][s] = new], NEW b
    PROVE  /\ Cardinality(Vars(b)) \in Nat /\ Cardinality(Vars(b))' \in Nat
           /\ Cardinality(Vars(b))' = (Cardinality(Vars(b)) - Is(spShared[t][s], b)) + Is(new, b)
<1> DEFINE S == Vars(b)
           T == Vars(b)'
           x == <<t, s>>
<1>1. /\ spShared'[t][s] = new
      /\ \A u \in SpThreads, r \in SpSlots : u # t \/ r # s => spShared'[u][r] = spShared[u][r]
  BY DEF SpTypeOK
<1>2. \A p \in SpThreads \X SpSlots : p # x => p[1] # t \/ p[2] # s
  OBVIOUS
<1>3. \A p : p # x => (p \in S <=> p \in T)
  BY <1>1, <1>2 DEF Vars
<1>4. (x \in S <=> spShared[t][s] = b) /\ (x \in T <=> new = b)
  BY <1>1 DEF Vars
<1>5. IsFiniteSet(S)
  BY FiniteSets
<1> HIDE DEF S, T, x
<1>6. /\ Cardinality(S) \in Nat /\ Cardinality(T) \in Nat
      /\ Cardinality(T) = (Cardinality(S) - One(x \in S)) + One(x \in T)
  BY <1>3, <1>5, OneDiffers
<1> QED BY <1>4, <1>6 DEF S, T, One, Is, HasWeak

\* The member of one object changes.
LEMMA MembersChange ==
    ASSUME SpTypeOK, NEW c \in SpBlocks, NEW new, spNext' = [spNext EXCEPT ![c] = new], NEW b
    PROVE  /\ Cardinality(Members(b)) \in Nat /\ Cardinality(Members(b))' \in Nat
           /\ Cardinality(Members(b))' = (Cardinality(Members(b)) - Is(spNext[c], b)) + Is(new, b)
<1> DEFINE S == Members(b)
           T == Members(b)'
<1>1. spNext'[c] = new /\ \A d \in SpBlocks : d # c => spNext'[d] = spNext[d]
  BY DEF SpTypeOK
<1>3. \A d : d # c => (d \in S <=> d \in T)
  BY <1>1 DEF Members
<1>4. (c \in S <=> spNext[c] = b) /\ (c \in T <=> new = b)
  BY <1>1 DEF Members
<1>5. IsFiniteSet(S)
  BY FiniteSets
<1> HIDE DEF S, T
<1>6. /\ Cardinality(S) \in Nat /\ Cardinality(T) \in Nat
      /\ Cardinality(T) = (Cardinality(S) - One(c \in S)) + One(c \in T)
  BY <1>3, <1>5, OneDiffers
<1> QED BY <1>4, <1>6 DEF S, T, One, Is, HasWeak

\* One thread's weak pointer changes, or is counted.
LEMMA WeakVarsChange ==
    ASSUME NEW t \in SpThreads, NEW b,
           \A u \in SpThreads : u # t => /\ spWeakPtr'[u] = spWeakPtr[u]
                                         /\ Doing(u, "weak_add_ref")' <=> Doing(u, "weak_add_ref")
    PROVE  /\ Cardinality(WeakVars(b)) \in Nat /\ Cardinality(WeakVars(b))' \in Nat
           /\ Cardinality(WeakVars(b))' =
                 (Cardinality(WeakVars(b)) - HasWeak(t, b))
                   + HasWeak(t, b)'
<1> DEFINE S == WeakVars(b)
           T == WeakVars(b)'
<1>3. \A u : u # t => (u \in S <=> u \in T)
  BY DEF WeakVars
<1>4. /\ t \in S <=> spWeakPtr[t] = b /\ ~Doing(t, "weak_add_ref")
      /\ t \in T <=> (spWeakPtr[t] = b /\ ~Doing(t, "weak_add_ref"))'
  BY DEF WeakVars
<1>5. IsFiniteSet(S)
  BY FiniteSets
<1> HIDE DEF S, T
<1>6. /\ Cardinality(S) \in Nat /\ Cardinality(T) \in Nat
      /\ Cardinality(T) = (Cardinality(S) - One(t \in S)) + One(t \in T)
  BY <1>3, <1>5, OneDiffers
<1> QED BY <1>4, <1>6 DEF S, T, One, Is, HasWeak

\* Of the references to a block that there are, one at least is counted.
LEMMA RefsExceedCopies ==
    SpTypeOK /\ FinitePending /\ (\A t \in SpThreads : CopiesHeld(t)) =>
        \A b \in SpBlocks : Refs(b) > 0 => Busy("add_ref_copy", b) < Refs(b)
<1> SUFFICES ASSUME SpTypeOK, FinitePending, NEW b \in SpBlocks,
                    \A t \in SpThreads : CopiesHeld(t), Refs(b) > 0
             PROVE  Busy("add_ref_copy", b) < Refs(b)
  OBVIOUS
<1> DEFINE D == Doers("add_ref_copy", b)
<1>1. /\ IsFiniteSet(Vars(b)) /\ Cardinality(Vars(b)) \in Nat /\ Cardinality(Members(b)) \in Nat
      /\ Busy("add_ref_copy", b) \in Nat /\ IsFiniteSet(D)
  BY FiniteSets
<1>2. Pending("release", b) \in Nat
  BY FS_CardinalityType DEF FinitePending, Ops, Pending
<1>3. CASE D = {}
  <2>1. Busy("add_ref_copy", b) = 0
    BY <1>3, FS_EmptySet DEF Busy
  <2> QED BY <2>1
<1>4. CASE D # {}
  <2> DEFINE Slot(t) == CHOOSE s \in SpSlots :
                /\ spShared[t][s] = b
                /\ \/ \E r \in SpSlots \ {s} : spShared[t][r] = b
                   \/ /\ 2 \in 1 .. Len(spWork[t]) /\ spWork[t][2].op = "release"
                      /\ spNext[spWork[t][2].b] = b
             f == [t \in D |-> <<t, Slot(t)>>]
  <2>1. \A t \in D : /\ t \in SpThreads /\ Slot(t) \in SpSlots /\ spShared[t][Slot(t)] = b
                     /\ \/ \E r \in SpSlots \ {Slot(t)} : spShared[t][r] = b
                        \/ /\ 2 \in 1 .. Len(spWork[t]) /\ spWork[t][2].op = "release"
                           /\ spNext[spWork[t][2].b] = b
    <3> TAKE t \in D
    <3>1. t \in SpThreads /\ Doing(t, "add_ref_copy") /\ Blk(t) = b
      BY DEF Doers, On
    <3>2. \E s \in SpSlots : /\ spShared[t][s] = b
                             /\ \/ \E r \in SpSlots \ {s} : spShared[t][r] = b
                                \/ /\ 2 \in 1 .. Len(spWork[t]) /\ spWork[t][2].op = "release"
                                   /\ spNext[spWork[t][2].b] = b
      BY <3>1 DEF CopiesHeld
    <3> QED BY <3>1, <3>2
  <2> HIDE DEF Slot
  <2>2. f \in Injection(D, Vars(b))
    BY <2>1 DEF Injection, IsInjective, Vars
  <2>3. /\ Cardinality(D) <= Cardinality(Vars(b))
        /\ Cardinality(D) = Cardinality(Vars(b)) => f \in Surjection(D, Vars(b))
    <3> HIDE DEF f, D
    <3> QED BY <2>2, <1>1, FS_Injection
  <2>4. PICK t \in D : TRUE
    BY <1>4
  <2>5. CASE \E r \in SpSlots \ {Slot(t)} : spShared[t][r] = b
    <3>1. PICK r \in SpSlots : r # Slot(t) /\ spShared[t][r] = b
      BY <2>5
    <3>2. <<t, r>> \in Vars(b)
      BY <2>1, <3>1 DEF Vars
    <3>3. \A u \in D : f[u] # <<t, r>>
      BY <3>1
    <3>4. f \notin Surjection(D, Vars(b))
      BY <3>2, <3>3 DEF Surjection
    <3> QED BY <2>3, <3>4, <1>1, <1>2 DEF Refs, Busy
  <2>6. CASE /\ 2 \in 1 .. Len(spWork[t]) /\ spWork[t][2].op = "release"
             /\ spNext[spWork[t][2].b] = b
    <3>1. spWork[t][2].b \in Members(b)
      <4>1. spWork[t] \in Seq(TaskType)
        BY <2>1 DEF SpTypeOK
      <4>2. spWork[t][2] \in TaskType
        BY <2>6, <4>1
      <4> QED BY <2>6, <4>2 DEF TaskType, Members
    <3>2. Cardinality(Members(b)) > 0
      BY <3>1, SomeOrNone, FiniteSets
    <3> QED BY <2>3, <3>2, <1>1, <1>2 DEF Refs, Busy
  <2> QED BY <2>1, <2>5, <2>6
<1> QED BY <1>3, <1>4

\* A pending task counts.
LEMMA Pended ==
    ASSUME SpTypeOK, NEW t \in SpThreads, NEW i \in 1 .. Len(spWork[t]),
           IsFiniteSet(PendingIn(spWork, spWork[t][i].op, spWork[t][i].b))
    PROVE  Pending(spWork[t][i].op, spWork[t][i].b) > 0
<1> DEFINE op == spWork[t][i].op
           b == spWork[t][i].b
           L == Len(spWork[t])
           p == <<t, L + 1 - i>>
<1>1. spWork[t] \in Seq(TaskType)
  BY DEF SpTypeOK
<1>2. L \in Nat /\ i \in Nat /\ 1 <= i /\ i <= L
  BY <1>1
<1>3. L + 1 - i \in Nat \ {0} /\ L + 1 - i <= L /\ L + 1 - (L + 1 - i) = i
  BY <1>2
<1>4. p \in PendingIn(spWork, op, b)
  BY <1>3 DEF PendingIn
<1> QED BY <1>4, SomeOrNone DEF Pending

\* What is known of a thread that does something
LEMMA AtHand ==
    ASSUME SpTypeOK, NEW t \in SpThreads, NEW op, Doing(t, op)
    PROVE  /\ spWork[t] \in Seq(TaskType) /\ 1 \in 1 .. Len(spWork[t]) /\ spWork[t][1] = Head(spWork[t])
           /\ Head(spWork[t]) \in TaskType /\ Blk(t) \in SpBlocks
           /\ Head(spWork[t]).op = op /\ op \in Ops /\ On(t, op, Blk(t))
           /\ Busy(op, Blk(t)) > 0
<1>1. spWork[t] \in Seq(TaskType) /\ spWork[t] # <<>>
  BY DEF SpTypeOK, Doing
<1>2. Head(spWork[t]) \in TaskType /\ 1 \in 1 .. Len(spWork[t]) /\ spWork[t][1] = Head(spWork[t])
  BY <1>1
<1>3. Head(spWork[t]).op = op /\ op \in Ops /\ Blk(t) \in SpBlocks /\ On(t, op, Blk(t))
  BY <1>2 DEF Doing, Blk, On, TaskType
<1>4. t \in Doers(op, Blk(t))
  BY <1>3 DEF Doers
<1>5. Busy(op, Blk(t)) > 0
  BY <1>4, SomeOrNone, FiniteSets DEF Busy
<1> QED BY <1>1, <1>2, <1>3, <1>5

\* The task at hand gives way to w, or an operation w begins.
Takes(t, w) == \/ spWork[t] # <<>> /\ Continue(t, w)
               \/ spWork[t] = <<>> /\ spWork' = [spWork EXCEPT ![t] = w]

\* What an operation of at most two tasks leaves of a thread's work
WorkDone(t, w) ==
    /\ spWork' \in [SpThreads -> Seq(TaskType)]
    /\ ReleasesLast' /\ FinitePending'
    /\ \A u \in SpThreads : u # t => spWork'[u] = spWork[u]
    /\ w = <<>> /\ spWork'[t] # <<>> => Head(spWork'[t]).op \in {"release", "weak_release"}
    /\ w # <<>> => spWork'[t] # <<>> /\ Head(spWork'[t]) = w[1]
    /\ 2 \in DOMAIN w => 2 \in 1 .. Len(spWork'[t]) /\ spWork'[t][2] = w[2]
    /\ \A op \in Ops, b \in SpBlocks :
          /\ Pending(op, b) \in Nat /\ Pending(op, b)' \in Nat
          /\ Pending(op, b)' = (Pending(op, b) - Now(t, op, b)) + HitsIn(w, op, b)
    /\ \A op \in Ops \ {"release", "weak_release"}, b \in SpBlocks :
          /\ Busy(op, b) \in Nat /\ Busy(op, b)' \in Nat
          /\ Busy(op, b)' = (Busy(op, b) - Now(t, op, b))
                              + (IF w # <<>> THEN Hit(w[1], op, b) ELSE 0)

\* What a step leaves on the stack of its thread and how that is counted
LEMMA WorkIsDone ==
    ASSUME SpTypeOK, ReleasesLast, FinitePending, NEW t \in SpThreads, NEW w \in Seq(TaskType),
           Len(w) <= 2, 2 \in DOMAIN w => w[2].op \in {"release", "weak_release"},
           Takes(t, w)
    PROVE  WorkDone(t, w)
<1>0. spWork \in [SpThreads -> Seq(TaskType)] /\ spWork[t] \in Seq(TaskType)
  BY DEF SpTypeOK
<1> DEFINE rest == IF spWork[t] = <<>> THEN <<>> ELSE Tail(spWork[t])
<1>v. PICK v : v = w \o rest
  OBVIOUS
<1>1. rest \in Seq(TaskType) /\ \A i \in 1 .. Len(rest) : rest[i].op \in {"release", "weak_release"}
  <2>1. CASE spWork[t] = <<>>
    BY <2>1
  <2>2. CASE spWork[t] # <<>>
    <3>1. /\ rest \in Seq(TaskType) /\ Len(spWork[t]) = Len(rest) + 1 /\ Len(rest) \in Nat
          /\ \A i \in 1 .. Len(rest) : rest[i] = spWork[t][i + 1]
      BY <1>0, <2>2
    <3>2. \A i \in 1 .. Len(rest) : i + 1 \in 2 .. Len(spWork[t])
      BY <3>1
    <3> QED BY <3>1, <3>2 DEF ReleasesLast
  <2> QED BY <2>1, <2>2
<1>2. spWork' = [spWork EXCEPT ![t] = v]
  <2>1. CASE spWork[t] = <<>>
    BY <2>1, <1>v, ConcatEmptySeq DEF Takes
  <2>2. CASE spWork[t] # <<>>
    BY <2>2, <1>v DEF Continue, Takes
  <2> QED BY <2>1, <2>2
<1> HIDE DEF rest
<1>3. /\ v \in Seq(TaskType) /\ Len(v) = Len(w) + Len(rest) /\ Len(w) \in Nat /\ Len(rest) \in Nat
      /\ \A i \in 1 .. Len(v) : v[i] = IF i <= Len(w) THEN w[i] ELSE rest[i - Len(w)]
  BY <1>v, <1>1, ConcatProperties, LenProperties
<1>4. spWork' \in [SpThreads -> Seq(TaskType)] /\ spWork'[t] = v
      /\ \A u \in SpThreads : u # t => spWork'[u] = spWork[u]
  BY <1>0, <1>2, <1>3
<1>5. ReleasesLast'
  <2> SUFFICES ASSUME NEW u \in SpThreads, NEW i \in 2 .. Len(spWork'[u])
               PROVE  spWork'[u][i].op \in {"release", "weak_release"}
    BY DEF ReleasesLast
  <2>1. CASE u # t
    BY <2>1, <1>4 DEF ReleasesLast
  <2>2. CASE u = t /\ i <= Len(w)
    <3>1. i = 2 /\ 2 \in 1 .. Len(w) /\ i \in 1 .. Len(v)
      BY <1>3, <1>4, <2>2
    <3> QED BY <3>1, <2>2, <1>3, <1>4
  <2>3. CASE u = t /\ ~(i <= Len(w))
    <3>1. i - Len(w) \in 1 .. Len(rest) /\ i \in 1 .. Len(v)
      BY <1>3, <1>4, <2>3
    <3> QED BY <3>1, <2>3, <1>1, <1>3, <1>4
  <2> QED BY <2>1, <2>2, <2>3
<1>6. /\ w = <<>> /\ v # <<>> => Head(v).op \in {"release", "weak_release"}
      /\ w # <<>> => v # <<>> /\ Head(v) = w[1]
      /\ 2 \in DOMAIN w => 2 \in 1 .. Len(v) /\ v[2] = w[2]
  <2>1. v # <<>> => 1 \in 1 .. Len(v) /\ Head(v) = v[1]
    BY <1>3
  <2>2. w = <<>> => Len(w) = 0
    OBVIOUS
  <2>3. w # <<>> => 1 <= Len(w)
    BY <1>3
  <2>4. CASE w = <<>>
    <3>1. \A i \in 1 .. Len(v) : v[i] = rest[i] /\ i \in 1 .. Len(rest)
      BY <2>2, <2>4, <1>3
    <3> QED BY <3>1, <2>1, <2>4, <1>1
  <2>5. CASE w # <<>>
    <3>1. 1 \in 1 .. Len(v) /\ v[1] = w[1]
      BY <2>3, <2>5, <1>3
    <3>2. 2 \in DOMAIN w => 2 \in 1 .. Len(v) /\ v[2] = w[2]
      BY <1>3
    <3> QED BY <3>1, <3>2, <2>1, <2>5, <1>3
  <2> QED BY <2>4, <2>5
<1>7. ASSUME NEW op \in Ops, NEW b \in SpBlocks
      PROVE  MoreTasks(spWork', spWork, HitsIn(w, op, b) - Now(t, op, b), op, b)
  <2>0. IsFiniteSet(PendingIn(spWork, op, b))
    BY DEF FinitePending
  <2>1. CASE spWork[t] = <<>>
    <3>1. Now(t, op, b) = 0 /\ HitsIn(w, op, b) \in Nat
      BY <2>1 DEF One, Now, Is, On, Doing, HitsIn, Hit
    <3>2. HitsIn(w, op, b) - Now(t, op, b) = HitsIn(w, op, b)
      BY <3>1
    <3>3. spWork' = [spWork EXCEPT ![t] = w \o spWork[t]]
      BY <2>1, <1>v, <1>2 DEF rest
    <3>4. MoreTasks(spWork', spWork, HitsIn(w, op, b), op, b)
      BY <1>0, <2>0, <3>3, WorkPushed
    <3> QED BY <3>2, <3>4
  <2>2. CASE spWork[t] # <<>>
    <3>1. Now(t, op, b) = Hit(Head(spWork[t]), op, b)
      BY <2>2 DEF One, Now, Is, On, Doing, Blk, Hit
    <3>2. spWork' = [spWork EXCEPT ![t] = w \o Tail(spWork[t])]
      BY <2>2, <1>v, <1>2 DEF rest
    <3>3. MoreTasks(spWork', spWork, HitsIn(w, op, b) - Hit(Head(spWork[t]), op, b), op, b)
      BY <1>0, <2>0, <2>2, <3>2, WorkReplaced
    <3> QED BY <3>1, <3>3
  <2> QED BY <2>1, <2>2
<1>8. FinitePending'
  BY <1>7 DEF MoreTasks, FinitePending
<1>9. ASSUME NEW op \in Ops, NEW b \in SpBlocks
      PROVE  /\ Pending(op, b) \in Nat /\ Pending(op, b)' \in Nat
             /\ Pending(op, b)' = (Pending(op, b) - Now(t, op, b)) + HitsIn(w, op, b)
  <2>1. Now(t, op, b) \in Nat /\ HitsIn(w, op, b) \in Nat
    BY DEF One, Now, Is, HitsIn, Hit
  <2> QED BY <1>7, <2>1 DEF MoreTasks, Pending
<1>10. ASSUME NEW op \in Ops \ {"release", "weak_release"}, NEW b \in SpBlocks
       PROVE  /\ Busy(op, b) \in Nat /\ Busy(op, b)' \in Nat
              /\ Busy(op, b)' = (Busy(op, b) - Now(t, op, b))
                                  + (IF w # <<>> THEN Hit(w[1], op, b) ELSE 0)
  <2>1. /\ Busy(op, b) \in Nat /\ Busy(op, b)' \in Nat
        /\ Busy(op, b)' = (Busy(op, b) - Now(t, op, b))
                            + (IF v # <<>> THEN Hit(Head(v), op, b) ELSE 0)
    BY <1>4, DoersChange
  <2>2. (IF v # <<>> THEN Hit(Head(v), op, b) ELSE 0) = (IF w # <<>> THEN Hit(w[1], op, b) ELSE 0)
    BY <1>6 DEF One, Now, Is, Hit
  <2> QED BY <2>1, <2>2
<1> QED BY <1>4, <1>5, <1>6, <1>8, <1>9, <1>10 DEF WorkDone

\* The counts are numbers, and whoever refers to a block is counted.
LEMMA BlockCounted ==
    ASSUME SpTypeOK, FinitePending, NEW b \in SpBlocks
    PROVE  /\ Cardinality(Vars(b)) \in Nat /\ Cardinality(Members(b)) \in Nat
           /\ Cardinality(WeakVars(b)) \in Nat
           /\ Pending("release", b) \in Nat /\ Pending("weak_release", b) \in Nat
           /\ Refs(b) \in Nat /\ WeakRefs(b) \in Nat
           /\ Busy("add_ref_copy", b) \in Nat /\ Busy("undo", b) \in Nat
           /\ Busy("dispose", b) \in Nat /\ Busy("destroy", b) \in Nat
           /\ spCount[b].use \in Int /\ spCount[b].weak \in Int
           /\ \A t \in SpThreads, s \in SpSlots : spShared[t][s] = b => Refs(b) > 0
           /\ \A c \in SpBlocks : spNext[c] = b => Refs(b) > 0
           /\ \A t \in SpThreads : spWeakPtr[t] = b /\ ~Doing(t, "weak_add_ref") => WeakRefs(b) > 0
           /\ \A t \in SpThreads : \A i \in 1 .. Len(spWork[t]) : spWork[t][i].b = b =>
                 /\ spWork[t][i].op = "release" => Refs(b) > 0
                 /\ spWork[t][i].op = "weak_release" => WeakRefs(b) > 0
<1>1. /\ IsFiniteSet(Vars(b)) /\ IsFiniteSet(Members(b)) /\ IsFiniteSet(WeakVars(b))
      /\ Cardinality(Vars(b)) \in Nat /\ Cardinality(Members(b)) \in Nat
      /\ Cardinality(WeakVars(b)) \in Nat
      /\ \A op : Busy(op, b) \in Nat
  BY FiniteSets
<1>2. /\ IsFiniteSet(PendingIn(spWork, "release", b)) /\ IsFiniteSet(PendingIn(spWork, "weak_release", b))
  BY DEF FinitePending, Ops
<1>3. Pending("release", b) \in Nat /\ Pending("weak_release", b) \in Nat
  BY <1>2, FS_CardinalityType DEF Pending
<1>4. Refs(b) \in Nat /\ WeakRefs(b) \in Nat
  BY <1>1, <1>3 DEF Refs, WeakRefs
<1>5. spCount[b].use \in Int /\ spCount[b].weak \in Int
  BY DEF SpTypeOK
<1>6. ASSUME NEW t \in SpThreads, NEW s \in SpSlots, spShared[t][s] = b PROVE Refs(b) > 0
  <2>1. <<t, s>> \in Vars(b)
    BY <1>6 DEF Vars
  <2>2. Cardinality(Vars(b)) > 0
    BY <2>1, <1>1, SomeOrNone
  <2> QED BY <2>2, <1>1, <1>3 DEF Refs
<1>7. ASSUME NEW c \in SpBlocks, spNext[c] = b PROVE Refs(b) > 0
  <2>1. c \in Members(b)
    BY <1>7 DEF Members
  <2>2. Cardinality(Members(b)) > 0
    BY <2>1, <1>1, SomeOrNone
  <2> QED BY <2>2, <1>1, <1>3 DEF Refs
<1>8. ASSUME NEW t \in SpThreads, spWeakPtr[t] = b, ~Doing(t, "weak_add_ref") PROVE WeakRefs(b) > 0
  <2>1. t \in WeakVars(b)
    BY <1>8 DEF WeakVars
  <2>2. Cardinality(WeakVars(b)) > 0
    BY <2>1, <1>1, SomeOrNone
  <2> QED BY <2>2, <1>1, <1>3 DEF WeakRefs
<1>9. ASSUME NEW t \in SpThreads, NEW i \in 1 .. Len(spWork[t]), spWork[t][i].b = b
      PROVE  /\ spWork[t][i].op = "release" => Refs(b) > 0
             /\ spWork[t][i].op = "weak_release" => WeakRefs(b) > 0
  <2>1. ASSUME spWork[t][i].op = "release" PROVE Pending("release", b) > 0
    BY <2>1, <1>2, <1>9, Pended
  <2>2. ASSUME spWork[t][i].op = "weak_release" PROVE Pending("weak_release", b) > 0
    BY <2>2, <1>2, <1>9, Pended
  <2> QED BY <2>1, <2>2, <1>1, <1>3 DEF Refs, WeakRefs
<1> QED BY <1>1, <1>3, <1>4, <1>5, <1>6, <1>7, <1>8, <1>9

\* A thread that a step leaves alone, or that does nothing, keeps what it holds.
LEMMA Undisturbed ==
    ASSUME SpInv, NEW u \in SpThreads, spWork'[u] = spWork[u], spPolicy' = spPolicy,
           SpIdle(u) \/ (spShared'[u] = spShared[u] /\ spWeakPtr'[u] = spWeakPtr[u]),
           \A c \in SpBlocks : Refs(c) > 0 => spNext'[c] = spNext[c]
    PROVE  CopiesHeld(u)' /\ WeakCopiesHeld(u)' /\ LocksHeld(u)'
<1>0. SpTypeOK /\ FinitePending /\ CopiesHeld(u) /\ WeakCopiesHeld(u) /\ LocksHeld(u)
  BY DEF SpInv, WorkSound
<1>1. CASE SpIdle(u)
  BY <1>1 DEF SpIdle, CopiesHeld, WeakCopiesHeld, LocksHeld, Doing
<1>2. CASE ~SpIdle(u)
  <2>1. spShared'[u] = spShared[u] /\ spWeakPtr'[u] = spWeakPtr[u]
    BY <1>2
  <2>2. WeakCopiesHeld(u)' /\ LocksHeld(u)'
    BY <1>0, <2>1 DEF WeakCopiesHeld, LocksHeld, Doing, Blk
  <2>3. ASSUME 2 \in 1 .. Len(spWork[u]), spWork[u][2].op = "release"
        PROVE  spNext'[spWork[u][2].b] = spNext[spWork[u][2].b]
    <3>1. spWork[u] \in Seq(TaskType)
      BY <1>0 DEF SpTypeOK
    <3>2. spWork[u][2].b \in SpBlocks
      <4>1. spWork[u][2] \in TaskType
        BY <2>3, <3>1
      <4> QED BY <4>1 DEF TaskType
    <3>3. Refs(spWork[u][2].b) > 0
      BY <1>0, <2>3, <3>2, BlockCounted
    <3> QED BY <3>2, <3>3
  <2>4. CopiesHeld(u)'
    BY <1>0, <2>1, <2>3 DEF CopiesHeld, Doing, Blk
  <2> QED BY <2>2, <2>4
<1> QED BY <1>1, <1>2

\* What a thread does after a step
LEMMA DoesNext ==
    ASSUME NEW t \in SpThreads, NEW w, WorkDone(t, w), NEW op, Doing(t, op)'
    PROVE  \/ op \in {"release", "weak_release"}
           \/ w # <<>> /\ w[1].op = op /\ Blk(t)' = w[1].b /\ Head(spWork'[t]) = w[1]
BY DEF WorkDone, Doing, Blk

\* A step that is not part of a lock under the mutex leaves the mutexes right.
LEMMA SameMutex ==
    ASSUME SpInv, NEW t \in SpThreads, NEW w, WorkDone(t, w), UNCHANGED spMutex,
           ~Doing(t, "undo"), w # <<>> => w[1].op # "undo"
    PROVE  MutexSound'
<1>1. ~Doing(t, "undo")'
  BY DoesNext
<1>2. \A b \in SpBlocks, u \in SpThreads : On(u, "undo", b)' <=> On(u, "undo", b)
  BY <1>1 DEF On, Doing, Blk, WorkDone
<1> QED BY <1>2 DEF SpInv, MutexSound

\* Sets that a step leaves alone
LEMMA Unmoved ==
    ASSUME NEW b
    PROVE  /\ UNCHANGED spShared => Cardinality(Vars(b))' = Cardinality(Vars(b))
           /\ UNCHANGED spNext => Cardinality(Members(b))' = Cardinality(Members(b))
BY DEF Vars, Members

\* A step that changes no weak pointer leaves their number.
LEMMA WeakUnmoved ==
    ASSUME SpInv, NEW t \in SpThreads, NEW w, WorkDone(t, w), UNCHANGED spWeakPtr,
           ~Doing(t, "weak_add_ref"), w # <<>> => w[1].op # "weak_add_ref", NEW b
    PROVE  Cardinality(WeakVars(b))' = Cardinality(WeakVars(b))
<1>1. ~Doing(t, "weak_add_ref")'
  BY DoesNext
<1>2. \A u \in SpThreads : Doing(u, "weak_add_ref")' <=> Doing(u, "weak_add_ref")
  BY <1>1 DEF Doing, WorkDone
<1>3. WeakVars(b)' = WeakVars(b)
  BY <1>2 DEF WeakVars
<1> QED BY <1>3

\* What the use count says
LEMMA UseCount ==
    ASSUME SpInv, NEW b \in SpBlocks
    PROVE  /\ Refs(b) > 0 => /\ Busy("add_ref_copy", b) < Refs(b) /\ Busy("undo", b) = 0
                             /\ spCount[b].use = Refs(b) - Busy("add_ref_copy", b)
           /\ Refs(b) = 0 => Busy("add_ref_copy", b) = 0 /\ spCount[b].use = Busy("undo", b)
           /\ \A t \in SpThreads : On(t, "add_ref_copy", b) => Refs(b) > 0
<1>1. SpTypeOK /\ FinitePending /\ BlockSound(b) /\ \A t \in SpThreads : CopiesHeld(t)
  BY DEF SpInv, WorkSound
<1>2. /\ Refs(b) \in Nat /\ Busy("add_ref_copy", b) \in Nat /\ Busy("undo", b) \in Nat
      /\ spCount[b].use \in Int
  BY <1>1, BlockCounted
<1>3. ASSUME NEW t \in SpThreads, On(t, "add_ref_copy", b) PROVE Refs(b) > 0
  <2>1. PICK s \in SpSlots : spShared[t][s] = b
    BY <1>1, <1>3 DEF On, CopiesHeld
  <2> QED BY <2>1, <1>1, BlockCounted
<1>4. Refs(b) = 0 => Busy("add_ref_copy", b) = 0
  <2> SUFFICES ASSUME Refs(b) = 0 PROVE Busy("add_ref_copy", b) = 0
    OBVIOUS
  <2>1. Doers("add_ref_copy", b) = {}
    BY <1>2, <1>3 DEF Doers
  <2> QED BY <2>1, FS_EmptySet DEF Busy
<1>5. Refs(b) > 0 => Busy("add_ref_copy", b) < Refs(b)
  BY <1>1, RefsExceedCopies
<1>6. /\ spCount[b].use = (Refs(b) - Busy("add_ref_copy", b)) + Busy("undo", b)
      /\ Busy("undo", b) > 0 => Refs(b) = 0
  BY <1>1 DEF BlockSound
<1> QED BY <1>2, <1>3, <1>4, <1>5, <1>6

\* A counter changes.
LEMMA UseChange ==
    ASSUME SpTypeOK, NEW c \in SpBlocks, NEW n \in Int, spCount' = [spCount EXCEPT ![c].use = n]
    PROVE  /\ spCount' \in [SpBlocks -> [use : Int, weak : Int]]
           /\ \A b \in SpBlocks : /\ spCount'[b].use = IF b = c THEN n ELSE spCount[b].use
                                  /\ spCount'[b].weak = spCount[b].weak
<1>1. spCount \in [SpBlocks -> [use : Int, weak : Int]]
  BY DEF SpTypeOK
<1>2. spCount[c] \in [use : Int, weak : Int]
  BY <1>1
<1>3. [spCount[c] EXCEPT !.use = n] \in [use : Int, weak : Int]
  BY <1>2
<1>4. spCount' = [spCount EXCEPT ![c] = [spCount[c] EXCEPT !.use = n]]
  OBVIOUS
<1>5. spCount' \in [SpBlocks -> [use : Int, weak : Int]]
  BY <1>1, <1>3, <1>4
<1>6. /\ spCount'[c] = [spCount[c] EXCEPT !.use = n]
      /\ \A b \in SpBlocks : b # c => spCount'[b] = spCount[b]
  BY <1>1, <1>4
<1>7. spCount'[c].use = n /\ spCount'[c].weak = spCount[c].weak
  BY <1>2, <1>6
<1> QED BY <1>5, <1>6, <1>7

\* The weak count of one block changes.
LEMMA WeakChange ==
    ASSUME SpTypeOK, NEW c \in SpBlocks, NEW n \in Int, spCount' = [spCount EXCEPT ![c].weak = n]
    PROVE  /\ spCount' \in [SpBlocks -> [use : Int, weak : Int]]
           /\ \A b \in SpBlocks : /\ spCount'[b].weak = IF b = c THEN n ELSE spCount[b].weak
                                  /\ spCount'[b].use = spCount[b].use
<1>1. spCount \in [SpBlocks -> [use : Int, weak : Int]]
  BY DEF SpTypeOK
<1>2. spCount[c] \in [use : Int, weak : Int]
  BY <1>1
<1>3. [spCount[c] EXCEPT !.weak = n] \in [use : Int, weak : Int]
  BY <1>2
<1>4. spCount' = [spCount EXCEPT ![c] = [spCount[c] EXCEPT !.weak = n]]
  OBVIOUS
<1>5. spCount' \in [SpBlocks -> [use : Int, weak : Int]]
  BY <1>1, <1>3, <1>4
<1>6. /\ spCount'[c] = [spCount[c] EXCEPT !.weak = n]
      /\ \A b \in SpBlocks : b # c => spCount'[b] = spCount[b]
  BY <1>1, <1>4
<1>7. spCount'[c].weak = n /\ spCount'[c].use = spCount[c].use
  BY <1>2, <1>6
<1> QED BY <1>5, <1>6, <1>7

\* The tasks that a step adds to those of a kind, and the threads that begin to do it
Added(t, w, op, b) == HitsIn(w, op, b) - Now(t, op, b)
Begun(t, w, op, b) == (IF w # <<>> THEN Hit(w[1], op, b) ELSE 0) - Now(t, op, b)

\* The tasks of operations of at most two, by kind
LEMMA Tally ==
    ASSUME NEW t, NEW op, NEW b
    PROVE  /\ Now(t, op, b) \in {0, 1}
           /\ Added(t, <<>>, op, b) = -Now(t, op, b)
           /\ Begun(t, <<>>, op, b) = -Now(t, op, b)
           /\ \A x : /\ Added(t, <<x>>, op, b) = Hit(x, op, b) - Now(t, op, b)
                     /\ Begun(t, <<x>>, op, b) = Hit(x, op, b) - Now(t, op, b)
           /\ \A x, y : /\ Added(t, <<x, y>>, op, b) = (Hit(x, op, b) + Hit(y, op, b)) - Now(t, op, b)
                        /\ Begun(t, <<x, y>>, op, b) = Hit(x, op, b) - Now(t, op, b)
<1>1. Now(t, op, b) \in {0, 1}
  BY DEF One, Now, Is
<1>2. HitsIn(<<>>, op, b) = 0
  BY DEF HitsIn
<1>3. ASSUME NEW x PROVE HitsIn(<<x>>, op, b) = Hit(x, op, b) /\ <<x>> # <<>> /\ <<x>>[1] = x
  <2>1. Hit(x, op, b) \in {0, 1}
    BY DEF Hit, One
  <2> QED BY <2>1 DEF HitsIn
<1>4. ASSUME NEW x, NEW y
      PROVE  HitsIn(<<x, y>>, op, b) = Hit(x, op, b) + Hit(y, op, b) /\ <<x, y>> # <<>> /\ <<x, y>>[1] = x
  BY DEF HitsIn
<1> QED BY <1>1, <1>2, <1>3, <1>4 DEF Added, Begun

\* How a step changes the counts that depend on the work of a thread
LEMMA Worked ==
    ASSUME SpTypeOK, FinitePending, NEW t \in SpThreads, NEW w, WorkDone(t, w), NEW b \in SpBlocks
    PROVE  /\ Pending("release", b)' = Pending("release", b) + Added(t, w, "release", b)
           /\ Pending("weak_release", b)' = Pending("weak_release", b) + Added(t, w, "weak_release", b)
           /\ Busy("add_ref_copy", b)' = Busy("add_ref_copy", b) + Begun(t, w, "add_ref_copy", b)
           /\ Busy("undo", b)' = Busy("undo", b) + Begun(t, w, "undo", b)
           /\ Busy("dispose", b)' = Busy("dispose", b) + Begun(t, w, "dispose", b)
           /\ Busy("destroy", b)' = Busy("destroy", b) + Begun(t, w, "destroy", b)
<1>1. ASSUME NEW op \in {"release", "weak_release"}
      PROVE  Pending(op, b)' = Pending(op, b) + Added(t, w, op, b)
  <2>1. /\ Pending(op, b) \in Nat
        /\ Pending(op, b)' = (Pending(op, b) - Now(t, op, b)) + HitsIn(w, op, b)
    BY DEF WorkDone, Ops
  <2>2. Now(t, op, b) \in Nat /\ HitsIn(w, op, b) \in Nat
    BY DEF Now, HitsIn, Hit, One
  <2> QED BY <2>1, <2>2 DEF Added
<1>2. ASSUME NEW op \in {"add_ref_copy", "undo", "dispose", "destroy"}
      PROVE  Busy(op, b)' = Busy(op, b) + Begun(t, w, op, b)
  <2> DEFINE h == IF w # <<>> THEN Hit(w[1], op, b) ELSE 0
  <2>1. Busy(op, b) \in Nat /\ Busy(op, b)' = (Busy(op, b) - Now(t, op, b)) + h
    BY DEF WorkDone, Ops
  <2>2. Now(t, op, b) \in Nat /\ h \in Nat
    BY DEF Now, Hit, One
  <2>3. Begun(t, w, op, b) = h - Now(t, op, b)
    BY DEF Begun
  <2> HIDE DEF h
  <2> QED BY <2>1, <2>2, <2>3
<1> QED BY <1>1, <1>2

\* How a step changes the numbers that BlockSound is about
Recount(b, r, wr, a, u, d, x) ==
    /\ Refs(b) \in Nat /\ Refs(b)' \in Nat /\ Refs(b)' = Refs(b) + r
    /\ WeakRefs(b) \in Nat /\ WeakRefs(b)' \in Nat /\ WeakRefs(b)' = WeakRefs(b) + wr
    /\ Busy("add_ref_copy", b) \in Nat /\ Busy("add_ref_copy", b)' \in Nat
    /\ Busy("add_ref_copy", b)' = Busy("add_ref_copy", b) + a
    /\ Busy("undo", b) \in Nat /\ Busy("undo", b)' \in Nat
    /\ Busy("undo", b)' = Busy("undo", b) + u
    /\ Busy("dispose", b) \in Nat /\ Busy("dispose", b)' \in Nat
    /\ Busy("dispose", b)' = Busy("dispose", b) + d
    /\ Busy("destroy", b) \in Nat /\ Busy("destroy", b)' \in Nat
    /\ Busy("destroy", b)' = Busy("destroy", b) + x
    /\ spCount[b].use \in Int /\ spCount[b].weak \in Int

FiniteCounts ==
    \A b \in SpBlocks : /\ Cardinality(Vars(b)) \in Nat /\ Cardinality(Members(b)) \in Nat
                        /\ Cardinality(WeakVars(b)) \in Nat

\* The counts are numbers ...
LEMMA FiniteNow == FiniteCounts
BY FiniteSets DEF FiniteCounts

\* ... after a step, too.
LEMMA FiniteThen == FiniteCounts'
BY FiniteNow, PTL

\* The references to a block change by what its variables, members and tasks change.
LEMMA Recounted ==
    ASSUME SpInv, NEW t \in SpThreads, NEW w, WorkDone(t, w), NEW b \in SpBlocks,
           NEW dv \in Int, Cardinality(Vars(b))' = Cardinality(Vars(b)) + dv,
           NEW dm \in Int, Cardinality(Members(b))' = Cardinality(Members(b)) + dm,
           NEW dw \in Int, Cardinality(WeakVars(b))' = Cardinality(WeakVars(b)) + dw,
           NEW r \in Int, NEW wr \in Int, NEW a, NEW u, NEW d, NEW x,
           Added(t, w, "release", b) = r - (dv + dm), Added(t, w, "weak_release", b) = wr - dw,
           Begun(t, w, "add_ref_copy", b) = a, Begun(t, w, "undo", b) = u,
           Begun(t, w, "dispose", b) = d, Begun(t, w, "destroy", b) = x
    PROVE  Recount(b, r, wr, a, u, d, x)
<1>0. SpTypeOK /\ FinitePending
  BY DEF SpInv
<1>1. /\ Cardinality(Vars(b)) \in Nat /\ Cardinality(Members(b)) \in Nat
      /\ Cardinality(WeakVars(b)) \in Nat
      /\ Pending("release", b) \in Nat /\ Pending("weak_release", b) \in Nat
      /\ Refs(b) \in Nat /\ WeakRefs(b) \in Nat
      /\ spCount[b].use \in Int /\ spCount[b].weak \in Int
  BY <1>0, BlockCounted
<1>2. /\ Cardinality(Vars(b))' \in Nat /\ Cardinality(Members(b))' \in Nat
      /\ Cardinality(WeakVars(b))' \in Nat
  BY FiniteThen DEF FiniteCounts
<1>3. /\ Pending("release", b)' \in Nat /\ Pending("weak_release", b)' \in Nat
      /\ \A op \in {"add_ref_copy", "undo", "dispose", "destroy"} :
            Busy(op, b) \in Nat /\ Busy(op, b)' \in Nat
  BY DEF WorkDone, Ops
<1>4. /\ Pending("release", b)' = Pending("release", b) + (r - (dv + dm))
      /\ Pending("weak_release", b)' = Pending("weak_release", b) + (wr - dw)
      /\ Busy("add_ref_copy", b)' = Busy("add_ref_copy", b) + a
      /\ Busy("undo", b)' = Busy("undo", b) + u
      /\ Busy("dispose", b)' = Busy("dispose", b) + d
      /\ Busy("destroy", b)' = Busy("destroy", b) + x
  BY <1>0, Worked
<1>5. Refs(b)' \in Nat /\ Refs(b)' = Refs(b) + r
  BY <1>1, <1>2, <1>3, <1>4 DEF Refs
<1>6. WeakRefs(b)' \in Nat /\ WeakRefs(b)' = WeakRefs(b) + wr
  BY <1>1, <1>2, <1>3, <1>4 DEF WeakRefs
<1> QED BY <1>1, <1>3, <1>4, <1>5, <1>6 DEF Recount

\* What a step of one thread has to keep
LEMMA StepHolds ==
    ASSUME SpInv, NEW t \in SpThreads, NEW w, WorkDone(t, w), UNCHANGED spPolicy,
           /\ spCount' \in [SpBlocks -> [use : Int, weak : Int]]
           /\ spState' \in [SpBlocks -> {"free", "live", "disposed"}]
           /\ spNext' \in [SpBlocks -> SpBlocks \cup {SpNull}]
           /\ spMutex' \in [SpBlocks -> SpThreads \cup {SpNull}]
           /\ spShared' \in [SpThreads -> [SpSlots -> SpBlocks \cup {SpNull}]]
           /\ spWeakPtr' \in [SpThreads -> SpBlocks \cup {SpNull}],
           \A u \in SpThreads : u # t => spShared'[u] = spShared[u] /\ spWeakPtr'[u] = spWeakPtr[u],
           \A c \in SpBlocks : Refs(c) > 0 => spNext'[c] = spNext[c],
           (CopiesHeld(t) /\ WeakCopiesHeld(t) /\ LocksHeld(t))'
    PROVE  SpTypeOK' /\ WorkSound' /\ FinitePending'
<1>1. SpTypeOK'
  BY DEF SpInv, SpTypeOK, WorkDone
<1>2. WorkSound'
  <2> SUFFICES ASSUME NEW u \in SpThreads PROVE (CopiesHeld(u) /\ WeakCopiesHeld(u) /\ LocksHeld(u))'
    BY DEF WorkSound, WorkDone
  <2>1. CASE u # t
    BY <2>1, Undisturbed DEF WorkDone
  <2>2. CASE u = t
    BY <2>2
  <2> QED BY <2>1, <2>2
<1> QED BY <1>1, <1>2 DEF WorkDone

\* Releasing takes nothing that a thread has to hold.
LEMMA HoldsNothing ==
    ASSUME NEW t \in SpThreads, NEW w, WorkDone(t, w),
           w # <<>> => w[1].op \in {"release", "weak_release", "dispose", "destroy"}
    PROVE  (CopiesHeld(t) /\ WeakCopiesHeld(t) /\ LocksHeld(t))'
<1>1. \A op : Doing(t, op)' => op \in {"release", "weak_release", "dispose", "destroy"}
  BY DoesNext
<1> QED BY <1>1 DEF CopiesHeld, WeakCopiesHeld, LocksHeld

\* _M_add_ref_copy keeps the invariant: the reference it counts was there before.
LEMMA AddRefCopyKeeps ==
    ASSUME SpInv, NEW t \in SpThreads, _M_add_ref_copy(t)
    PROVE  SpInv'
<1>1. SpTypeOK /\ ReleasesLast /\ FinitePending
  BY DEF SpInv, WorkSound
<1>2. Doing(t, "add_ref_copy") /\ spWork[t] # <<>>
  BY DEF _M_add_ref_copy, Doing
<1>3. PICK c \in SpBlocks : c = Blk(t)
  BY <1>1, <1>2, AtHand
<1>4. \A op, b : Now(t, op, b) = IF op = "add_ref_copy" /\ b = c THEN 1 ELSE 0
  BY <1>2, <1>3 DEF On, Doing, Now
<1>5. WorkDone(t, <<>>)
  <2>1. Takes(t, <<>>)
    BY <1>2 DEF _M_add_ref_copy, Takes
  <2>2. <<>> \in Seq(TaskType) /\ Len(<<>>) <= 2 /\ 2 \notin DOMAIN <<>>
    OBVIOUS
  <2> QED BY <1>1, <2>1, <2>2, WorkIsDone
<1>6. /\ spCount' \in [SpBlocks -> [use : Int, weak : Int]]
      /\ \A b \in SpBlocks :
            /\ spCount'[b].use = IF b = c THEN spCount[c].use + 1 ELSE spCount[b].use
            /\ spCount'[b].weak = spCount[b].weak
  <2>1. spCount' = [spCount EXCEPT ![c].use = spCount[c].use + 1]
    BY <1>3 DEF _M_add_ref_copy
  <2>2. spCount[c].use + 1 \in Int
    BY <1>1, BlockCounted
  <2> QED BY <1>1, <2>1, <2>2, UseChange
<1>7. MutexSound'
  BY <1>2, <1>5, SameMutex DEF _M_add_ref_copy, Doing
<1>8. ASSUME NEW b \in SpBlocks PROVE BlockSound(b)'
  <2>1. Recount(b, 0, 0, -Is(b, c), 0, 0, 0)
    <3>1. /\ Cardinality(Vars(b))' = Cardinality(Vars(b)) + 0
          /\ Cardinality(Members(b))' = Cardinality(Members(b)) + 0
          /\ Cardinality(WeakVars(b))' = Cardinality(WeakVars(b)) + 0
      <4>1. /\ Cardinality(Vars(b))' = Cardinality(Vars(b))
            /\ Cardinality(Members(b))' = Cardinality(Members(b))
            /\ Cardinality(WeakVars(b))' = Cardinality(WeakVars(b))
        BY <1>2, <1>5, Unmoved, WeakUnmoved DEF _M_add_ref_copy, Doing
      <4> QED BY <4>1, FiniteNow DEF FiniteCounts
    <3>2. /\ Added(t, <<>>, "release", b) = 0 - (0 + 0) /\ Added(t, <<>>, "weak_release", b) = 0 - 0
          /\ Begun(t, <<>>, "add_ref_copy", b) = -Is(b, c) /\ Begun(t, <<>>, "undo", b) = 0
          /\ Begun(t, <<>>, "dispose", b) = 0 /\ Begun(t, <<>>, "destroy", b) = 0
      BY <1>4, Tally DEF Is
    <3> QED BY <1>5, <3>1, <3>2, Recounted
  <2>2. BlockSound(b) /\ spState' = spState /\ spNext' = spNext
    BY DEF SpInv, _M_add_ref_copy
  <2> QED BY <1>6, <2>1, <2>2 DEF Recount, BlockSound, Is
<1>9. (CopiesHeld(t) /\ WeakCopiesHeld(t) /\ LocksHeld(t))'
  BY <1>5, HoldsNothing
<1>10. SpTypeOK' /\ WorkSound' /\ FinitePending'
  BY <1>1, <1>5, <1>6, <1>9, StepHolds DEF _M_add_ref_copy, SpTypeOK
<1> QED BY <1>7, <1>8, <1>10 DEF SpInv

\* RefsExceedCopies after a step
LEMMA RefsExceedCopiesThen ==
    (SpTypeOK /\ FinitePending /\ (\A t \in SpThreads : CopiesHeld(t)) =>
        \A b \in SpBlocks : Refs(b) > 0 => Busy("add_ref_copy", b) < Refs(b))'
BY RefsExceedCopies, PTL

\* A task has its type.
LEMMA Tasks ==
    \A op \in Ops, b \in SpBlocks :
        Task(op, b) \in TaskType /\ Task(op, b).op = op /\ Task(op, b).b = b
BY DEF Task, TaskType

\* _M_release keeps the invariant: the last reference goes over into a dispose.
LEMMA ReleaseKeeps ==
    ASSUME SpInv, NEW t \in SpThreads, _M_release(t)
    PROVE  SpInv'
<1>1. SpTypeOK /\ ReleasesLast /\ FinitePending
  BY DEF SpInv, WorkSound
<1>2. Doing(t, "release") /\ spWork[t] # <<>>
  BY DEF _M_release, Doing
<1>3. PICK c \in SpBlocks : c = Blk(t)
  BY <1>1, <1>2, AtHand
<1>4. \A op, b : Now(t, op, b) = IF op = "release" /\ b = c THEN 1 ELSE 0
  BY <1>2, <1>3 DEF On, Doing, Now
<1>a. PICK w : w = IF spCount[c].use = 1 THEN <<Task("dispose", c), Task("weak_release", c)>> ELSE <<>>
  OBVIOUS
<1>5. WorkDone(t, w)
  <2>1. Takes(t, w)
    BY <1>2, <1>3, <1>a DEF _M_release, Takes
  <2>2. w \in Seq(TaskType) /\ Len(w) <= 2 /\ (2 \in DOMAIN w => w[2].op = "weak_release")
    BY <1>a, Tasks DEF Ops
  <2> QED BY <1>1, <2>1, <2>2, WorkIsDone
<1>6. /\ spCount' \in [SpBlocks -> [use : Int, weak : Int]]
      /\ \A b \in SpBlocks :
            /\ spCount'[b].use = IF b = c THEN spCount[c].use - 1 ELSE spCount[b].use
            /\ spCount'[b].weak = spCount[b].weak
  <2>1. spCount' = [spCount EXCEPT ![c].use = spCount[c].use - 1]
    BY <1>3 DEF _M_release
  <2>2. spCount[c].use - 1 \in Int
    BY <1>1, BlockCounted
  <2> QED BY <1>1, <2>1, <2>2, UseChange
<1>b. w # <<>> => w[1].op = "dispose"
  BY <1>a, Tasks DEF Ops
<1>7. MutexSound'
  BY <1>2, <1>5, <1>b, SameMutex DEF _M_release, Doing
<1>9. (CopiesHeld(t) /\ WeakCopiesHeld(t) /\ LocksHeld(t))'
  BY <1>5, <1>b, HoldsNothing
<1>10. SpTypeOK' /\ WorkSound' /\ FinitePending'
  BY <1>1, <1>5, <1>6, <1>9, StepHolds DEF _M_release, SpTypeOK
<1>c. PICK last : last = IF spCount[c].use = 1 THEN 1 ELSE 0
  OBVIOUS
<1>8. ASSUME NEW b \in SpBlocks PROVE BlockSound(b)'
  <2> DEFINE last1 == IF b = c THEN last ELSE 0
  <2>1. Recount(b, -Is(b, c), last1, 0, 0, last1, 0)
    <3>1. /\ Cardinality(Vars(b))' = Cardinality(Vars(b)) + 0
          /\ Cardinality(Members(b))' = Cardinality(Members(b)) + 0
          /\ Cardinality(WeakVars(b))' = Cardinality(WeakVars(b)) + 0
      <4>1. /\ Cardinality(Vars(b))' = Cardinality(Vars(b))
            /\ Cardinality(Members(b))' = Cardinality(Members(b))
            /\ Cardinality(WeakVars(b))' = Cardinality(WeakVars(b))
        BY <1>2, <1>5, <1>b, Unmoved, WeakUnmoved DEF _M_release, Doing
      <4> QED BY <4>1, FiniteNow DEF FiniteCounts
    <3>2. /\ Added(t, w, "release", b) = (-Is(b, c)) - (0 + 0) /\ Added(t, w, "weak_release", b) = last1 - 0
          /\ Begun(t, w, "add_ref_copy", b) = 0 /\ Begun(t, w, "undo", b) = 0
          /\ Begun(t, w, "dispose", b) = last1 /\ Begun(t, w, "destroy", b) = 0
      <4>1. CASE spCount[c].use = 1
        <5>1. \A op : /\ Hit(Task("dispose", c), op, b) = IF op = "dispose" /\ b = c THEN 1 ELSE 0
                      /\ Hit(Task("weak_release", c), op, b) = IF op = "weak_release" /\ b = c THEN 1 ELSE 0
          BY DEF Hit, One, Task
        <5>2. ASSUME NEW op
              PROVE  /\ Added(t, w, op, b) = (Hit(Task("dispose", c), op, b)
                                                + Hit(Task("weak_release", c), op, b)) - Now(t, op, b)
                     /\ Begun(t, w, op, b) = Hit(Task("dispose", c), op, b) - Now(t, op, b)
          BY <4>1, <1>a, Tally
        <5> QED BY <4>1, <5>1, <5>2, <1>4, <1>c DEF Is
      <4>2. CASE spCount[c].use # 1
        BY <4>2, <1>4, <1>a, <1>c, Tally DEF Is
      <4> QED BY <4>1, <4>2
    <3>3. last1 \in Int /\ -Is(b, c) \in Int
      BY <1>c DEF Is
    <3> HIDE DEF last1
    <3> QED BY <1>5, <3>1, <3>2, <3>3, Recounted
  <2>2. BlockSound(b) /\ spState' = spState /\ spNext' = spNext
    BY DEF SpInv, _M_release
  <2>3. /\ Refs(b) > 0 => /\ Busy("add_ref_copy", b) < Refs(b) /\ Busy("undo", b) = 0
                          /\ spCount[b].use = Refs(b) - Busy("add_ref_copy", b)
        /\ b = c => Refs(b) > 0
    <3>1. 1 \in 1 .. Len(spWork[t]) /\ spWork[t][1].op = "release" /\ spWork[t][1].b = c
      BY <1>1, <1>2, <1>3, AtHand DEF Blk
    <3>2. \A i \in 1 .. Len(spWork[t]) : spWork[t][i].b = b /\ spWork[t][i].op = "release" => Refs(b) > 0
      BY <1>1, BlockCounted
    <3>3. b = c => Refs(b) > 0
      BY <3>1, <3>2
    <3> QED BY <3>3, UseCount
  <2>4. Refs(b)' > 0 => Busy("add_ref_copy", b)' < Refs(b)'
    BY <1>10, RefsExceedCopiesThen DEF WorkSound
  <2>5. CASE b # c
    BY <2>5, <1>6, <2>1, <2>2 DEF Recount, BlockSound, Is
  <2>6. CASE b = c
    <3>1. spState[b] = "live" /\ Busy("dispose", b) = 0 /\ Busy("destroy", b) = 0
      BY <2>1, <2>2, <2>3, <2>6 DEF Recount, BlockSound
    <3>2. /\ last = 1 => spCount[b].use = 1 /\ Refs(b)' = 0
          /\ last = 0 => Refs(b)' > 0
          /\ last \in {0, 1}
      BY <2>1, <2>3, <2>4, <2>6, <1>c DEF Recount, Is
    <3>3. Is(b, c) = 1 /\ last1 = last
      BY <2>6 DEF Is
    <3> HIDE DEF last1
    <3>4. /\ Refs(b) \in Nat /\ Refs(b)' = Refs(b) - 1
          /\ WeakRefs(b) \in Nat /\ WeakRefs(b)' = WeakRefs(b) + last
          /\ Busy("add_ref_copy", b) \in Nat /\ Busy("add_ref_copy", b)' = Busy("add_ref_copy", b)
          /\ Busy("undo", b)' = 0 /\ Busy("dispose", b)' = last /\ Busy("destroy", b)' = 0
          /\ spCount'[b].use = spCount[b].use - 1 /\ spCount'[b].weak = spCount[b].weak
      BY <2>6, <1>6, <2>1, <2>3, <3>1, <3>2, <3>3 DEF Recount
    <3>5. spCount[b].use = Refs(b) - Busy("add_ref_copy", b) /\ spCount[b].weak = WeakRefs(b) + 1 + 1
      BY <2>2, <2>3, <2>6, <3>1, <3>4 DEF BlockSound
    <3>6. CASE last = 1
      BY <2>2, <3>1, <3>2, <3>4, <3>5, <3>6 DEF BlockSound
    <3>7. CASE last = 0
      BY <2>2, <3>1, <3>2, <3>4, <3>5, <3>7 DEF BlockSound
    <3> QED BY <3>2, <3>6, <3>7
  <2> QED BY <2>5, <2>6
<1> QED BY <1>7, <1>8, <1>10 DEF SpInv

\* _M_destroy keeps the invariant: nobody refers to the block.
LEMMA DestroyKeeps ==
    ASSUME SpInv, NEW t \in SpThreads, _M_destroy(t)
    PROVE  SpInv'
<1>1. SpTypeOK /\ ReleasesLast /\ FinitePending
  BY DEF SpInv, WorkSound
<1>2. Doing(t, "destroy") /\ spWork[t] # <<>>
  BY DEF _M_destroy, Doing
<1>3. PICK c \in SpBlocks : c = Blk(t)
  BY <1>1, <1>2, AtHand
<1>4. \A op, b : Now(t, op, b) = IF op = "destroy" /\ b = c THEN 1 ELSE 0
  BY <1>2, <1>3 DEF On, Doing, Now
<1>5. WorkDone(t, <<>>)
  <2>1. Takes(t, <<>>)
    BY <1>2, <1>3 DEF _M_destroy, Takes
  <2>2. <<>> \in Seq(TaskType) /\ Len(<<>>) <= 2 /\ 2 \notin DOMAIN <<>>
    OBVIOUS
  <2> QED BY <1>1, <2>1, <2>2, WorkIsDone
<1>7. MutexSound'
  BY <1>2, <1>5, SameMutex DEF _M_destroy, Doing
<1>9. (CopiesHeld(t) /\ WeakCopiesHeld(t) /\ LocksHeld(t))'
  BY <1>5, HoldsNothing
<1>6. spState' = [spState EXCEPT ![c] = "free"]
  BY <1>3 DEF _M_destroy
<1>10. SpTypeOK' /\ WorkSound' /\ FinitePending'
  BY <1>1, <1>5, <1>6, <1>9, StepHolds DEF _M_destroy, SpTypeOK
<1>8. ASSUME NEW b \in SpBlocks PROVE BlockSound(b)'
  <2>1. Recount(b, 0, 0, 0, 0, 0, -Is(b, c))
    <3>1. /\ Cardinality(Vars(b))' = Cardinality(Vars(b)) + 0
          /\ Cardinality(Members(b))' = Cardinality(Members(b)) + 0
          /\ Cardinality(WeakVars(b))' = Cardinality(WeakVars(b)) + 0
      <4>1. /\ Cardinality(Vars(b))' = Cardinality(Vars(b))
            /\ Cardinality(Members(b))' = Cardinality(Members(b))
            /\ Cardinality(WeakVars(b))' = Cardinality(WeakVars(b))
        BY <1>2, <1>5, Unmoved, WeakUnmoved DEF _M_destroy, Doing
      <4> QED BY <4>1, FiniteNow DEF FiniteCounts
    <3>2. /\ Added(t, <<>>, "release", b) = 0 - (0 + 0)
          /\ Added(t, <<>>, "weak_release", b) = 0 - 0
          /\ Begun(t, <<>>, "add_ref_copy", b) = 0 /\ Begun(t, <<>>, "undo", b) = 0
          /\ Begun(t, <<>>, "dispose", b) = 0 /\ Begun(t, <<>>, "destroy", b) = -Is(b, c)
      BY <1>4, Tally DEF Is
    <3> QED BY <1>5, <3>1, <3>2, Recounted
  <2>2. BlockSound(b) /\ spCount' = spCount /\ spNext' = spNext
    BY DEF SpInv, _M_destroy
  <2>3. spState'[b] = IF b = c THEN "free" ELSE spState[b]
    BY <1>1, <1>6 DEF SpTypeOK
  <2>4. CASE b # c
    BY <2>4, <2>1, <2>2, <2>3 DEF Recount, BlockSound, Is
  <2>5. CASE b = c
    <3>1. Busy("destroy", b) > 0
      BY <1>1, <1>2, <1>3, <2>5, AtHand
    <3>2. /\ spState[b] = "disposed" /\ WeakRefs(b) = 0 /\ Busy("destroy", b) = 1
          /\ Refs(b) = 0 /\ Busy("dispose", b) = 0 /\ spNext[b] = SpNull
      BY <2>1, <2>2, <3>1 DEF Recount, BlockSound
    <3>3. /\ Refs(b)' = 0 /\ WeakRefs(b)' = 0 /\ Busy("destroy", b)' = 0 /\ Busy("dispose", b)' = 0
          /\ Busy("add_ref_copy", b)' = Busy("add_ref_copy", b) /\ Busy("undo", b)' = Busy("undo", b)
      BY <2>1, <2>5, <3>2 DEF Recount, Is
    <3> QED BY <2>2, <2>3, <2>5, <3>2, <3>3 DEF BlockSound
  <2> QED BY <2>4, <2>5
<1> QED BY <1>7, <1>8, <1>10 DEF SpInv

\* _M_weak_release keeps the invariant: the last weak reference goes over into a destroy.
LEMMA WeakReleaseKeeps ==
    ASSUME SpInv, NEW t \in SpThreads, _M_weak_release(t)
    PROVE  SpInv'
<1>1. SpTypeOK /\ ReleasesLast /\ FinitePending
  BY DEF SpInv, WorkSound
<1>2. Doing(t, "weak_release") /\ spWork[t] # <<>>
  BY DEF _M_weak_release, Doing
<1>3. PICK c \in SpBlocks : c = Blk(t)
  BY <1>1, <1>2, AtHand
<1>4. \A op, b : Now(t, op, b) = IF op = "weak_release" /\ b = c THEN 1 ELSE 0
  BY <1>2, <1>3 DEF On, Doing, Now
<1>a. PICK w : w = IF spCount[c].weak = 1 THEN <<Task("destroy", c)>> ELSE <<>>
  OBVIOUS
<1>b. w # <<>> => w[1].op = "destroy"
  BY <1>a, Tasks DEF Ops
<1>c. PICK last : last = IF spCount[c].weak = 1 THEN 1 ELSE 0
  OBVIOUS
<1>5. WorkDone(t, w)
  <2>1. Takes(t, w)
    BY <1>2, <1>3, <1>a DEF _M_weak_release, Takes
  <2>2. w \in Seq(TaskType) /\ Len(w) <= 2 /\ 2 \notin DOMAIN w
    BY <1>a, Tasks DEF Ops
  <2> QED BY <1>1, <2>1, <2>2, WorkIsDone
<1>6. /\ spCount' \in [SpBlocks -> [use : Int, weak : Int]]
      /\ \A b \in SpBlocks :
            /\ spCount'[b].weak = IF b = c THEN spCount[c].weak - 1 ELSE spCount[b].weak
            /\ spCount'[b].use = spCount[b].use
  <2>1. spCount' = [spCount EXCEPT ![c].weak = spCount[c].weak - 1]
    BY <1>3 DEF _M_weak_release
  <2>2. spCount[c].weak - 1 \in Int
    BY <1>1, BlockCounted
  <2> QED BY <1>1, <2>1, <2>2, WeakChange
<1>7. MutexSound'
  BY <1>2, <1>5, <1>b, SameMutex DEF _M_weak_release, Doing
<1>9. (CopiesHeld(t) /\ WeakCopiesHeld(t) /\ LocksHeld(t))'
  BY <1>5, <1>b, HoldsNothing
<1>10. SpTypeOK' /\ WorkSound' /\ FinitePending'
  BY <1>1, <1>5, <1>6, <1>9, StepHolds DEF _M_weak_release, SpTypeOK
<1>8. ASSUME NEW b \in SpBlocks PROVE BlockSound(b)'
  <2> DEFINE last1 == IF b = c THEN last ELSE 0
  <2>1. Recount(b, 0, -Is(b, c), 0, 0, 0, last1)
    <3>1. /\ Cardinality(Vars(b))' = Cardinality(Vars(b)) + 0
          /\ Cardinality(Members(b))' = Cardinality(Members(b)) + 0
          /\ Cardinality(WeakVars(b))' = Cardinality(WeakVars(b)) + 0
      <4>1. /\ Cardinality(Vars(b))' = Cardinality(Vars(b))
            /\ Cardinality(Members(b))' = Cardinality(Members(b))
            /\ Cardinality(WeakVars(b))' = Cardinality(WeakVars(b))
        BY <1>2, <1>5, <1>b, Unmoved, WeakUnmoved DEF _M_weak_release, Doing
      <4> QED BY <4>1, FiniteNow DEF FiniteCounts
    <3>2. /\ Added(t, w, "release", b) = 0 - (0 + 0)
          /\ Added(t, w, "weak_release", b) = (-Is(b, c)) - 0
          /\ Begun(t, w, "add_ref_copy", b) = 0 /\ Begun(t, w, "undo", b) = 0
          /\ Begun(t, w, "dispose", b) = 0 /\ Begun(t, w, "destroy", b) = last1
      <4>1. CASE spCount[c].weak = 1
        <5>1. \A op : Hit(Task("destroy", c), op, b) = IF op = "destroy" /\ b = c THEN 1 ELSE 0
          BY DEF Hit, One, Task
        <5>2. ASSUME NEW op
              PROVE  /\ Added(t, w, op, b) = Hit(Task("destroy", c), op, b) - Now(t, op, b)
                     /\ Begun(t, w, op, b) = Hit(Task("destroy", c), op, b) - Now(t, op, b)
          BY <4>1, <1>a, Tally
        <5> QED BY <4>1, <5>1, <5>2, <1>4, <1>c DEF Is
      <4>2. CASE spCount[c].weak # 1
        BY <4>2, <1>4, <1>a, <1>c, Tally DEF Is
      <4> QED BY <4>1, <4>2
    <3>3. last1 \in Int /\ -Is(b, c) \in Int
      BY <1>c DEF Is
    <3> HIDE DEF last1
    <3> QED BY <1>5, <3>1, <3>2, <3>3, Recounted
  <2>2. BlockSound(b) /\ spState' = spState /\ spNext' = spNext
    BY DEF SpInv, _M_weak_release
  <2>5. CASE b # c
    BY <2>5, <1>6, <2>1, <2>2 DEF Recount, BlockSound, Is
  <2>6. CASE b = c
    <3>1. WeakRefs(b) > 0
      BY <1>1, <1>2, <1>3, <2>6, AtHand, BlockCounted DEF Blk
    <3>2. spState[b] # "free" /\ Busy("destroy", b) = 0
      BY <2>1, <2>2, <3>1 DEF Recount, BlockSound
    <3>3. spState[b] \in {"live", "disposed"}
      BY <1>1, <3>2 DEF SpTypeOK
    <3>4. /\ Refs(b) \in Nat /\ Refs(b)' = Refs(b)
          /\ WeakRefs(b) \in Nat /\ WeakRefs(b)' = WeakRefs(b) - 1
          /\ Busy("add_ref_copy", b) \in Nat /\ Busy("add_ref_copy", b)' = Busy("add_ref_copy", b)
          /\ Busy("undo", b) \in Nat /\ Busy("undo", b)' = Busy("undo", b)
          /\ Busy("dispose", b) \in Nat /\ Busy("dispose", b)' = Busy("dispose", b)
          /\ Busy("destroy", b)' = last
          /\ spCount'[b].weak = spCount[b].weak - 1 /\ spCount'[b].use = spCount[b].use
      <4>1. Is(b, c) = 1 /\ last1 = last /\ last \in {0, 1}
        BY <2>6, <1>c DEF Is
      <4> HIDE DEF last1
      <4> QED BY <2>6, <1>6, <2>1, <3>2, <4>1 DEF Recount
    <3>5. CASE spState[b] = "live"
      <4>1. spCount[b].weak # 1
        BY <2>2, <3>1, <3>4, <3>5 DEF BlockSound
      <4>2. last = 0
        BY <4>1, <2>6, <1>c
      <4> QED BY <2>2, <3>1, <3>2, <3>4, <3>5, <4>2 DEF BlockSound
    <3>6. CASE spState[b] = "disposed"
      <4>1. spCount[b].weak = WeakRefs(b)
        BY <2>2, <3>4, <3>6 DEF BlockSound
      <4>2. IF WeakRefs(b) = 1 THEN last = 1 ELSE last = 0
        BY <4>1, <2>6, <1>c
      <4> QED BY <2>2, <3>1, <3>2, <3>4, <3>6, <4>1, <4>2 DEF BlockSound
    <3> QED BY <3>3, <3>5, <3>6
  <2> QED BY <2>5, <2>6
<1> QED BY <1>7, <1>8, <1>10 DEF SpInv

\* The work of an operation that has two tasks, one or none
LEMMA TwoTasks ==
    ASSUME NEW x \in TaskType, NEW y \in TaskType
    PROVE  /\ <<x>> \o <<y>> = <<x, y>> /\ <<>> \o <<y>> = <<y>> /\ <<x>> \o <<>> = <<x>>
           /\ <<>> \o <<>> = <<>>
<1>1. <<x>> \in Seq(TaskType) /\ <<y>> \in Seq(TaskType)
  OBVIOUS
<1>2. <<>> \o <<y>> = <<y>> /\ <<x>> \o <<>> = <<x>> /\ <<>> \o <<>> = <<>>
  BY <1>1, ConcatEmptySeq, EmptySeq
<1> DEFINE v == <<x>> \o <<y>>
           w == <<x, y>>
<1>3. v \in Seq(TaskType) /\ Len(v) = 2 /\ v[1] = x /\ v[2] = y
  BY <1>1, ConcatProperties
<1>4. w \in Seq(TaskType) /\ Len(w) = 2 /\ w[1] = x /\ w[2] = y
  OBVIOUS
<1>5. \A i \in 1 .. 2 : i = 1 \/ i = 2
  OBVIOUS
<1> HIDE DEF v, w
<1>6. \A i \in 1 .. 2 : v[i] = w[i]
  BY <1>3, <1>4, <1>5
<1>7. v = w
  BY <1>3, <1>4, <1>6, SeqEqual
<1> QED BY <1>2, <1>7 DEF v, w

\* _M_weak_add_ref keeps the invariant: a shared pointer keeps the object alive meanwhile.
LEMMA WeakAddRefKeeps ==
    ASSUME SpInv, NEW t \in SpThreads, _M_weak_add_ref(t)
    PROVE  SpInv'
<1>1. SpTypeOK /\ ReleasesLast /\ FinitePending
  BY DEF SpInv, WorkSound
<1>2. Doing(t, "weak_add_ref") /\ spWork[t] # <<>>
  BY DEF _M_weak_add_ref, Doing
<1>3. PICK c \in SpBlocks : c = Blk(t)
  BY <1>1, <1>2, AtHand
<1>4. \A op, b : Now(t, op, b) = IF op = "weak_add_ref" /\ b = c THEN 1 ELSE 0
  BY <1>2, <1>3 DEF On, Doing, Now
<1>5. WorkDone(t, <<>>)
  <2>1. Takes(t, <<>>)
    BY <1>2, <1>3 DEF _M_weak_add_ref, Takes
  <2>2. <<>> \in Seq(TaskType) /\ Len(<<>>) <= 2 /\ 2 \notin DOMAIN <<>>
    OBVIOUS
  <2> QED BY <1>1, <2>1, <2>2, WorkIsDone
<1>6. /\ spCount' \in [SpBlocks -> [use : Int, weak : Int]]
      /\ \A b \in SpBlocks :
            /\ spCount'[b].weak = IF b = c THEN spCount[c].weak + 1 ELSE spCount[b].weak
            /\ spCount'[b].use = spCount[b].use
  <2>1. spCount' = [spCount EXCEPT ![c].weak = spCount[c].weak + 1]
    BY <1>3 DEF _M_weak_add_ref
  <2>2. spCount[c].weak + 1 \in Int
    BY <1>1, BlockCounted
  <2> QED BY <1>1, <2>1, <2>2, WeakChange
<1>7. MutexSound'
  BY <1>2, <1>5, SameMutex DEF _M_weak_add_ref, Doing
<1>9. (CopiesHeld(t) /\ WeakCopiesHeld(t) /\ LocksHeld(t))'
  BY <1>5, HoldsNothing
<1>10. SpTypeOK' /\ WorkSound' /\ FinitePending'
  BY <1>1, <1>5, <1>6, <1>9, StepHolds DEF _M_weak_add_ref, SpTypeOK
<1>11. spWeakPtr[t] = c /\ Refs(c) > 0
  <2>1. WeakCopiesHeld(t)
    BY DEF SpInv, WorkSound
  <2>2. spWeakPtr[t] = c /\ \E s \in SpSlots : spShared[t][s] = c
    BY <1>2, <1>3, <2>1 DEF WeakCopiesHeld
  <2> QED BY <1>1, <2>2, BlockCounted
<1>8. ASSUME NEW b \in SpBlocks PROVE BlockSound(b)'
  <2>1. Recount(b, 0, Is(b, c), 0, 0, 0, 0)
    <3>1. /\ Cardinality(Vars(b))' = Cardinality(Vars(b)) + 0
          /\ Cardinality(Members(b))' = Cardinality(Members(b)) + 0
      <4>1. /\ Cardinality(Vars(b))' = Cardinality(Vars(b))
            /\ Cardinality(Members(b))' = Cardinality(Members(b))
        BY Unmoved DEF _M_weak_add_ref
      <4> QED BY <4>1, FiniteNow DEF FiniteCounts
    <3>4. Cardinality(WeakVars(b))' = Cardinality(WeakVars(b)) + Is(b, c)
      <4>1. \A u \in SpThreads : u # t => /\ spWeakPtr'[u] = spWeakPtr[u]
                                          /\ Doing(u, "weak_add_ref")' <=> Doing(u, "weak_add_ref")
        BY <1>5 DEF _M_weak_add_ref, Doing, WorkDone
      <4>2. /\ Cardinality(WeakVars(b)) \in Nat
            /\ Cardinality(WeakVars(b))' = (Cardinality(WeakVars(b)) - HasWeak(t, b)) + HasWeak(t, b)'
        BY <4>1, WeakVarsChange
      <4>3. ~Doing(t, "weak_add_ref")'
        BY <1>5, DoesNext
      <4>4. HasWeak(t, b) = 0 /\ HasWeak(t, b)' = Is(b, c)
        BY <1>2, <1>11, <4>3 DEF HasWeak, Is, _M_weak_add_ref
      <4>5. Is(b, c) \in Nat
        BY DEF Is
      <4> QED BY <4>2, <4>4, <4>5
    <3>2. /\ Added(t, <<>>, "release", b) = 0 - (0 + 0)
          /\ Added(t, <<>>, "weak_release", b) = Is(b, c) - Is(b, c)
          /\ Begun(t, <<>>, "add_ref_copy", b) = 0 /\ Begun(t, <<>>, "undo", b) = 0
          /\ Begun(t, <<>>, "dispose", b) = 0 /\ Begun(t, <<>>, "destroy", b) = 0
      BY <1>4, Tally DEF Is
    <3>3. Is(b, c) \in Int
      BY DEF Is
    <3> QED BY <1>5, <3>1, <3>2, <3>3, <3>4, Recounted
  <2>2. BlockSound(b) /\ spState' = spState /\ spNext' = spNext
    BY DEF SpInv, _M_weak_add_ref
  <2>4. CASE b # c
    BY <2>4, <1>6, <2>1, <2>2 DEF Recount, BlockSound, Is
  <2>5. CASE b = c
    <3>1. spState[b] = "live" /\ Busy("dispose", b) = 0 /\ Busy("destroy", b) = 0
      BY <1>11, <2>1, <2>2, <2>5 DEF Recount, BlockSound
    <3>2. Is(b, c) = 1
      BY <2>5 DEF Is
    <3> QED BY <2>5, <1>6, <2>1, <2>2, <3>1, <3>2 DEF Recount, BlockSound
  <2> QED BY <2>4, <2>5
<1> QED BY <1>7, <1>8, <1>10 DEF SpInv

\* _M_dispose keeps the invariant: the object's member is still to be released.
LEMMA DisposeKeeps ==
    ASSUME SpInv, NEW t \in SpThreads, _M_dispose(t)
    PROVE  SpInv'
<1>1. SpTypeOK /\ ReleasesLast /\ FinitePending
  BY DEF SpInv, WorkSound
<1>2. Doing(t, "dispose") /\ spWork[t] # <<>>
  BY DEF _M_dispose, Doing
<1>3. PICK c \in SpBlocks : c = Blk(t)
  BY <1>1, <1>2, AtHand
<1>4. \A op, b : Now(t, op, b) = IF op = "dispose" /\ b = c THEN 1 ELSE 0
  BY <1>2, <1>3 DEF On, Doing, Now
<1>a. PICK n \in SpBlocks \cup {SpNull} : n = spNext[c]
  BY <1>1 DEF SpTypeOK
<1>b. PICK w : w = IF n = SpNull THEN <<Task("weak_release", c)>>
                   ELSE <<Task("release", n), Task("weak_release", c)>>
  OBVIOUS
<1>c. w # <<>> => w[1].op \in {"release", "weak_release"}
  BY <1>b, Tasks DEF Ops
<1>5. WorkDone(t, w)
  <2>1. Takes(t, w)
    <3>1. w = TaskOn("release", spNext[Blk(t)]) \o <<Task("weak_release", Blk(t))>>
      <4>1. CASE n = SpNull
        <5>1. TaskOn("release", spNext[Blk(t)]) = <<>>
          BY <4>1, <1>3, <1>a DEF TaskOn
        <5>2. Task("weak_release", c) \in TaskType
          BY Tasks DEF Ops
        <5> QED BY <4>1, <5>1, <5>2, <1>3, <1>b, TwoTasks
      <4>2. CASE n # SpNull
        <5>1. TaskOn("release", spNext[Blk(t)]) = <<Task("release", n)>>
          BY <4>2, <1>3, <1>a DEF TaskOn
        <5>2. Task("weak_release", c) \in TaskType /\ Task("release", n) \in TaskType
          BY <4>2, Tasks DEF Ops
        <5> QED BY <4>2, <5>1, <5>2, <1>3, <1>b, TwoTasks
      <4> QED BY <4>1, <4>2
    <3> QED BY <3>1, <1>2 DEF _M_dispose, Takes
  <2>2. w \in Seq(TaskType) /\ Len(w) <= 2 /\ (2 \in DOMAIN w => w[2].op = "weak_release")
    <3>1. CASE n = SpNull
      BY <3>1, <1>b, Tasks DEF Ops
    <3>2. CASE n # SpNull
      BY <3>2, <1>b, Tasks DEF Ops
    <3> QED BY <3>1, <3>2
  <2> QED BY <1>1, <2>1, <2>2, WorkIsDone
<1>6. spState' = [spState EXCEPT ![c] = "disposed"] /\ spNext' = [spNext EXCEPT ![c] = SpNull]
  BY <1>3 DEF _M_dispose
<1>11. /\ spState[c] = "live" /\ Busy("dispose", c) = 1 /\ Busy("destroy", c) = 0
       /\ Refs(c) = 0 /\ WeakRefs(c) \in Nat
  <2>1. BlockSound(c)
    BY DEF SpInv
  <2>2. Busy("dispose", c) > 0
    BY <1>1, <1>2, <1>3, AtHand
  <2>3. /\ Refs(c) \in Nat /\ Busy("dispose", c) \in Nat /\ Busy("destroy", c) \in Nat
        /\ WeakRefs(c) \in Nat
    BY <1>1, BlockCounted
  <2> QED BY <2>1, <2>2, <2>3 DEF BlockSound
<1>7. MutexSound'
  BY <1>2, <1>5, <1>c, SameMutex DEF _M_dispose, Doing
<1>9. (CopiesHeld(t) /\ WeakCopiesHeld(t) /\ LocksHeld(t))'
  BY <1>5, <1>c, HoldsNothing
<1>10. SpTypeOK' /\ WorkSound' /\ FinitePending'
  <2>1. \A d \in SpBlocks : Refs(d) > 0 => spNext'[d] = spNext[d]
    BY <1>1, <1>6, <1>11 DEF SpTypeOK
  <2> QED BY <1>1, <1>5, <1>6, <1>9, <2>1, StepHolds DEF _M_dispose, SpTypeOK
<1>8. ASSUME NEW b \in SpBlocks PROVE BlockSound(b)'
  <2>1. Recount(b, 0, Is(b, c), 0, 0, -Is(b, c), 0)
    <3>1. /\ Cardinality(Vars(b))' = Cardinality(Vars(b)) + 0
          /\ Cardinality(WeakVars(b))' = Cardinality(WeakVars(b)) + 0
      <4>1. /\ Cardinality(Vars(b))' = Cardinality(Vars(b))
            /\ Cardinality(WeakVars(b))' = Cardinality(WeakVars(b))
        BY <1>2, <1>5, <1>c, Unmoved, WeakUnmoved DEF _M_dispose, Doing
      <4> QED BY <4>1, FiniteNow DEF FiniteCounts
    <3>4. Cardinality(Members(b))' = Cardinality(Members(b)) + (-Is(n, b))
      <4>1. /\ Cardinality(Members(b)) \in Nat
            /\ Cardinality(Members(b))' = (Cardinality(Members(b)) - Is(spNext[c], b)) + Is(SpNull, b)
        BY <1>1, <1>6, MembersChange
      <4>2. Is(spNext[c], b) = Is(n, b) /\ Is(SpNull, b) = 0 /\ Is(n, b) \in {0, 1}
        BY <1>a, SpAssumption DEF Is
      <4> QED BY <4>1, <4>2
    <3>2. /\ Added(t, w, "release", b) = 0 - (0 + (-Is(n, b)))
          /\ Added(t, w, "weak_release", b) = Is(b, c) - 0
          /\ Begun(t, w, "add_ref_copy", b) = 0 /\ Begun(t, w, "undo", b) = 0
          /\ Begun(t, w, "dispose", b) = (-Is(b, c)) /\ Begun(t, w, "destroy", b) = 0
      <4>1. \A op : /\ Hit(Task("release", n), op, b) = IF op = "release" THEN Is(n, b) ELSE 0
                    /\ Hit(Task("weak_release", c), op, b) = IF op = "weak_release" THEN Is(b, c) ELSE 0
        BY DEF Hit, One, Task, Is
      <4>2. \A op : Now(t, op, b) = IF op = "dispose" THEN Is(b, c) ELSE 0
        BY <1>4 DEF Is
      <4>3. Is(n, b) \in {0, 1} /\ Is(b, c) \in {0, 1}
        BY DEF Is
      <4>4. CASE n = SpNull
        <5>1. Is(n, b) = 0
          BY <4>4, SpAssumption DEF Is
        <5>2. ASSUME NEW op
              PROVE  /\ Added(t, w, op, b) = Hit(Task("weak_release", c), op, b) - Now(t, op, b)
                     /\ Begun(t, w, op, b) = Hit(Task("weak_release", c), op, b) - Now(t, op, b)
          BY <4>4, <1>b, Tally
        <5> QED BY <4>1, <4>2, <4>3, <5>1, <5>2
      <4>5. CASE n # SpNull
        <5>2. ASSUME NEW op
              PROVE  /\ Added(t, w, op, b) = (Hit(Task("release", n), op, b)
                                                + Hit(Task("weak_release", c), op, b)) - Now(t, op, b)
                     /\ Begun(t, w, op, b) = Hit(Task("release", n), op, b) - Now(t, op, b)
          BY <4>5, <1>b, Tally
        <5> QED BY <4>1, <4>2, <4>3, <5>2
      <4> QED BY <4>4, <4>5
    <3>3. Is(b, c) \in Int /\ -Is(n, b) \in Int
      BY DEF Is
    <3> QED BY <1>5, <3>1, <3>2, <3>3, <3>4, Recounted
  <2>2. BlockSound(b) /\ spCount' = spCount
    BY DEF SpInv, _M_dispose
  <2>3. /\ spState'[b] = IF b = c THEN "disposed" ELSE spState[b]
        /\ spNext'[b] = IF b = c THEN SpNull ELSE spNext[b]
    BY <1>1, <1>6 DEF SpTypeOK
  <2>4. CASE b # c
    BY <2>4, <2>1, <2>2, <2>3 DEF Recount, BlockSound, Is
  <2>5. CASE b = c
    <3>1. Is(b, c) = 1
      BY <2>5 DEF Is
    <3>2. /\ Refs(b)' = 0 /\ WeakRefs(b)' = WeakRefs(b) + 1 /\ WeakRefs(b) \in Nat
          /\ Busy("destroy", b)' = 0 /\ Busy("dispose", b)' = 0
          /\ Busy("add_ref_copy", b)' = Busy("add_ref_copy", b) /\ Busy("undo", b)' = Busy("undo", b)
          /\ Busy("add_ref_copy", b) \in Nat /\ Busy("undo", b) \in Nat
      BY <2>1, <2>5, <3>1, <1>11 DEF Recount
    <3> QED BY <1>11, <2>2, <2>3, <2>5, <3>2 DEF BlockSound
  <2> QED BY <2>4, <2>5
<1> QED BY <1>7, <1>8, <1>10 DEF SpInv

\* The task at hand changes in place.
LEMMA TaskChanged ==
    ASSUME SpTypeOK, NEW t \in SpThreads, spWork[t] # <<>>, NEW x \in TaskType,
           spWork' = [spWork EXCEPT ![t] = [spWork[t] EXCEPT ![1] = x]]
    PROVE  Takes(t, <<x>>)
<1>1. spWork[t] \in Seq(TaskType) /\ Len(spWork[t]) \in Nat /\ Len(spWork[t]) > 0
  BY DEF SpTypeOK
<1> DEFINE v == [spWork[t] EXCEPT ![1] = x]
           w == <<x>> \o Tail(spWork[t])
<1>2. v \in Seq(TaskType) /\ Len(v) = Len(spWork[t]) /\ v[1] = x
      /\ \A i \in 2 .. Len(spWork[t]) : v[i] = spWork[t][i]
  BY <1>1
<1>3. /\ <<x>> \in Seq(TaskType) /\ Tail(spWork[t]) \in Seq(TaskType)
      /\ Len(Tail(spWork[t])) = Len(spWork[t]) - 1
      /\ \A i \in 1 .. Len(spWork[t]) - 1 : Tail(spWork[t])[i] = spWork[t][i + 1]
  BY <1>1
<1>4. w \in Seq(TaskType) /\ Len(w) = Len(spWork[t])
      /\ \A i \in 1 .. Len(spWork[t]) : w[i] = IF i <= 1 THEN <<x>>[i] ELSE Tail(spWork[t])[i - 1]
  BY <1>1, <1>3, ConcatProperties
<1>5. \A i \in 1 .. Len(spWork[t]) : v[i] = w[i]
  <2> SUFFICES ASSUME NEW i \in 1 .. Len(spWork[t]) PROVE v[i] = w[i]
    OBVIOUS
  <2>1. CASE i = 1
    BY <2>1, <1>2, <1>4
  <2>2. CASE i # 1
    <3>1. i \in 2 .. Len(spWork[t]) /\ i - 1 \in 1 .. Len(spWork[t]) - 1 /\ (i - 1) + 1 = i /\ ~(i <= 1)
      BY <2>2, <1>1
    <3> QED BY <3>1, <1>2, <1>3, <1>4
  <2> QED BY <2>1, <2>2
<1> HIDE DEF v, w
<1>6. v = w
  BY <1>2, <1>4, <1>5, SeqEqual
<1>7. spWork' = [spWork EXCEPT ![t] = w]
  BY <1>6 DEF v
<1> QED BY <1>7 DEF Takes, Continue, w

\* Steps in which a thread only gets on with locking a weak pointer
LEMMA LockGoesOn ==
    ASSUME SpInv, NEW t \in SpThreads, NEW w, WorkDone(t, w),
           w = <<>> \/ \E x : w = <<x>> /\ x.op \in {"load", "cas", "lock"},
           \A op : Doing(t, op) => op \in {"load", "cas"},
           (CopiesHeld(t) /\ WeakCopiesHeld(t) /\ LocksHeld(t))',
           UNCHANGED <<spCount, spState, spNext, spMutex, spShared, spWeakPtr, spPolicy>>
    PROVE  SpInv'
<1>1. SpTypeOK /\ SpTypeOK' /\ WorkSound' /\ FinitePending'
  <2>1. SpTypeOK
    BY DEF SpInv
  <2> QED BY <2>1, StepHolds DEF SpTypeOK
<1>2. w # <<>> => w[1].op \in {"load", "cas", "lock"}
  OBVIOUS
<1>3. ~Doing(t, "undo") /\ ~Doing(t, "weak_add_ref")
  OBVIOUS
<1>4. MutexSound'
  BY <1>2, <1>3, SameMutex
<1>5. ASSUME NEW b \in SpBlocks PROVE BlockSound(b)'
  <2>1. Recount(b, 0, 0, 0, 0, 0, 0)
    <3>1. /\ Cardinality(Vars(b))' = Cardinality(Vars(b)) + 0
          /\ Cardinality(Members(b))' = Cardinality(Members(b)) + 0
          /\ Cardinality(WeakVars(b))' = Cardinality(WeakVars(b)) + 0
      <4>1. /\ Cardinality(Vars(b))' = Cardinality(Vars(b))
            /\ Cardinality(Members(b))' = Cardinality(Members(b))
            /\ Cardinality(WeakVars(b))' = Cardinality(WeakVars(b))
        BY <1>2, <1>3, Unmoved, WeakUnmoved
      <4> QED BY <4>1, FiniteNow DEF FiniteCounts
    <3>2. \A op \in {"release", "weak_release", "add_ref_copy", "undo", "dispose", "destroy"} :
             Added(t, w, op, b) = 0 /\ Begun(t, w, op, b) = 0
      <4> SUFFICES ASSUME NEW op \in {"release", "weak_release", "add_ref_copy", "undo", "dispose", "destroy"}
                   PROVE  Added(t, w, op, b) = 0 /\ Begun(t, w, op, b) = 0
        OBVIOUS
      <4>1. Now(t, op, b) = 0
        BY DEF Now, On
      <4>2. CASE w = <<>>
        BY <4>1, <4>2, Tally
      <4>3. ASSUME NEW x, w = <<x>>, x.op \in {"load", "cas", "lock"}
            PROVE  Added(t, w, op, b) = 0 /\ Begun(t, w, op, b) = 0
        <5>1. Hit(x, op, b) = 0
          BY <4>3 DEF Hit, One
        <5>2. /\ Added(t, w, op, b) = Hit(x, op, b) - Now(t, op, b)
              /\ Begun(t, w, op, b) = Hit(x, op, b) - Now(t, op, b)
          BY <4>3, Tally
        <5> QED BY <4>1, <5>1, <5>2
      <4> QED BY <4>2, <4>3
    <3>3. Added(t, w, "release", b) = 0 - (0 + 0) /\ Added(t, w, "weak_release", b) = 0 - 0
      BY <3>2
    <3> QED BY <3>1, <3>2, <3>3, Recounted
  <2>2. BlockSound(b)
    BY DEF SpInv
  <2> QED BY <2>1, <2>2 DEF Recount, BlockSound
<1> QED BY <1>1, <1>4, <1>5 DEF SpInv

\* A thread that locks a weak pointer has what it needs for that.
LEMMA HoldsLock ==
    ASSUME NEW t \in SpThreads, NEW x, WorkDone(t, <<x>>), x.op \in {"load", "cas", "lock", "undo"},
           spWeakPtr'[t] = x.b, x.slot \in SpSlots, spShared'[t][x.slot] = SpNull,
           spPolicy' = IF x.op \in {"load", "cas"} THEN "atomic" ELSE "mutex"
    PROVE  (CopiesHeld(t) /\ WeakCopiesHeld(t) /\ LocksHeld(t))'
<1>1. ASSUME NEW op, Doing(t, op)'
      PROVE  \/ op \in {"release", "weak_release"}
             \/ op = x.op /\ Blk(t)' = x.b /\ Head(spWork'[t]) = x
  <2>1. <<x>>[1] = x
    OBVIOUS
  <2> QED BY <1>1, <2>1, DoesNext
<1>2. CopiesHeld(t)' /\ WeakCopiesHeld(t)'
  BY <1>1 DEF CopiesHeld, WeakCopiesHeld
<1>3. ASSUME NEW op \in {"load", "cas", "lock", "undo"}, Doing(t, op)'
      PROVE  /\ spWeakPtr'[t] = Blk(t)'
             /\ Head(spWork'[t]).slot \in SpSlots /\ spShared'[t][Head(spWork'[t]).slot] = SpNull
             /\ spPolicy' = IF op \in {"load", "cas"} THEN "atomic" ELSE "mutex"
  <2>1. op = x.op /\ Blk(t)' = x.b /\ Head(spWork'[t]) = x
    BY <1>1, <1>3
  <2> QED BY <2>1
<1>4. LocksHeld(t)'
  BY <1>3 DEF LocksHeld
<1> QED BY <1>2, <1>4

\* The load of _M_add_ref_lock keeps the invariant.
LEMMA LockLoadKeeps ==
    ASSUME SpInv, NEW t \in SpThreads, LockLoad(t)
    PROVE  SpInv'
<1>1. SpTypeOK /\ ReleasesLast /\ FinitePending /\ LocksHeld(t)
  BY DEF SpInv, WorkSound
<1>2. Doing(t, "load") /\ spWork[t] # <<>>
  BY DEF LockLoad, Doing
<1>3. /\ spWork[t] \in Seq(TaskType) /\ Head(spWork[t]) \in TaskType /\ Blk(t) \in SpBlocks
      /\ spWork[t][1] = Head(spWork[t])
  BY <1>1, <1>2, AtHand
<1>4. spCount[Blk(t)].use \in Int
  BY <1>1, <1>3, BlockCounted
<1>5. PICK x : x = [[Head(spWork[t]) EXCEPT !.op = "cas"] EXCEPT !.count = spCount[Blk(t)].use]
  OBVIOUS
<1>6. /\ x \in TaskType /\ x.op = "cas" /\ x.b = Blk(t) /\ x.slot = Head(spWork[t]).slot
  BY <1>3, <1>4, <1>5 DEF TaskType, Ops, Blk
<1>7. spWork' = [spWork EXCEPT ![t] = [spWork[t] EXCEPT ![1] = x]]
  BY <1>1, <1>2, <1>3, <1>5 DEF LockLoad, SpTypeOK
<1>8. WorkDone(t, <<x>>)
  <2>1. Takes(t, <<x>>)
    BY <1>1, <1>2, <1>6, <1>7, TaskChanged
  <2>2. <<x>> \in Seq(TaskType) /\ Len(<<x>>) <= 2 /\ 2 \notin DOMAIN <<x>>
    BY <1>6
  <2> QED BY <1>1, <2>1, <2>2, WorkIsDone
<1>9. (CopiesHeld(t) /\ WeakCopiesHeld(t) /\ LocksHeld(t))'
  <2>1. /\ spWeakPtr[t] = Blk(t) /\ Head(spWork[t]).slot \in SpSlots
        /\ spShared[t][Head(spWork[t]).slot] = SpNull /\ spPolicy = "atomic"
    BY <1>1, <1>2 DEF LocksHeld
  <2> QED BY <1>6, <1>8, <2>1, HoldsLock DEF LockLoad
<1>10. \A op : Doing(t, op) => op \in {"load", "cas"}
  BY <1>2 DEF Doing
<1>11. <<x>> = <<>> \/ \E y : <<x>> = <<y>> /\ y.op \in {"load", "cas", "lock"}
  BY <1>6
<1> QED BY <1>8, <1>9, <1>10, <1>11, LockGoesOn DEF LockLoad

\* A task that is done makes room for none.
LEMMA NoWork ==
    ASSUME SpInv, NEW t \in SpThreads, spWork[t] # <<>>, Continue(t, <<>>)
    PROVE  WorkDone(t, <<>>)
<1>1. SpTypeOK /\ ReleasesLast /\ FinitePending
  BY DEF SpInv, WorkSound
<1>2. Takes(t, <<>>)
  BY DEF Takes
<1>3. <<>> \in Seq(TaskType) /\ Len(<<>>) <= 2 /\ 2 \notin DOMAIN <<>>
  OBVIOUS
<1> QED BY <1>1, <1>2, <1>3, WorkIsDone

\* One more reference to a block that has some
LEMMA Referred ==
    ASSUME NEW b, BlockSound(b), Recount(b, 1, 0, 0, 0, 0, 0), Refs(b) > 0,
           spCount'[b].use = spCount[b].use + 1, spCount'[b].weak = spCount[b].weak,
           spState'[b] = spState[b], spNext'[b] = spNext[b]
    PROVE  BlockSound(b)'
<1>1. /\ spState[b] = "live" /\ Busy("dispose", b) = 0 /\ Busy("destroy", b) = 0
      /\ Busy("undo", b) = 0
  BY DEF Recount, BlockSound
<1>2. /\ Refs(b) \in Nat /\ Refs(b)' = Refs(b) + 1
      /\ WeakRefs(b) \in Nat /\ WeakRefs(b)' = WeakRefs(b)
      /\ Busy("add_ref_copy", b) \in Nat /\ Busy("add_ref_copy", b)' = Busy("add_ref_copy", b)
      /\ Busy("undo", b)' = 0 /\ Busy("dispose", b)' = 0 /\ Busy("destroy", b)' = 0
      /\ spCount[b].use \in Int /\ spCount[b].weak \in Int
  BY <1>1 DEF Recount
<1> QED BY <1>1, <1>2 DEF BlockSound

\* A weak pointer is locked: one more reference, which is counted at once.
LEMMA LockedKeeps ==
    ASSUME SpInv, NEW t \in SpThreads, NEW op0 \in {"cas", "lock"}, Doing(t, op0),
           Refs(Blk(t)) > 0,
           spCount' = [spCount EXCEPT ![Blk(t)].use = @ + 1], Locked(t), Continue(t, <<>>),
           UNCHANGED <<spState, spNext, spMutex, spWeakPtr, spPolicy>>
    PROVE  SpInv'
<1>1. SpTypeOK /\ ReleasesLast /\ FinitePending /\ LocksHeld(t)
  BY DEF SpInv, WorkSound
<1>2. spWork[t] # <<>> /\ ~Doing(t, "undo") /\ ~Doing(t, "weak_add_ref")
  BY DEF Doing
<1>3. PICK c \in SpBlocks : c = Blk(t)
  BY <1>1, AtHand
<1>4. \A op, b : Now(t, op, b) = IF op = op0 /\ b = c THEN 1 ELSE 0
  BY <1>3 DEF On, Doing, Now
<1>5. WorkDone(t, <<>>)
  BY <1>2, NoWork
<1>6. /\ spCount' \in [SpBlocks -> [use : Int, weak : Int]]
      /\ \A b \in SpBlocks :
            /\ spCount'[b].use = IF b = c THEN spCount[c].use + 1 ELSE spCount[b].use
            /\ spCount'[b].weak = spCount[b].weak
  <2>1. spCount' = [spCount EXCEPT ![c].use = spCount[c].use + 1]
    BY <1>3
  <2>2. spCount[c].use + 1 \in Int
    BY <1>1, BlockCounted
  <2> QED BY <1>1, <2>1, <2>2, UseChange
<1>7. PICK s \in SpSlots : s = Head(spWork[t]).slot /\ spShared[t][s] = SpNull
  BY <1>1 DEF LocksHeld
<1>8. spShared' = [spShared EXCEPT ![t][s] = c]
  BY <1>3, <1>7 DEF Locked
<1>9. MutexSound'
  BY <1>2, <1>5, SameMutex
<1>10. SpTypeOK' /\ WorkSound' /\ FinitePending'
  <2>1. (CopiesHeld(t) /\ WeakCopiesHeld(t) /\ LocksHeld(t))'
    BY <1>5, HoldsNothing
  <2>2. /\ spShared' \in [SpThreads -> [SpSlots -> SpBlocks \cup {SpNull}]]
        /\ \A u \in SpThreads : u # t => spShared'[u] = spShared[u]
    BY <1>1, <1>8 DEF SpTypeOK
  <2> QED BY <1>1, <1>5, <1>6, <2>1, <2>2, StepHolds DEF SpTypeOK
<1>11. ASSUME NEW b \in SpBlocks PROVE BlockSound(b)'
  <2>0. Is(c, b) \in {0, 1} /\ Is(SpNull, b) = 0
    BY SpAssumption DEF Is
  <2>1. Recount(b, Is(c, b), 0, 0, 0, 0, 0)
    <3>1. /\ Cardinality(Members(b))' = Cardinality(Members(b)) + 0
          /\ Cardinality(WeakVars(b))' = Cardinality(WeakVars(b)) + 0
      <4>1. /\ Cardinality(Members(b))' = Cardinality(Members(b))
            /\ Cardinality(WeakVars(b))' = Cardinality(WeakVars(b))
        BY <1>2, <1>5, Unmoved, WeakUnmoved
      <4> QED BY <4>1, FiniteNow DEF FiniteCounts
    <3>2. Cardinality(Vars(b))' = Cardinality(Vars(b)) + Is(c, b)
      <4>1. /\ Cardinality(Vars(b)) \in Nat
            /\ Cardinality(Vars(b))' = (Cardinality(Vars(b)) - Is(spShared[t][s], b)) + Is(c, b)
        BY <1>1, <1>8, VarsChange
      <4> QED BY <1>7, <2>0, <4>1
    <3>3. /\ Added(t, <<>>, "release", b) = Is(c, b) - (Is(c, b) + 0)
          /\ Added(t, <<>>, "weak_release", b) = 0 - 0
          /\ Begun(t, <<>>, "add_ref_copy", b) = 0 /\ Begun(t, <<>>, "undo", b) = 0
          /\ Begun(t, <<>>, "dispose", b) = 0 /\ Begun(t, <<>>, "destroy", b) = 0
      BY <1>4, <2>0, Tally
    <3> QED BY <1>5, <2>0, <3>1, <3>2, <3>3, Recounted
  <2>2. BlockSound(b)
    BY DEF SpInv
  <2>3. CASE b # c
    <3>1. Is(c, b) = 0
      BY <2>3 DEF Is
    <3> QED BY <2>3, <3>1, <1>6, <2>1, <2>2 DEF Recount, BlockSound
  <2>4. CASE b = c
    <3>1. Is(c, b) = 1 /\ Refs(b) > 0
      BY <2>4, <1>3 DEF Is
    <3>0. Recount(b, 1, 0, 0, 0, 0, 0)
      BY <2>1, <3>1
    <3>2. /\ spCount'[b].use = spCount[b].use + 1 /\ spCount'[b].weak = spCount[b].weak
          /\ spState'[b] = spState[b] /\ spNext'[b] = spNext[b]
      BY <2>4, <1>6
    <3> QED BY <2>2, <3>0, <3>1, <3>2, Referred
  <2> QED BY <2>3, <2>4
<1> QED BY <1>9, <1>10, <1>11 DEF SpInv

\* The compare-and-swap of _M_add_ref_lock keeps the invariant: a count that is not zero
\* has a reference behind it.
LEMMA LockCasKeeps ==
    ASSUME SpInv, NEW t \in SpThreads, LockCas(t)
    PROVE  SpInv'
<1>1. SpTypeOK /\ ReleasesLast /\ FinitePending /\ LocksHeld(t)
  BY DEF SpInv, WorkSound
<1>2. Doing(t, "cas") /\ spWork[t] # <<>>
  BY DEF LockCas, Doing
<1>3. /\ spWork[t] \in Seq(TaskType) /\ Head(spWork[t]) \in TaskType /\ Blk(t) \in SpBlocks
      /\ spWork[t][1] = Head(spWork[t])
  BY <1>1, <1>2, AtHand
<1>4. /\ spWeakPtr[t] = Blk(t) /\ Head(spWork[t]).slot \in SpSlots
      /\ spShared[t][Head(spWork[t]).slot] = SpNull /\ spPolicy = "atomic"
  BY <1>1, <1>2 DEF LocksHeld
<1>5. \A op : Doing(t, op) => op \in {"load", "cas"}
  BY <1>2 DEF Doing
<1> DEFINE count == Head(spWork[t]).count
<1>6. CASE count = 0 /\ Continue(t, <<>>) /\ UNCHANGED <<spCount, spShared>>
  <2>1. WorkDone(t, <<>>)
    BY <1>2, <1>6, NoWork
  <2>2. (CopiesHeld(t) /\ WeakCopiesHeld(t) /\ LocksHeld(t))'
    BY <2>1, HoldsNothing
  <2>3. PICK w : w = <<>>
    OBVIOUS
  <2> QED BY <1>5, <1>6, <2>1, <2>2, <2>3, LockGoesOn DEF LockCas
<1>7. CASE /\ count # 0 /\ count = spCount[Blk(t)].use
           /\ spCount' = [spCount EXCEPT ![Blk(t)].use = @ + 1]
           /\ Locked(t) /\ Continue(t, <<>>)
  <2>1. Busy("undo", Blk(t)) = 0
    <3>1. \A u \in SpThreads : LocksHeld(u)
      BY DEF SpInv, WorkSound
    <3>2. \A u \in SpThreads : ~Doing(u, "undo")
      BY <1>4, <3>1 DEF LocksHeld
    <3>3. Doers("undo", Blk(t)) = {}
      BY <3>2 DEF Doers, On
    <3> QED BY <3>3, FS_EmptySet DEF Busy
  <2>2. Refs(Blk(t)) > 0
    <3>1. Refs(Blk(t)) \in Nat
      BY <1>1, <1>3, BlockCounted
    <3>2. Refs(Blk(t)) # 0
      BY <1>3, <1>7, <2>1, UseCount
    <3> QED BY <3>1, <3>2
  <2> QED BY <1>2, <1>7, <2>2, LockedKeeps DEF LockCas
<1>8. CASE /\ count # 0 /\ count # spCount[Blk(t)].use
           /\ spWork' = [spWork EXCEPT ![t][1].count = spCount[Blk(t)].use]
           /\ UNCHANGED <<spCount, spShared>>
  <2>1. spCount[Blk(t)].use \in Int
    BY <1>1, <1>3, BlockCounted
  <2>2. PICK x : x = [Head(spWork[t]) EXCEPT !.count = spCount[Blk(t)].use]
    OBVIOUS
  <2>3. /\ x \in TaskType /\ x.op = "cas" /\ x.b = Blk(t) /\ x.slot = Head(spWork[t]).slot
    BY <1>2, <1>3, <2>1, <2>2 DEF TaskType, Ops, Blk, Doing
  <2>4. spWork' = [spWork EXCEPT ![t] = [spWork[t] EXCEPT ![1] = x]]
    BY <1>1, <1>2, <1>3, <1>8, <2>2 DEF SpTypeOK
  <2>5. WorkDone(t, <<x>>)
    <3>1. Takes(t, <<x>>)
      BY <1>1, <1>2, <2>3, <2>4, TaskChanged
    <3>2. <<x>> \in Seq(TaskType) /\ Len(<<x>>) <= 2 /\ 2 \notin DOMAIN <<x>>
      BY <2>3
    <3> QED BY <1>1, <3>1, <3>2, WorkIsDone
  <2>6. (CopiesHeld(t) /\ WeakCopiesHeld(t) /\ LocksHeld(t))'
    BY <1>4, <1>8, <2>3, <2>5, HoldsLock DEF LockCas
  <2>7. PICK w : w = <<x>>
    OBVIOUS
  <2>8. w = <<>> \/ \E y : w = <<y>> /\ y.op \in {"load", "cas", "lock"}
    BY <2>3, <2>7
  <2> QED BY <1>5, <1>8, <2>5, <2>6, <2>7, <2>8, LockGoesOn DEF LockCas
<1> QED BY <1>6, <1>7, <1>8 DEF LockCas

\* weak_ptr::lock begins and keeps the invariant.
LEMMA LockKeeps ==
    ASSUME SpInv, NEW t \in SpThreads, NEW s \in SpSlots, Lock(t, s)
    PROVE  SpInv'
<1>1. SpTypeOK /\ ReleasesLast /\ FinitePending
  BY DEF SpInv, WorkSound
<1>2. spWork[t] = <<>> /\ spWeakPtr[t] \in SpBlocks /\ spPolicy \in {"atomic", "mutex"}
  BY <1>1 DEF Lock, SpIdle, SpTypeOK
<1>3. PICK x : x = [Task(IF spPolicy = "atomic" THEN "load" ELSE "lock", spWeakPtr[t]) EXCEPT !.slot = s]
  OBVIOUS
<1>4. /\ x \in TaskType /\ x.op = (IF spPolicy = "atomic" THEN "load" ELSE "lock")
      /\ x.b = spWeakPtr[t] /\ x.slot = s
  BY <1>2, <1>3 DEF Task, TaskType, Ops
<1>5. WorkDone(t, <<x>>)
  <2>1. Takes(t, <<x>>)
    BY <1>2, <1>3 DEF Lock, Takes
  <2>2. <<x>> \in Seq(TaskType) /\ Len(<<x>>) <= 2 /\ 2 \notin DOMAIN <<x>>
    BY <1>4
  <2> QED BY <1>1, <2>1, <2>2, WorkIsDone
<1>6. (CopiesHeld(t) /\ WeakCopiesHeld(t) /\ LocksHeld(t))'
  BY <1>2, <1>4, <1>5, HoldsLock DEF Lock
<1>7. \A op : Doing(t, op) => op \in {"load", "cas"}
  BY <1>2 DEF Doing
<1>8. <<x>> = <<>> \/ \E y : <<x>> = <<y>> /\ y.op \in {"load", "cas", "lock"}
  BY <1>2, <1>4
<1> QED BY <1>5, <1>6, <1>7, <1>8, LockGoesOn DEF Lock

\* _M_add_ref_lock keeps the invariant under the mutex.
LEMMA LockMutexKeeps ==
    ASSUME SpInv, NEW t \in SpThreads, LockMutex(t)
    PROVE  SpInv'
<1>1. SpTypeOK /\ ReleasesLast /\ FinitePending /\ LocksHeld(t)
  BY DEF SpInv, WorkSound
<1>2. Doing(t, "lock") /\ spWork[t] # <<>>
  BY DEF LockMutex, Doing
<1>3. PICK c \in SpBlocks : c = Blk(t)
  BY <1>1, <1>2, AtHand
<1>4. \A op, b : Now(t, op, b) = IF op = "lock" /\ b = c THEN 1 ELSE 0
  BY <1>2, <1>3 DEF On, Doing, Now
<1>a. /\ spWeakPtr[t] = c /\ Head(spWork[t]).slot \in SpSlots
      /\ spShared[t][Head(spWork[t]).slot] = SpNull /\ spPolicy = "mutex"
  BY <1>1, <1>2, <1>3 DEF LocksHeld
<1>b. spMutex[c] = SpNull /\ \A u \in SpThreads : ~On(u, "undo", c)
  <2>1. spMutex[c] = SpNull
    BY <1>3 DEF LockMutex
  <2> QED BY <2>1, SpAssumption DEF SpInv, MutexSound
<1>c. Busy("undo", c) = 0
  <2>1. Doers("undo", c) = {}
    BY <1>b DEF Doers
  <2> QED BY <2>1, FS_EmptySet DEF Busy
<1>d. CASE spCount[c].use # 0
  <2>1. Refs(c) > 0
    <3>1. Refs(c) \in Nat
      BY <1>1, BlockCounted
    <3>2. Refs(c) # 0
      BY <1>c, <1>d, UseCount
    <3> QED BY <3>1, <3>2
  <2> QED BY <1>2, <1>3, <1>d, <2>1, LockedKeeps DEF LockMutex
<1>e. CASE spCount[c].use = 0
  <2>1. Refs(c) = 0
    <3>1. Refs(c) \in Nat /\ Busy("add_ref_copy", c) \in Nat
      BY <1>1, BlockCounted
    <3> QED BY <3>1, <1>e, UseCount
  <2>2. /\ spCount' \in [SpBlocks -> [use : Int, weak : Int]]
        /\ \A b \in SpBlocks :
              /\ spCount'[b].use = IF b = c THEN 1 ELSE spCount[b].use
              /\ spCount'[b].weak = spCount[b].weak
    <3>1. spCount' = [spCount EXCEPT ![c].use = 1]
      <4>1. spCount' = [spCount EXCEPT ![c].use = spCount[c].use + 1]
        BY <1>3 DEF LockMutex
      <4> QED BY <4>1, <1>e
    <3>2. PICK n \in Int : n = 1
      OBVIOUS
    <3>3. spCount' = [spCount EXCEPT ![c].use = n]
      BY <3>1, <3>2
    <3> QED BY <1>1, <3>2, <3>3, UseChange
  <2>3. /\ spMutex' = [spMutex EXCEPT ![c] = t] /\ spShared' = spShared
        /\ spWork' = [spWork EXCEPT ![t][1].op = "undo"]
    BY <1>3, <1>e DEF LockMutex
  <2>4. PICK x : x = [Head(spWork[t]) EXCEPT !.op = "undo"]
    OBVIOUS
  <2>5. Head(spWork[t]) \in TaskType /\ spWork[t] \in Seq(TaskType) /\ spWork[t][1] = Head(spWork[t])
    BY <1>1, <1>2, AtHand
  <2>6. x \in TaskType /\ x.op = "undo" /\ x.b = c /\ x.slot = Head(spWork[t]).slot
    BY <1>3, <2>4, <2>5 DEF TaskType, Ops, Blk
  <2>7. WorkDone(t, <<x>>)
    <3>1. spWork' = [spWork EXCEPT ![t] = [spWork[t] EXCEPT ![1] = x]]
      BY <1>1, <1>2, <2>3, <2>4, <2>5 DEF SpTypeOK
    <3>2. Takes(t, <<x>>)
      BY <1>1, <1>2, <2>6, <3>1, TaskChanged
    <3>3. <<x>> \in Seq(TaskType) /\ Len(<<x>>) <= 2 /\ 2 \notin DOMAIN <<x>>
      BY <2>6
    <3> QED BY <1>1, <3>2, <3>3, WorkIsDone
  <2>8. (CopiesHeld(t) /\ WeakCopiesHeld(t) /\ LocksHeld(t))'
    BY <1>a, <2>3, <2>6, <2>7, HoldsLock DEF LockMutex
  <2>9. SpTypeOK' /\ WorkSound' /\ FinitePending'
    <3>1. spMutex' \in [SpBlocks -> SpThreads \cup {SpNull}]
      BY <1>1, <2>3 DEF SpTypeOK
    <3> QED BY <1>1, <2>2, <2>3, <2>7, <2>8, <3>1, StepHolds DEF LockMutex, SpTypeOK
  <2>10. MutexSound'
    <3>1. spMutex'[c] = t /\ \A b \in SpBlocks : b # c => spMutex'[b] = spMutex[b]
      BY <1>1, <2>3 DEF SpTypeOK
    <3>2. \A u \in SpThreads : u # t => \A b \in SpBlocks : On(u, "undo", b)' <=> On(u, "undo", b)
      BY <2>7 DEF On, Doing, Blk, WorkDone
    <3>3. \A b \in SpBlocks : On(t, "undo", b)' <=> b = c
      <4>1. spWork'[t] # <<>> /\ Head(spWork'[t]) = x
        BY <2>7 DEF WorkDone
      <4> QED BY <4>1, <2>6 DEF On, Doing, Blk
    <3>4. \A b \in SpBlocks : ~On(t, "undo", b)
      BY <1>2 DEF On, Doing
    <3> SUFFICES ASSUME NEW b \in SpBlocks, NEW u \in SpThreads
                 PROVE  spMutex'[b] = u <=> On(u, "undo", b)'
      BY DEF MutexSound
    <3>5. spMutex[b] = u <=> On(u, "undo", b)
      BY DEF SpInv, MutexSound
    <3>6. CASE b = c
      BY <3>1, <3>2, <3>3, <3>6, <1>b
    <3>7. CASE b # c
      BY <3>1, <3>2, <3>3, <3>4, <3>5, <3>7
    <3> QED BY <3>6, <3>7
  <2>11. ASSUME NEW b \in SpBlocks PROVE BlockSound(b)'
    <3>1. Recount(b, 0, 0, 0, Is(b, c), 0, 0)
      <4>1. /\ Cardinality(Vars(b))' = Cardinality(Vars(b)) + 0
            /\ Cardinality(Members(b))' = Cardinality(Members(b)) + 0
            /\ Cardinality(WeakVars(b))' = Cardinality(WeakVars(b)) + 0
        <5>1. ~Doing(t, "weak_add_ref") /\ <<x>>[1] = x
          BY <1>2 DEF Doing
        <5>2. /\ Cardinality(Vars(b))' = Cardinality(Vars(b))
              /\ Cardinality(Members(b))' = Cardinality(Members(b))
              /\ Cardinality(WeakVars(b))' = Cardinality(WeakVars(b))
          BY <2>3, <2>6, <2>7, <5>1, Unmoved, WeakUnmoved DEF LockMutex
        <5> QED BY <5>2, FiniteNow DEF FiniteCounts
      <4>2. /\ Added(t, <<x>>, "release", b) = 0 - (0 + 0)
            /\ Added(t, <<x>>, "weak_release", b) = 0 - 0
            /\ Begun(t, <<x>>, "add_ref_copy", b) = 0 /\ Begun(t, <<x>>, "undo", b) = Is(b, c)
            /\ Begun(t, <<x>>, "dispose", b) = 0 /\ Begun(t, <<x>>, "destroy", b) = 0
        <5>1. \A op : Hit(x, op, b) = IF op = "undo" THEN Is(b, c) ELSE 0
          BY <2>6 DEF Hit, One, Is
        <5>2. ASSUME NEW op
              PROVE  /\ Added(t, <<x>>, op, b) = Hit(x, op, b) - Now(t, op, b)
                     /\ Begun(t, <<x>>, op, b) = Hit(x, op, b) - Now(t, op, b)
          BY Tally
        <5>3. Is(b, c) \in {0, 1}
          BY DEF Is
        <5> QED BY <1>4, <5>1, <5>2, <5>3
      <4> QED BY <2>7, <4>1, <4>2, Recounted
    <3>2. BlockSound(b) /\ spState' = spState /\ spNext' = spNext
      BY DEF SpInv, LockMutex
    <3>3. CASE b # c
      <4>1. Is(b, c) = 0
        BY <3>3 DEF Is
      <4>2. Recount(b, 0, 0, 0, 0, 0, 0)
        BY <3>1, <4>1
      <4>3. spCount'[b].use = spCount[b].use /\ spCount'[b].weak = spCount[b].weak
        BY <2>2, <3>3
      <4> QED BY <3>2, <4>2, <4>3 DEF Recount, BlockSound
    <3>4. CASE b = c
      <4>1. Is(b, c) = 1
        BY <3>4 DEF Is
      <4>2. Recount(b, 0, 0, 0, 1, 0, 0)
        BY <3>1, <4>1
      <4>3. /\ spCount'[b].use = spCount[b].use + 1 /\ spCount'[b].weak = spCount[b].weak
            /\ Refs(b) = 0 /\ Busy("undo", b) = 0
        BY <1>c, <1>e, <2>1, <2>2, <3>4
      <4> QED BY <3>2, <4>2, <4>3 DEF Recount, BlockSound
    <3> QED BY <3>3, <3>4
  <2> QED BY <2>9, <2>10, <2>11 DEF SpInv
<1> QED BY <1>d, <1>e

\* _M_add_ref_lock keeps the invariant when it takes back the reference it added to zero.
LEMMA LockUndoKeeps ==
    ASSUME SpInv, NEW t \in SpThreads, LockUndo(t)
    PROVE  SpInv'
<1>1. SpTypeOK /\ ReleasesLast /\ FinitePending
  BY DEF SpInv, WorkSound
<1>2. Doing(t, "undo") /\ spWork[t] # <<>>
  BY DEF LockUndo, Doing
<1>3. PICK c \in SpBlocks : c = Blk(t)
  BY <1>1, <1>2, AtHand
<1>4. \A op, b : Now(t, op, b) = IF op = "undo" /\ b = c THEN 1 ELSE 0
  BY <1>2, <1>3 DEF On, Doing, Now
<1>5. WorkDone(t, <<>>)
  BY <1>2, NoWork DEF LockUndo
<1>6. /\ spCount' \in [SpBlocks -> [use : Int, weak : Int]]
      /\ \A b \in SpBlocks :
            /\ spCount'[b].use = IF b = c THEN 0 ELSE spCount[b].use
            /\ spCount'[b].weak = spCount[b].weak
  <2>1. spCount' = [spCount EXCEPT ![c].use = 0]
    BY <1>3 DEF LockUndo
  <2>2. PICK n \in Int : n = 0
    OBVIOUS
  <2>3. spCount' = [spCount EXCEPT ![c].use = n]
    BY <2>1, <2>2
  <2> QED BY <1>1, <2>2, <2>3, UseChange
<1>7. /\ spMutex' \in [SpBlocks -> SpThreads \cup {SpNull}]
      /\ spMutex'[c] = SpNull /\ \A b \in SpBlocks : b # c => spMutex'[b] = spMutex[b]
  <2>1. spMutex' = [spMutex EXCEPT ![c] = SpNull]
    BY <1>3 DEF LockUndo
  <2> QED BY <1>1, <2>1 DEF SpTypeOK
<1>8. SpTypeOK' /\ WorkSound' /\ FinitePending'
  <2>1. (CopiesHeld(t) /\ WeakCopiesHeld(t) /\ LocksHeld(t))'
    BY <1>5, HoldsNothing
  <2> QED BY <1>1, <1>5, <1>6, <1>7, <2>1, StepHolds DEF LockUndo, SpTypeOK
<1>9. MutexSound'
  <2>1. ~Doing(t, "undo")'
    BY <1>5, DoesNext
  <2>2. \A u \in SpThreads : u # t => \A b \in SpBlocks : On(u, "undo", b)' <=> On(u, "undo", b)
    BY <1>5 DEF On, Doing, Blk, WorkDone
  <2>3. spMutex[c] = t /\ \A b \in SpBlocks : b # c => spMutex[b] # t
    BY <1>2, <1>3 DEF SpInv, MutexSound, On
  <2> SUFFICES ASSUME NEW b \in SpBlocks, NEW u \in SpThreads
               PROVE  spMutex'[b] = u <=> On(u, "undo", b)'
    BY DEF MutexSound
  <2>4. spMutex[b] = u <=> On(u, "undo", b)
    BY DEF SpInv, MutexSound
  <2>5. u = t => ~On(u, "undo", b)'
    BY <2>1 DEF On
  <2> QED BY <1>7, <2>2, <2>3, <2>4, <2>5, SpAssumption
<1>10. ASSUME NEW b \in SpBlocks PROVE BlockSound(b)'
  <2>1. Recount(b, 0, 0, 0, -Is(b, c), 0, 0)
    <3>1. /\ Cardinality(Vars(b))' = Cardinality(Vars(b)) + 0
          /\ Cardinality(Members(b))' = Cardinality(Members(b)) + 0
          /\ Cardinality(WeakVars(b))' = Cardinality(WeakVars(b)) + 0
      <4>1. /\ Cardinality(Vars(b))' = Cardinality(Vars(b))
            /\ Cardinality(Members(b))' = Cardinality(Members(b))
            /\ Cardinality(WeakVars(b))' = Cardinality(WeakVars(b))
        BY <1>2, <1>5, Unmoved, WeakUnmoved DEF LockUndo, Doing
      <4> QED BY <4>1, FiniteNow DEF FiniteCounts
    <3>2. /\ Added(t, <<>>, "release", b) = 0 - (0 + 0)
          /\ Added(t, <<>>, "weak_release", b) = 0 - 0
          /\ Begun(t, <<>>, "add_ref_copy", b) = 0 /\ Begun(t, <<>>, "undo", b) = -Is(b, c)
          /\ Begun(t, <<>>, "dispose", b) = 0 /\ Begun(t, <<>>, "destroy", b) = 0
      BY <1>4, Tally DEF Is
    <3> QED BY <1>5, <3>1, <3>2, Recounted
  <2>2. BlockSound(b) /\ spState' = spState /\ spNext' = spNext
    BY DEF SpInv, LockUndo
  <2>3. CASE b # c
    <3>1. Is(b, c) = 0
      BY <2>3 DEF Is
    <3>2. Recount(b, 0, 0, 0, 0, 0, 0)
      BY <2>1, <3>1
    <3>3. spCount'[b].use = spCount[b].use /\ spCount'[b].weak = spCount[b].weak
      BY <1>6, <2>3
    <3> QED BY <2>2, <3>2, <3>3 DEF Recount, BlockSound
  <2>4. CASE b = c
    <3>1. Is(b, c) = 1
      BY <2>4 DEF Is
    <3>2. Recount(b, 0, 0, 0, -1, 0, 0)
      BY <2>1, <3>1
    <3>3. Busy("undo", b) > 0
      BY <1>1, <1>2, <1>3, <2>4, AtHand
    <3>4. Refs(b) = 0 /\ Busy("undo", b) = 1
      BY <2>2, <3>2, <3>3 DEF Recount, BlockSound
    <3>5. Busy("add_ref_copy", b) = 0
      BY <3>4, UseCount
    <3>6. spCount'[b].use = 0 /\ spCount'[b].weak = spCount[b].weak
      BY <1>6, <2>4
    <3>7. /\ Refs(b)' = 0 /\ WeakRefs(b)' = WeakRefs(b)
          /\ Busy("add_ref_copy", b)' = 0 /\ Busy("undo", b)' = 0
          /\ Busy("dispose", b)' = Busy("dispose", b) /\ Busy("destroy", b)' = Busy("destroy", b)
      BY <3>2, <3>4, <3>5 DEF Recount
    <3> QED BY <2>2, <3>4, <3>6, <3>7 DEF BlockSound
  <2> QED BY <2>3, <2>4
<1> QED BY <1>8, <1>9, <1>10 DEF SpInv

\* What is counted, and what an assignment releases afterwards
AssignmentDone(t, w, add, rel, new, old) ==
    /\ WorkDone(t, w)
    /\ w # <<>> => w[1].op \in {add, rel}
    /\ new # SpNull => w # <<>> /\ w[1] = Task(add, new)
    /\ new = SpNull => w = <<>> \/ w[1].op = rel
    /\ new # SpNull /\ old # SpNull => 2 \in DOMAIN w /\ w[2] = Task(rel, old)
    /\ \A b \in SpBlocks :
          /\ Added(t, w, rel, b) = Is(old, b) /\ Begun(t, w, add, b) = Is(new, b)
          /\ \A op \in Ops \ {add, rel} : Added(t, w, op, b) = 0 /\ Begun(t, w, op, b) = 0

\* What an assignment has to do
LEMMA Assigned ==
    ASSUME SpInv, NEW t \in SpThreads, SpIdle(t),
           NEW add \in Ops \ {"release", "weak_release"}, NEW rel \in {"release", "weak_release"},
           NEW new \in SpBlocks \cup {SpNull}, NEW old \in SpBlocks \cup {SpNull},
           NEW w, w = TaskOn(add, new) \o TaskOn(rel, old),
           spWork' = [spWork EXCEPT ![t] = w]
    PROVE  AssignmentDone(t, w, add, rel, new, old)
<1>1. SpTypeOK /\ ReleasesLast /\ FinitePending
  BY DEF SpInv, WorkSound
<1>2. /\ new # SpNull => Task(add, new) \in TaskType
      /\ old # SpNull => Task(rel, old) \in TaskType
  BY Tasks DEF Ops
<1>3. w = IF new = SpNull THEN (IF old = SpNull THEN <<>> ELSE <<Task(rel, old)>>)
          ELSE IF old = SpNull THEN <<Task(add, new)>> ELSE <<Task(add, new), Task(rel, old)>>
  <2>1. CASE new = SpNull /\ old = SpNull
    BY <2>1, ConcatEmptySeq, EmptySeq DEF TaskOn
  <2>2. CASE new = SpNull /\ old # SpNull
    BY <2>2, <1>2, TwoTasks DEF TaskOn
  <2>3. CASE new # SpNull /\ old = SpNull
    BY <2>3, <1>2, TwoTasks DEF TaskOn
  <2>4. CASE new # SpNull /\ old # SpNull
    BY <2>4, <1>2, TwoTasks DEF TaskOn
  <2> QED BY <2>1, <2>2, <2>3, <2>4
<1>4. /\ \A b : Task(add, b).op = add /\ Task(add, b).b = b
      /\ \A b : Task(rel, b).op = rel /\ Task(rel, b).b = b
  BY DEF Task
<1>5. w \in Seq(TaskType) /\ Len(w) <= 2 /\ (2 \in DOMAIN w => w[2].op = rel)
  BY <1>2, <1>3, <1>4
<1>6. WorkDone(t, w)
  <2>1. Takes(t, w)
    BY DEF Takes, SpIdle
  <2> QED BY <1>1, <1>5, <2>1, WorkIsDone
<1>7. /\ w # <<>> => w[1].op \in {add, rel}
      /\ new # SpNull => w # <<>> /\ w[1] = Task(add, new)
      /\ new = SpNull => w = <<>> \/ w[1].op = rel
      /\ new # SpNull /\ old # SpNull => 2 \in DOMAIN w /\ w[2] = Task(rel, old)
  BY <1>3, <1>4
<1>8. ASSUME NEW b \in SpBlocks
      PROVE  /\ Added(t, w, rel, b) = Is(old, b) /\ Begun(t, w, add, b) = Is(new, b)
             /\ \A op \in Ops \ {add, rel} : Added(t, w, op, b) = 0 /\ Begun(t, w, op, b) = 0
  <2>1. \A op : Now(t, op, b) = 0
    BY DEF Now, On, Doing, SpIdle
  <2>2. /\ \A op : Hit(Task(add, new), op, b) = IF op = add THEN Is(new, b) ELSE 0
        /\ \A op : Hit(Task(rel, old), op, b) = IF op = rel THEN Is(old, b) ELSE 0
    BY <1>4 DEF Hit, One, Is
  <2>3. /\ Is(new, b) \in {0, 1} /\ Is(old, b) \in {0, 1} /\ add # rel
        /\ new = SpNull => Is(new, b) = 0
        /\ old = SpNull => Is(old, b) = 0
    BY SpAssumption DEF Is
  <2>4. ASSUME NEW op
        PROVE  /\ Added(t, w, op, b) = (IF op = add THEN Is(new, b) ELSE 0)
                                         + (IF op = rel THEN Is(old, b) ELSE 0)
               /\ op # rel => Begun(t, w, op, b) = IF op = add THEN Is(new, b) ELSE 0
    <3>1. CASE new = SpNull /\ old = SpNull
      <4>1. Added(t, <<>>, op, b) = -Now(t, op, b) /\ Begun(t, <<>>, op, b) = -Now(t, op, b)
        BY Tally
      <4>2. w = <<>>
        BY <3>1, <1>3
      <4> QED BY <4>1, <4>2, <3>1, <2>1, <2>3
    <3>2. CASE new = SpNull /\ old # SpNull
      <4>1. w = <<Task(rel, old)>>
        BY <3>2, <1>3
      <4>2. /\ Added(t, w, op, b) = Hit(Task(rel, old), op, b) - Now(t, op, b)
            /\ Begun(t, w, op, b) = Hit(Task(rel, old), op, b) - Now(t, op, b)
        BY <4>1, Tally
      <4> QED BY <4>2, <3>2, <2>1, <2>2, <2>3
    <3>3. CASE new # SpNull /\ old = SpNull
      <4>1. w = <<Task(add, new)>>
        BY <3>3, <1>3
      <4>2. /\ Added(t, w, op, b) = Hit(Task(add, new), op, b) - Now(t, op, b)
            /\ Begun(t, w, op, b) = Hit(Task(add, new), op, b) - Now(t, op, b)
        BY <4>1, Tally
      <4> QED BY <4>2, <3>3, <2>1, <2>2, <2>3
    <3>4. CASE new # SpNull /\ old # SpNull
      <4>1. w = <<Task(add, new), Task(rel, old)>>
        BY <3>4, <1>3
      <4>2. /\ Added(t, w, op, b) = (Hit(Task(add, new), op, b) + Hit(Task(rel, old), op, b)) - Now(t, op, b)
            /\ Begun(t, w, op, b) = Hit(Task(add, new), op, b) - Now(t, op, b)
        BY <4>1, Tally
      <4> QED BY <4>2, <3>4, <2>1, <2>2, <2>3
    <3> QED BY <3>1, <3>2, <3>3, <3>4
  <2> QED BY <2>3, <2>4
<1> QED BY <1>6, <1>7, <1>8 DEF AssignmentDone

\* A copy of a reference to a block that has some, which is still to be counted
LEMMA Copied ==
    ASSUME NEW b, BlockSound(b), Recount(b, 1, 0, 1, 0, 0, 0), Refs(b) > 0,
           spCount'[b] = spCount[b], spState'[b] = spState[b], spNext'[b] = spNext[b]
    PROVE  BlockSound(b)'
<1>1. /\ spState[b] = "live" /\ Busy("dispose", b) = 0 /\ Busy("destroy", b) = 0
      /\ Busy("undo", b) = 0
  BY DEF Recount, BlockSound
<1>2. /\ Refs(b) \in Nat /\ Refs(b)' = Refs(b) + 1
      /\ WeakRefs(b) \in Nat /\ WeakRefs(b)' = WeakRefs(b)
      /\ Busy("add_ref_copy", b) \in Nat /\ Busy("add_ref_copy", b)' = Busy("add_ref_copy", b) + 1
      /\ Busy("undo", b)' = 0 /\ Busy("dispose", b)' = 0 /\ Busy("destroy", b)' = 0
      /\ spCount[b].use \in Int /\ spCount[b].weak \in Int
  BY <1>1 DEF Recount
<1> QED BY <1>1, <1>2 DEF BlockSound

\* shared_ptr's assignment keeps the invariant: the copy is owed by who holds a second
\* reference.
LEMMA SharedAssignKeeps ==
    ASSUME SpInv, NEW t \in SpThreads, NEW s \in SpSlots, NEW new \in SpBlocks \cup {SpNull},
           SharedAssign(t, s, new)
    PROVE  SpInv'
<1>1. SpTypeOK /\ FinitePending
  BY DEF SpInv
<1>2. PICK old \in SpBlocks \cup {SpNull} : old = spShared[t][s]
  BY <1>1 DEF SpTypeOK
<1>3. PICK w : w = TaskOn("add_ref_copy", new) \o TaskOn("release", old)
  OBVIOUS
<1>4. /\ SpIdle(t) /\ spWork' = [spWork EXCEPT ![t] = w] /\ new # old
      /\ spShared' = [spShared EXCEPT ![t][s] = new]
      /\ UNCHANGED <<spCount, spState, spNext, spMutex, spWeakPtr, spPolicy>>
  BY <1>2, <1>3 DEF SharedAssign, AssignWork
<1>5. /\ WorkDone(t, w)
      /\ w # <<>> => w[1].op \in {"add_ref_copy", "release"}
      /\ new # SpNull => w # <<>> /\ w[1] = Task("add_ref_copy", new)
      /\ new = SpNull => w = <<>> \/ w[1].op = "release"
      /\ new # SpNull /\ old # SpNull => 2 \in DOMAIN w /\ w[2] = Task("release", old)
      /\ \A b \in SpBlocks :
            /\ Added(t, w, "release", b) = Is(old, b) /\ Begun(t, w, "add_ref_copy", b) = Is(new, b)
            /\ \A op \in Ops \ {"add_ref_copy", "release"} :
                  Added(t, w, op, b) = 0 /\ Begun(t, w, op, b) = 0
  <2>1. "add_ref_copy" \in Ops \ {"release", "weak_release"} /\ "release" \in {"release", "weak_release"}
    BY DEF Ops
  <2>2. AssignmentDone(t, w, "add_ref_copy", "release", new, old)
    BY <1>3, <1>4, <2>1, Assigned
  <2> QED BY <2>2 DEF AssignmentDone
<1>6. \/ new = SpNull
      \/ \E r \in SpSlots \ {s} : new = spShared[t][r]
      \/ old # SpNull /\ new = spNext[old]
  BY <1>2, <1>4 DEF SharedAssign
<1>7. new # SpNull => new \in SpBlocks /\ Refs(new) > 0
  BY <1>1, <1>2, <1>6, BlockCounted
<1>8. spShared'[t][s] = new /\ \A r \in SpSlots \ {s} : spShared'[t][r] = spShared[t][r]
  BY <1>1, <1>4 DEF SpTypeOK
<1>9. CopiesHeld(t)'
  <2> SUFFICES ASSUME Doing(t, "add_ref_copy")'
               PROVE  (\E q \in SpSlots :
                          /\ spShared[t][q] = Blk(t)
                          /\ \/ \E r \in SpSlots \ {q} : spShared[t][r] = Blk(t)
                             \/ /\ 2 \in 1 .. Len(spWork[t]) /\ spWork[t][2].op = "release"
                                /\ spNext[spWork[t][2].b] = Blk(t))'
    BY DEF CopiesHeld
  <2>1. w # <<>> /\ w[1].op = "add_ref_copy" /\ Blk(t)' = w[1].b
    BY <1>5, DoesNext
  <2>2. new # SpNull /\ Blk(t)' = new
    BY <1>5, <2>1 DEF Task
  <2>3. CASE \E r \in SpSlots \ {s} : new = spShared[t][r]
    BY <1>8, <2>2, <2>3
  <2>4. CASE old # SpNull /\ new = spNext[old]
    <3>1. 2 \in 1 .. Len(spWork'[t]) /\ spWork'[t][2] = Task("release", old)
      BY <1>5, <2>2, <2>4 DEF WorkDone
    <3>2. spWork'[t][2].op = "release" /\ spWork'[t][2].b = old
      BY <3>1 DEF Task
    <3> QED BY <1>4, <1>8, <2>2, <2>4, <3>1, <3>2
  <2> QED BY <1>6, <2>2, <2>3, <2>4
<1>10. WeakCopiesHeld(t)' /\ LocksHeld(t)'
  <2>1. \A op : Doing(t, op)' => op \in {"add_ref_copy", "release", "weak_release"}
    BY <1>5, DoesNext
  <2> QED BY <2>1 DEF WeakCopiesHeld, LocksHeld
<1>11. SpTypeOK' /\ WorkSound' /\ FinitePending'
  <2>1. /\ spShared' \in [SpThreads -> [SpSlots -> SpBlocks \cup {SpNull}]]
        /\ \A u \in SpThreads : u # t => spShared'[u] = spShared[u]
    BY <1>1, <1>4 DEF SpTypeOK
  <2>2. WorkDone(t, w)
    BY <1>5
  <2> QED BY <1>1, <1>4, <1>9, <1>10, <2>1, <2>2, StepHolds DEF SpTypeOK
<1>12. ~Doing(t, "undo") /\ ~Doing(t, "weak_add_ref")
       /\ (w # <<>> => w[1].op # "undo" /\ w[1].op # "weak_add_ref")
  BY <1>4, <1>5 DEF Doing, SpIdle
<1>13. MutexSound'
  BY <1>4, <1>5, <1>12, SameMutex
<1>14. ASSUME NEW b \in SpBlocks PROVE BlockSound(b)'
  <2>0. Is(old, b) \in {0, 1} /\ Is(new, b) \in {0, 1}
    BY DEF Is
  <2>1. Recount(b, Is(new, b), 0, Is(new, b), 0, 0, 0)
    <3>1. /\ Cardinality(Members(b))' = Cardinality(Members(b)) + 0
          /\ Cardinality(WeakVars(b))' = Cardinality(WeakVars(b)) + 0
      <4>1. /\ Cardinality(Members(b))' = Cardinality(Members(b))
            /\ Cardinality(WeakVars(b))' = Cardinality(WeakVars(b))
        BY <1>4, <1>5, <1>12, Unmoved, WeakUnmoved
      <4> QED BY <4>1, FiniteNow DEF FiniteCounts
    <3>2. PICK dv \in Int : dv = Is(new, b) - Is(old, b)
      BY <2>0
    <3>3. Cardinality(Vars(b))' = Cardinality(Vars(b)) + dv
      <4>1. /\ Cardinality(Vars(b)) \in Nat
            /\ Cardinality(Vars(b))' = (Cardinality(Vars(b)) - Is(spShared[t][s], b)) + Is(new, b)
        BY <1>1, <1>4, VarsChange
      <4> QED BY <1>2, <2>0, <3>2, <4>1
    <3>4. /\ Added(t, w, "release", b) = Is(new, b) - (dv + 0)
          /\ Added(t, w, "weak_release", b) = 0 - 0
          /\ Begun(t, w, "add_ref_copy", b) = Is(new, b) /\ Begun(t, w, "undo", b) = 0
          /\ Begun(t, w, "dispose", b) = 0 /\ Begun(t, w, "destroy", b) = 0
      <4>1. {"weak_release", "undo", "dispose", "destroy"} \subseteq Ops \ {"add_ref_copy", "release"}
        BY DEF Ops
      <4>2. /\ Added(t, w, "release", b) = Is(old, b) /\ Begun(t, w, "add_ref_copy", b) = Is(new, b)
            /\ Added(t, w, "weak_release", b) = 0 /\ Begun(t, w, "undo", b) = 0
            /\ Begun(t, w, "dispose", b) = 0 /\ Begun(t, w, "destroy", b) = 0
        BY <1>5, <4>1
      <4>3. Is(old, b) = Is(new, b) - (dv + 0)
        BY <2>0, <3>2
      <4> QED BY <4>2, <4>3
    <3>5. WorkDone(t, w) /\ Is(new, b) \in Int
      BY <1>5, <2>0
    <3> QED BY <3>1, <3>3, <3>4, <3>5, Recounted
  <2>2. BlockSound(b)
    BY DEF SpInv
  <2>3. CASE b # new
    <3>1. Is(new, b) = 0
      BY <2>3 DEF Is
    <3>2. Recount(b, 0, 0, 0, 0, 0, 0)
      BY <2>1, <3>1
    <3> QED BY <1>4, <2>2, <3>2 DEF Recount, BlockSound
  <2>4. CASE b = new
    <3>1. Is(new, b) = 1 /\ Refs(b) > 0
      BY <1>7, <2>4, SpAssumption DEF Is
    <3>2. Recount(b, 1, 0, 1, 0, 0, 0)
      BY <2>1, <3>1
    <3> QED BY <1>4, <2>2, <3>1, <3>2, Copied
  <2> QED BY <2>3, <2>4
<1> QED BY <1>11, <1>13, <1>14 DEF SpInv

VarSet(t, s, new) == spShared' = [spShared EXCEPT ![t][s] = new]

\* VarsChange for a variable that is set
LEMMA VarSetCounted ==
    ASSUME SpTypeOK, NEW t \in SpThreads, NEW s \in SpSlots, NEW new \in SpBlocks \cup {SpNull},
           VarSet(t, s, new), NEW b
    PROVE  /\ Cardinality(Vars(b)) \in Nat
           /\ Cardinality(Vars(b))' = (Cardinality(Vars(b)) - Is(spShared[t][s], b)) + Is(new, b)
  BY VarsChange DEF VarSet

\* weak_ptr's assignment keeps the invariant.
LEMMA WeakAssignKeeps ==
    ASSUME SpInv, NEW t \in SpThreads, NEW new \in SpBlocks \cup {SpNull}, WeakAssign(t, new)
    PROVE  SpInv'
<1>1. SpTypeOK /\ FinitePending
  BY DEF SpInv
<1>2. PICK old \in SpBlocks \cup {SpNull} : old = spWeakPtr[t]
  BY <1>1 DEF SpTypeOK
<1>3. PICK w : w = TaskOn("weak_add_ref", new) \o TaskOn("weak_release", old)
  OBVIOUS
<1>4. /\ SpIdle(t) /\ spWork' = [spWork EXCEPT ![t] = w]
      /\ spWeakPtr' = [spWeakPtr EXCEPT ![t] = new]
      /\ new # SpNull => \E s \in SpSlots : spShared[t][s] = new
      /\ UNCHANGED <<spCount, spState, spNext, spMutex, spShared, spPolicy>>
  BY <1>2, <1>3 DEF WeakAssign
<1>5. /\ WorkDone(t, w)
      /\ w # <<>> => w[1].op \in {"weak_add_ref", "weak_release"}
      /\ new # SpNull => w # <<>> /\ w[1] = Task("weak_add_ref", new)
      /\ \A b \in SpBlocks :
            /\ Added(t, w, "weak_release", b) = Is(old, b)
            /\ \A op \in Ops \ {"weak_add_ref", "weak_release"} :
                  Added(t, w, op, b) = 0 /\ Begun(t, w, op, b) = 0
  <2>1. "weak_add_ref" \in Ops \ {"release", "weak_release"} /\ "weak_release" \in {"release", "weak_release"}
    BY DEF Ops
  <2>2. AssignmentDone(t, w, "weak_add_ref", "weak_release", new, old)
    BY <1>3, <1>4, <2>1, Assigned
  <2> QED BY <2>2 DEF AssignmentDone
<1>6. spWeakPtr'[t] = new /\ \A u \in SpThreads : u # t => spWeakPtr'[u] = spWeakPtr[u]
  BY <1>1, <1>4 DEF SpTypeOK
<1>7. \A op : Doing(t, op)' => \/ op \in {"release", "weak_release"}
                               \/ op = "weak_add_ref" /\ new # SpNull /\ Blk(t)' = new
  <2> SUFFICES ASSUME NEW op, Doing(t, op)', op \notin {"release", "weak_release"}
               PROVE  op = "weak_add_ref" /\ new # SpNull /\ Blk(t)' = new
    OBVIOUS
  <2>1. w # <<>> /\ w[1].op = op /\ Blk(t)' = w[1].b
    BY <1>5, DoesNext
  <2>2. new # SpNull
    <3>1. AssignmentDone(t, w, "weak_add_ref", "weak_release", new, old)
      <4>1. "weak_add_ref" \in Ops \ {"release", "weak_release"} /\ "weak_release" \in {"release", "weak_release"}
        BY DEF Ops
      <4> QED BY <1>3, <1>4, <4>1, Assigned
    <3> QED BY <2>1, <3>1 DEF AssignmentDone
  <2> QED BY <1>5, <2>1, <2>2 DEF Task
<1>8. (CopiesHeld(t) /\ WeakCopiesHeld(t) /\ LocksHeld(t))'
  <2>1. CopiesHeld(t)' /\ LocksHeld(t)'
    BY <1>7 DEF CopiesHeld, LocksHeld
  <2>2. WeakCopiesHeld(t)'
    BY <1>4, <1>6, <1>7 DEF WeakCopiesHeld
  <2> QED BY <2>1, <2>2
<1>9. SpTypeOK' /\ WorkSound' /\ FinitePending'
  <2>1. WorkDone(t, w) /\ spWeakPtr' \in [SpThreads -> SpBlocks \cup {SpNull}]
    BY <1>1, <1>4, <1>5 DEF SpTypeOK
  <2> QED BY <1>1, <1>4, <1>6, <1>8, <2>1, StepHolds DEF SpTypeOK
<1>10. MutexSound'
  <2>1. ~Doing(t, "undo") /\ (w # <<>> => w[1].op # "undo")
    BY <1>4, <1>5 DEF Doing, SpIdle
  <2> QED BY <1>4, <1>5, <2>1, SameMutex
<1>11. ASSUME NEW b \in SpBlocks PROVE BlockSound(b)'
  <2>0. Is(old, b) \in {0, 1}
    BY DEF Is
  <2>1. Recount(b, 0, 0, 0, 0, 0, 0)
    <3>1. /\ Cardinality(Vars(b))' = Cardinality(Vars(b)) + 0
          /\ Cardinality(Members(b))' = Cardinality(Members(b)) + 0
      <4>1. /\ Cardinality(Vars(b))' = Cardinality(Vars(b))
            /\ Cardinality(Members(b))' = Cardinality(Members(b))
        BY <1>4, Unmoved
      <4> QED BY <4>1, FiniteNow DEF FiniteCounts
    <3>2. PICK dw \in Int : dw = -Is(old, b)
      BY <2>0
    <3>3. Cardinality(WeakVars(b))' = Cardinality(WeakVars(b)) + dw
      <4>1. \A u \in SpThreads : u # t => /\ spWeakPtr'[u] = spWeakPtr[u]
                                          /\ Doing(u, "weak_add_ref")' <=> Doing(u, "weak_add_ref")
        BY <1>5, <1>6 DEF Doing, WorkDone
      <4>2. /\ Cardinality(WeakVars(b)) \in Nat
            /\ Cardinality(WeakVars(b))' = (Cardinality(WeakVars(b)) - HasWeak(t, b)) + HasWeak(t, b)'
        BY <4>1, WeakVarsChange
      <4>3. HasWeak(t, b) = Is(old, b)
        BY <1>2, <1>4 DEF HasWeak, Is, Doing, SpIdle
      <4>4. HasWeak(t, b)' = 0
        <5>1. CASE new = SpNull
          BY <5>1, <1>6, SpAssumption DEF HasWeak
        <5>2. CASE new # SpNull
          <6>1. spWork'[t] # <<>> /\ Head(spWork'[t]) = Task("weak_add_ref", new)
            BY <5>2, <1>5 DEF WorkDone
          <6>2. Doing(t, "weak_add_ref")'
            BY <6>1 DEF Doing, Task
          <6> QED BY <6>2 DEF HasWeak
        <5> QED BY <5>1, <5>2
      <4> QED BY <2>0, <3>2, <4>2, <4>3, <4>4
    <3>4. /\ Added(t, w, "release", b) = 0 - (0 + 0)
          /\ Added(t, w, "weak_release", b) = 0 - dw
          /\ Begun(t, w, "add_ref_copy", b) = 0 /\ Begun(t, w, "undo", b) = 0
          /\ Begun(t, w, "dispose", b) = 0 /\ Begun(t, w, "destroy", b) = 0
      <4>1. {"release", "add_ref_copy", "undo", "dispose", "destroy"}
               \subseteq Ops \ {"weak_add_ref", "weak_release"}
        BY DEF Ops
      <4>2. /\ Added(t, w, "release", b) = 0 /\ Added(t, w, "weak_release", b) = Is(old, b)
            /\ Begun(t, w, "add_ref_copy", b) = 0 /\ Begun(t, w, "undo", b) = 0
            /\ Begun(t, w, "dispose", b) = 0 /\ Begun(t, w, "destroy", b) = 0
        BY <1>5, <4>1
      <4> QED BY <2>0, <3>2, <4>2
    <3>5. WorkDone(t, w)
      BY <1>5
    <3> QED BY <3>1, <3>3, <3>4, <3>5, Recounted
  <2>2. BlockSound(b)
    BY DEF SpInv
  <2> QED BY <1>4, <2>1, <2>2 DEF Recount, BlockSound
<1> QED BY <1>9, <1>10, <1>11 DEF SpInv

\* A step that leaves all work alone
LEMMA NobodyWorks ==
    ASSUME SpInv, NEW t \in SpThreads, SpIdle(t), UNCHANGED spWork
    PROVE  /\ WorkDone(t, <<>>)
           /\ (CopiesHeld(t) /\ WeakCopiesHeld(t) /\ LocksHeld(t))'
           /\ ~Doing(t, "undo") /\ ~Doing(t, "weak_add_ref")
           /\ \A op, b : Added(t, <<>>, op, b) = 0 /\ Begun(t, <<>>, op, b) = 0
<1>1. SpTypeOK /\ ReleasesLast /\ FinitePending
  BY DEF SpInv, WorkSound
<1>2. Takes(t, <<>>)
  BY <1>1 DEF Takes, SpIdle, SpTypeOK
<1>3. <<>> \in Seq(TaskType) /\ Len(<<>>) <= 2 /\ 2 \notin DOMAIN <<>>
  OBVIOUS
<1>4. WorkDone(t, <<>>)
  BY <1>1, <1>2, <1>3, WorkIsDone
<1>5. \A op : ~Doing(t, op) /\ ~Doing(t, op)'
  BY DEF Doing, SpIdle
<1>6. \A op, b : Now(t, op, b) = 0
  BY <1>5 DEF Now, On
<1> QED BY <1>4, <1>5, <1>6, Tally DEF CopiesHeld, WeakCopiesHeld, LocksHeld

\* A shared pointer handed to another thread keeps the invariant.
LEMMA SendKeeps ==
    ASSUME SpInv, NEW t \in SpThreads, NEW s \in SpSlots, NEW u \in SpThreads, NEW r \in SpSlots,
           Send(t, s, u, r)
    PROVE  SpInv'
<1>1. SpTypeOK /\ FinitePending
  BY DEF SpInv
<1>2. PICK c \in SpBlocks : c = spShared[t][s]
  BY <1>1 DEF SpTypeOK, Send
<1>3. Refs(c) > 0
  BY <1>1, <1>2, BlockCounted
<1>4. /\ WorkDone(u, <<>>)
      /\ (CopiesHeld(u) /\ WeakCopiesHeld(u) /\ LocksHeld(u))'
      /\ ~Doing(u, "undo") /\ ~Doing(u, "weak_add_ref")
      /\ \A op, b : Added(u, <<>>, op, b) = 0 /\ Begun(u, <<>>, op, b) = 0
  BY NobodyWorks DEF Send
<1>5. spShared' = [spShared EXCEPT ![u][r] = c] /\ spShared[u][r] = SpNull
  BY <1>2 DEF Send
<1>6. /\ spCount' \in [SpBlocks -> [use : Int, weak : Int]]
      /\ \A b \in SpBlocks :
            /\ spCount'[b].use = IF b = c THEN spCount[c].use + 1 ELSE spCount[b].use
            /\ spCount'[b].weak = spCount[b].weak
  <2>1. spCount' = [spCount EXCEPT ![c].use = spCount[c].use + 1]
    BY <1>2 DEF Send
  <2>2. spCount[c].use + 1 \in Int
    BY <1>1, BlockCounted
  <2> QED BY <1>1, <2>1, <2>2, UseChange
<1>7. SpTypeOK' /\ WorkSound' /\ FinitePending'
  <2>1. /\ spShared' \in [SpThreads -> [SpSlots -> SpBlocks \cup {SpNull}]]
        /\ \A v \in SpThreads : v # u => spShared'[v] = spShared[v]
    BY <1>1, <1>5 DEF SpTypeOK
  <2> QED BY <1>1, <1>4, <1>6, <2>1, StepHolds DEF Send, SpTypeOK
<1>8. MutexSound'
  BY <1>4, SameMutex DEF Send
<1>9. ASSUME NEW b \in SpBlocks PROVE BlockSound(b)'
  <2>0. Is(c, b) \in {0, 1} /\ Is(SpNull, b) = 0
    BY SpAssumption DEF Is
  <2>1. Recount(b, Is(c, b), 0, 0, 0, 0, 0)
    <3>1. /\ Cardinality(Members(b))' = Cardinality(Members(b)) + 0
          /\ Cardinality(WeakVars(b))' = Cardinality(WeakVars(b)) + 0
      <4>1. /\ Cardinality(Members(b))' = Cardinality(Members(b))
            /\ Cardinality(WeakVars(b))' = Cardinality(WeakVars(b))
        BY <1>4, Unmoved, WeakUnmoved DEF Send
      <4> QED BY <4>1, FiniteNow DEF FiniteCounts
    <3>2. Cardinality(Vars(b))' = Cardinality(Vars(b)) + Is(c, b)
      <4>1. /\ Cardinality(Vars(b)) \in Nat
            /\ Cardinality(Vars(b))' = (Cardinality(Vars(b)) - Is(spShared[u][r], b)) + Is(c, b)
        <5>1. VarSet(u, r, c)
          BY <1>5 DEF VarSet
        <5> QED BY <1>1, <5>1, VarSetCounted
      <4> QED BY <1>5, <2>0, <4>1
    <3>3. /\ Added(u, <<>>, "release", b) = Is(c, b) - (Is(c, b) + 0)
          /\ Added(u, <<>>, "weak_release", b) = 0 - 0
          /\ Begun(u, <<>>, "add_ref_copy", b) = 0 /\ Begun(u, <<>>, "undo", b) = 0
          /\ Begun(u, <<>>, "dispose", b) = 0 /\ Begun(u, <<>>, "destroy", b) = 0
      BY <1>4, <2>0
    <3> QED BY <1>4, <2>0, <3>1, <3>2, <3>3, Recounted
  <2>2. BlockSound(b) /\ spState' = spState /\ spNext' = spNext
    BY DEF SpInv, Send
  <2>3. CASE b # c
    <3>1. Is(c, b) = 0
      BY <2>3 DEF Is
    <3>2. Recount(b, 0, 0, 0, 0, 0, 0)
      BY <2>1, <3>1
    <3>3. spCount'[b].use = spCount[b].use /\ spCount'[b].weak = spCount[b].weak
      BY <1>6, <2>3
    <3> QED BY <2>2, <3>2, <3>3 DEF Recount, BlockSound
  <2>4. CASE b = c
    <3>1. Is(c, b) = 1 /\ Refs(b) > 0
      BY <1>3, <2>4 DEF Is
    <3>2. Recount(b, 1, 0, 0, 0, 0, 0)
      BY <2>1, <3>1
    <3>3. spCount'[b].use = spCount[b].use + 1 /\ spCount'[b].weak = spCount[b].weak
      BY <1>6, <2>4
    <3> QED BY <2>2, <3>1, <3>2, <3>3, Referred
  <2> QED BY <2>3, <2>4
<1> QED BY <1>7, <1>8, <1>9 DEF SpInv

\* Nobody refers to a free block and nothing is being done to it.
LEMMA FreeBlock ==
    ASSUME SpInv, NEW c \in SpBlocks, spState[c] = "free"
    PROVE  /\ Refs(c) = 0 /\ WeakRefs(c) = 0 /\ spNext[c] = SpNull
           /\ Busy("add_ref_copy", c) = 0 /\ Busy("undo", c) = 0
           /\ Busy("dispose", c) = 0 /\ Busy("destroy", c) = 0
<1>1. SpTypeOK /\ FinitePending /\ BlockSound(c) /\ \A u \in SpThreads : LocksHeld(u)
  BY DEF SpInv, WorkSound
<1>2. /\ Refs(c) \in Nat /\ WeakRefs(c) \in Nat /\ Busy("add_ref_copy", c) \in Nat
      /\ Busy("undo", c) \in Nat /\ Busy("dispose", c) \in Nat /\ Busy("destroy", c) \in Nat
  BY <1>1, BlockCounted
<1>3. /\ Refs(c) = 0 /\ WeakRefs(c) = 0 /\ spNext[c] = SpNull
      /\ Busy("dispose", c) = 0 /\ Busy("destroy", c) = 0
  BY <1>1, <1>2 DEF BlockSound
<1>4. Busy("add_ref_copy", c) = 0
  BY <1>3, UseCount
<1>5. Busy("undo", c) = 0
  <2> SUFFICES ASSUME Busy("undo", c) # 0 PROVE FALSE
    OBVIOUS
  <2>1. IsFiniteSet(Doers("undo", c))
    BY FiniteSets
  <2>2. Cardinality(Doers("undo", c)) > 0
    BY <1>2 DEF Busy
  <2>3. PICK u \in SpThreads : On(u, "undo", c)
    BY <2>1, <2>2, SomeOrNone DEF Doers
  <2>4. spWeakPtr[u] = c /\ ~Doing(u, "weak_add_ref")
    BY <1>1, <2>3 DEF LocksHeld, On, Doing
  <2> QED BY <1>1, <1>3, <2>4, BlockCounted
<1> QED BY <1>3, <1>4, <1>5

\* make_shared keeps the invariant: the new block is free of references.
LEMMA MakeSharedKeeps ==
    ASSUME SpInv, NEW t \in SpThreads, NEW s \in SpSlots, NEW c \in SpBlocks, MakeShared(t, s, c)
    PROVE  SpInv'
<1>1. SpTypeOK /\ FinitePending
  BY DEF SpInv
<1>2. PICK old \in SpBlocks \cup {SpNull} : old = spShared[t][s]
  BY <1>1 DEF SpTypeOK
<1>3. spState[c] = "free"
  BY DEF MakeShared
<1>4. /\ Refs(c) = 0 /\ WeakRefs(c) = 0 /\ spNext[c] = SpNull
      /\ Busy("add_ref_copy", c) = 0 /\ Busy("undo", c) = 0
      /\ Busy("dispose", c) = 0 /\ Busy("destroy", c) = 0
  BY <1>3, FreeBlock
<1>5. old # c
  BY <1>1, <1>2, <1>4, BlockCounted
<1>6. /\ WorkDone(t, <<>>)
      /\ (CopiesHeld(t) /\ WeakCopiesHeld(t) /\ LocksHeld(t))'
      /\ ~Doing(t, "undo") /\ ~Doing(t, "weak_add_ref")
      /\ \A op, b : Added(t, <<>>, op, b) = 0 /\ Begun(t, <<>>, op, b) = 0
  BY NobodyWorks DEF MakeShared
<1>7. /\ spCount'[c] = [use |-> 1, weak |-> 2] /\ spState'[c] = "live" /\ spNext'[c] = old
      /\ \A b \in SpBlocks : b # c => /\ spCount'[b] = spCount[b] /\ spState'[b] = spState[b]
                                      /\ spNext'[b] = spNext[b]
  BY <1>1, <1>2 DEF MakeShared, SpTypeOK
<1>8. SpTypeOK' /\ WorkSound' /\ FinitePending'
  <2>1. /\ spCount' \in [SpBlocks -> [use : Int, weak : Int]]
        /\ spState' \in [SpBlocks -> {"free", "live", "disposed"}]
        /\ spNext' \in [SpBlocks -> SpBlocks \cup {SpNull}]
        /\ spShared' \in [SpThreads -> [SpSlots -> SpBlocks \cup {SpNull}]]
    BY <1>1, <1>2 DEF MakeShared, SpTypeOK
  <2>2. \A u \in SpThreads : u # t => spShared'[u] = spShared[u]
    BY <1>1 DEF MakeShared, SpTypeOK
  <2>3. \A b \in SpBlocks : Refs(b) > 0 => spNext'[b] = spNext[b]
    BY <1>4, <1>7
  <2> QED BY <1>1, <1>6, <2>1, <2>2, <2>3, StepHolds DEF MakeShared, SpTypeOK
<1>9. MutexSound'
  BY <1>6, SameMutex DEF MakeShared
<1>10. ASSUME NEW b \in SpBlocks PROVE BlockSound(b)'
  <2>0. Is(c, b) \in {0, 1} /\ Is(old, b) \in {0, 1} /\ Is(SpNull, b) = 0
    BY SpAssumption DEF Is
  <2>1. Recount(b, Is(c, b), 0, 0, 0, 0, 0)
    <3>1. PICK dv \in Int : dv = Is(c, b) - Is(old, b)
      BY <2>0
    <3>2. PICK dm \in Int : dm = Is(old, b)
      BY <2>0
    <3>3. Cardinality(Vars(b))' = Cardinality(Vars(b)) + dv
      <4>1. VarSet(t, s, c)
        BY DEF MakeShared, VarSet
      <4>2. /\ Cardinality(Vars(b)) \in Nat
            /\ Cardinality(Vars(b))' = (Cardinality(Vars(b)) - Is(spShared[t][s], b)) + Is(c, b)
        BY <1>1, <4>1, VarSetCounted
      <4> QED BY <1>2, <2>0, <3>1, <4>2
    <3>4. Cardinality(Members(b))' = Cardinality(Members(b)) + dm
      <4>1. spNext' = [spNext EXCEPT ![c] = old]
        BY <1>2 DEF MakeShared
      <4>2. /\ Cardinality(Members(b)) \in Nat
            /\ Cardinality(Members(b))' = (Cardinality(Members(b)) - Is(spNext[c], b)) + Is(old, b)
        BY <1>1, <4>1, MembersChange
      <4> QED BY <1>4, <2>0, <3>2, <4>2
    <3>5. Cardinality(WeakVars(b))' = Cardinality(WeakVars(b)) + 0
      <4>1. Cardinality(WeakVars(b))' = Cardinality(WeakVars(b))
        BY <1>6, WeakUnmoved DEF MakeShared
      <4> QED BY <4>1, FiniteNow DEF FiniteCounts
    <3>6. /\ Added(t, <<>>, "release", b) = Is(c, b) - (dv + dm)
          /\ Added(t, <<>>, "weak_release", b) = 0 - 0
          /\ Begun(t, <<>>, "add_ref_copy", b) = 0 /\ Begun(t, <<>>, "undo", b) = 0
          /\ Begun(t, <<>>, "dispose", b) = 0 /\ Begun(t, <<>>, "destroy", b) = 0
      BY <1>6, <2>0, <3>1, <3>2
    <3> QED BY <1>6, <2>0, <3>3, <3>4, <3>5, <3>6, Recounted
  <2>2. BlockSound(b)
    BY DEF SpInv
  <2>3. CASE b # c
    <3>1. Recount(b, 0, 0, 0, 0, 0, 0)
      BY <2>1, <2>3 DEF Is
    <3> QED BY <1>7, <2>2, <2>3, <3>1 DEF Recount, BlockSound
  <2>4. CASE b = c
    <3>1. /\ Refs(b)' = 1 /\ WeakRefs(b)' = 0 /\ Busy("add_ref_copy", b)' = 0 /\ Busy("undo", b)' = 0
          /\ Busy("dispose", b)' = 0 /\ Busy("destroy", b)' = 0
      BY <1>4, <2>1, <2>4 DEF Recount, Is
    <3> QED BY <1>7, <2>4, <3>1 DEF BlockSound
  <2> QED BY <2>3, <2>4
<1> QED BY <1>8, <1>9, <1>10 DEF SpInv

\* The invariant speaks of spVars only.
LEMMA StutterKeeps == ASSUME SpInv, UNCHANGED spVars PROVE SpInv'
<1>1. /\ spCount' = spCount /\ spState' = spState /\ spNext' = spNext /\ spMutex' = spMutex
      /\ spShared' = spShared /\ spWeakPtr' = spWeakPtr /\ spWork' = spWork /\ spPolicy' = spPolicy
  BY DEF spVars
<1>2. /\ SpTypeOK' <=> SpTypeOK
      /\ FinitePending' <=> FinitePending
  BY <1>1 DEF SpTypeOK, FinitePending
<1>3. WorkSound' <=> WorkSound
  BY <1>1 DEF WorkSound, ReleasesLast, CopiesHeld, WeakCopiesHeld, LocksHeld, Doing, Blk
<1>4. MutexSound' <=> MutexSound
  BY <1>1 DEF MutexSound, On, Doing, Blk
<1>5. ASSUME NEW b \in SpBlocks PROVE BlockSound(b)' <=> BlockSound(b)
  <2>1. Refs(b)' = Refs(b) /\ WeakRefs(b)' = WeakRefs(b)
    BY <1>1 DEF Refs, WeakRefs, Vars, Members, WeakVars, Pending, Doing
  <2>2. \A op : Busy(op, b)' = Busy(op, b)
    BY <1>1 DEF Busy, Doers, On, Doing, Blk
  <2> QED BY <1>1, <2>1, <2>2 DEF BlockSound
<1> QED BY <1>2, <1>3, <1>4, <1>5 DEF SpInv

\* Every step keeps the counts right.
LEMMA SpStep == ASSUME SpInv, [SpNext]_spVars PROVE SpInv'
<1>1. ASSUME NEW t \in SpThreads, NEW s \in SpSlots, NEW b \in SpBlocks \cup {SpNull}, SharedAssign(t, s, b)
      PROVE  SpInv'
  BY <1>1, SharedAssignKeeps
<1>2. ASSUME NEW t \in SpThreads, NEW s \in SpSlots, NEW b \in SpBlocks, MakeShared(t, s, b)
      PROVE  SpInv'
  BY <1>2, MakeSharedKeeps
<1>3. ASSUME NEW t \in SpThreads, NEW u \in SpThreads, NEW s \in SpSlots, NEW r \in SpSlots, Send(t, s, u, r)
      PROVE  SpInv'
  BY <1>3, SendKeeps
<1>4. ASSUME NEW t \in SpThreads, NEW b \in SpBlocks \cup {SpNull}, WeakAssign(t, b)
      PROVE  SpInv'
  BY <1>4, WeakAssignKeeps
<1>5. ASSUME NEW t \in SpThreads, NEW s \in SpSlots, Lock(t, s)
      PROVE  SpInv'
  BY <1>5, LockKeeps
<1>6. ASSUME NEW t \in SpThreads, \/ _M_add_ref_copy(t) \/ _M_release(t) \/ _M_dispose(t)
                                  \/ _M_weak_add_ref(t) \/ _M_weak_release(t) \/ _M_destroy(t)
      PROVE  SpInv'
  BY <1>6, AddRefCopyKeeps, ReleaseKeeps, DisposeKeeps, WeakAddRefKeeps, WeakReleaseKeeps, DestroyKeeps
<1>7. ASSUME NEW t \in SpThreads, LockLoad(t) \/ LockCas(t) \/ LockMutex(t) \/ LockUndo(t)
      PROVE  SpInv'
  BY <1>7, LockLoadKeeps, LockCasKeeps, LockMutexKeeps, LockUndoKeeps
<1>8. CASE UNCHANGED spVars
  BY <1>8, StutterKeeps
<1>9. CASE SpNext
  BY <1>1, <1>2, <1>3, <1>4, <1>5, <1>6, <1>7, <1>9 DEF SpNext
<1> QED BY <1>8, <1>9

\* At first nobody refers to any block.
LEMMA SpStart == SpInit => SpInv
<1> SUFFICES ASSUME SpInit PROVE SpInv
  OBVIOUS
<1>1. <<>> \in Seq(TaskType) /\ Len(<<>>) = 0
  OBVIOUS
<1>2. /\ \A t \in SpThreads : spWork[t] = <<>> /\ spWeakPtr[t] = SpNull
      /\ \A t \in SpThreads, s \in SpSlots : spShared[t][s] = SpNull
      /\ \A b \in SpBlocks : /\ spCount[b] = [use |-> 0, weak |-> 0] /\ spState[b] = "free"
                             /\ spNext[b] = SpNull /\ spMutex[b] = SpNull
  BY DEF SpInit
<1>3. SpTypeOK
  BY <1>1 DEF SpInit, SpTypeOK
<1>4. \A t \in SpThreads : \A op : ~Doing(t, op)
  BY <1>2 DEF Doing
<1>5. WorkSound
  BY <1>1, <1>2, <1>4 DEF WorkSound, ReleasesLast, CopiesHeld, WeakCopiesHeld, LocksHeld
<1>6. MutexSound
  BY <1>2, <1>4, SpAssumption DEF MutexSound, On
<1>7. ASSUME NEW b \in SpBlocks
      PROVE  /\ Vars(b) = {} /\ Members(b) = {} /\ WeakVars(b) = {}
             /\ \A op : Doers(op, b) = {} /\ PendingIn(spWork, op, b) = {}
  <2>1. Vars(b) = {} /\ Members(b) = {} /\ WeakVars(b) = {}
    BY <1>2, SpAssumption DEF Vars, Members, WeakVars
  <2>2. \A op : Doers(op, b) = {}
    BY <1>4 DEF Doers, On
  <2>3. \A op : PendingIn(spWork, op, b) = {}
    <3>1. \A p \in SpThreads \X (Nat \ {0}) : ~(p[2] <= Len(spWork[p[1]]))
      BY <1>1, <1>2
    <3> QED BY <3>1 DEF PendingIn
  <2> QED BY <2>1, <2>2, <2>3
<1>8. IsFiniteSet({}) /\ Cardinality({}) = 0
  BY FS_EmptySet
<1>9. FinitePending
  BY <1>7, <1>8 DEF FinitePending
<1>10. ASSUME NEW b \in SpBlocks PROVE BlockSound(b)
  <2>1. Refs(b) = 0 /\ WeakRefs(b) = 0 /\ \A op : Busy(op, b) = 0
    <3>1. /\ Cardinality(Vars(b)) = 0 /\ Cardinality(Members(b)) = 0 /\ Cardinality(WeakVars(b)) = 0
          /\ \A op : Busy(op, b) = 0 /\ Pending(op, b) = 0
      BY <1>7, <1>8 DEF Busy, Pending
    <3> QED BY <3>1 DEF Refs, WeakRefs
  <2> QED BY <1>2, <2>1 DEF BlockSound
<1> QED BY <1>3, <1>5, <1>6, <1>9, <1>10 DEF SpInv

\* What is pending is somebody's task.
LEMMA Owned ==
    ASSUME SpTypeOK, FinitePending, NEW op \in Ops, NEW b \in SpBlocks, Pending(op, b) > 0
    PROVE  \E t \in SpThreads : \E i \in DOMAIN spWork[t] : spWork[t][i].b = b
<1>1. PICK p \in PendingIn(spWork, op, b) : TRUE
  BY SomeOrNone DEF Pending, FinitePending
<1>2. p[1] \in SpThreads /\ p[2] \in Nat \ {0} /\ p[2] <= Len(spWork[p[1]])
  BY <1>1 DEF PendingIn
<1>3. spWork[p[1]] \in Seq(TaskType)
  BY <1>2 DEF SpTypeOK
<1>4. PICK i \in Int : i = Len(spWork[p[1]]) + 1 - p[2]
  BY <1>2, <1>3
<1>5. i \in DOMAIN spWork[p[1]]
  BY <1>2, <1>3, <1>4
<1>6. spWork[p[1]][i].b = b
  BY <1>1, <1>4 DEF PendingIn
<1> QED BY <1>2, <1>5, <1>6

\* So is what is being done.
LEMMA Done ==
    ASSUME SpTypeOK, NEW op, NEW b \in SpBlocks, Busy(op, b) > 0
    PROVE  \E t \in SpThreads : \E i \in DOMAIN spWork[t] : spWork[t][i].b = b
<1>1. PICK t \in SpThreads : On(t, op, b)
  BY SomeOrNone, FiniteSets DEF Busy, Doers
<1>2. 1 \in 1 .. Len(spWork[t]) /\ spWork[t][1] = Head(spWork[t]) /\ spWork[t] \in Seq(TaskType)
  BY <1>1, AtHand DEF On
<1>3. 1 \in DOMAIN spWork[t] /\ spWork[t][1].b = b
  BY <1>1, <1>2 DEF On, Blk
<1> QED BY <1>3

\* The invariant implies what is claimed of the counts.
LEMMA SpSound == SpInv => CountsSound
<1> SUFFICES ASSUME SpInv PROVE CountsSound
  OBVIOUS
<1>0. /\ SpTypeOK /\ FinitePending /\ ReleasesLast
      /\ \A t \in SpThreads : CopiesHeld(t) /\ WeakCopiesHeld(t) /\ LocksHeld(t)
  BY DEF SpInv, WorkSound
<1>a. ASSUME NEW b \in SpBlocks
      PROVE  /\ Refs(b) \in Nat /\ WeakRefs(b) \in Nat
             /\ Busy("dispose", b) \in Nat /\ Busy("destroy", b) \in Nat
             /\ Refs(b) > 0 => spState[b] = "live"
             /\ WeakRefs(b) > 0 => spState[b] \in {"live", "disposed"}
             /\ Busy("dispose", b) > 0 => spState[b] = "live"
             /\ Busy("destroy", b) > 0 => spState[b] = "disposed"
             /\ spState[b] = "live" => Refs(b) > 0 \/ Busy("dispose", b) > 0
             /\ spState[b] = "disposed" => WeakRefs(b) > 0 \/ Busy("destroy", b) > 0
             /\ spState[b] \in {"free", "live", "disposed"}
  <2>1. BlockSound(b) /\ spState[b] \in {"free", "live", "disposed"}
    BY <1>0 DEF SpInv, SpTypeOK
  <2>2. /\ Refs(b) \in Nat /\ WeakRefs(b) \in Nat
        /\ Busy("dispose", b) \in Nat /\ Busy("destroy", b) \in Nat
    BY <1>0, BlockCounted
  <2> QED BY <2>1, <2>2 DEF BlockSound
<1>1. ASSUME NEW t \in SpThreads, NEW s \in SpSlots, spShared[t][s] # SpNull
      PROVE  spState[spShared[t][s]] = "live"
  <2>1. PICK b \in SpBlocks : b = spShared[t][s]
    BY <1>0, <1>1 DEF SpTypeOK
  <2>2. Refs(b) > 0
    BY <1>0, <2>1, BlockCounted
  <2> QED BY <1>a, <2>1, <2>2
<1>2. ASSUME NEW t \in SpThreads, NEW b \in SpBlocks, spWeakPtr[t] = b
      PROVE  spState[b] \in {"live", "disposed"}
  <2>1. CASE ~Doing(t, "weak_add_ref")
    <3>1. WeakRefs(b) > 0
      BY <1>0, <1>2, <2>1, BlockCounted
    <3> QED BY <1>a, <3>1
  <2>2. CASE Doing(t, "weak_add_ref")
    <3>1. PICK s \in SpSlots : spShared[t][s] = b
      BY <1>0, <1>2, <2>2 DEF WeakCopiesHeld
    <3>2. Refs(b) > 0
      BY <1>0, <3>1, BlockCounted
    <3> QED BY <1>a, <3>2
  <2> QED BY <2>1, <2>2
<1>3. ASSUME NEW t \in SpThreads, NEW i \in DOMAIN spWork[t]
      PROVE  /\ spWork[t][i].b \in SpBlocks
             /\ spState[spWork[t][i].b] \in Allowed(spWork[t][i].op)
             /\ spState[spWork[t][i].b] # "free"
  <2>1. spWork[t] \in Seq(TaskType) /\ i \in 1 .. Len(spWork[t]) /\ Len(spWork[t]) \in Nat
    BY <1>0 DEF SpTypeOK
  <2>2. spWork[t][i] \in TaskType
    BY <2>1
  <2>3. PICK b \in SpBlocks, op \in Ops : b = spWork[t][i].b /\ op = spWork[t][i].op
    BY <2>2 DEF TaskType
  <2>4. CASE op \in {"release", "weak_release"}
    <3>1. (op = "release" => Refs(b) > 0) /\ (op = "weak_release" => WeakRefs(b) > 0)
      BY <1>0, <2>1, <2>3, BlockCounted
    <3>2. /\ op = "release" => spState[b] = "live"
          /\ op = "weak_release" => spState[b] \in {"live", "disposed"}
      BY <1>a, <3>1
    <3> QED BY <2>3, <2>4, <3>2 DEF Allowed
  <2>5. CASE op \notin {"release", "weak_release"}
    <3>1. i = 1
      <4>1. ~(i \in 2 .. Len(spWork[t]))
        BY <1>0, <2>3, <2>5 DEF ReleasesLast
      <4> QED BY <2>1, <4>1
    <3>2. Doing(t, op) /\ Blk(t) = b
      BY <2>1, <2>3, <3>1 DEF Doing, Blk
    <3>3. CASE op = "add_ref_copy"
      <4>1. PICK s \in SpSlots : spShared[t][s] = b
        BY <1>0, <3>2, <3>3 DEF CopiesHeld
      <4>2. Refs(b) > 0
        BY <1>0, <4>1, BlockCounted
      <4> QED BY <1>a, <2>3, <3>3, <4>2 DEF Allowed
    <3>4. CASE op \in {"dispose", "destroy"}
      <4>1. Busy(op, b) > 0
        BY <1>0, <3>2, AtHand
      <4>2. (op = "dispose" => spState[b] = "live") /\ (op = "destroy" => spState[b] = "disposed")
        BY <1>a, <4>1
      <4> QED BY <2>3, <3>4, <4>2 DEF Allowed
    <3>5. CASE op \in {"weak_add_ref", "load", "cas", "lock", "undo"}
      <4>1. spWeakPtr[t] = b
        BY <1>0, <3>2, <3>5 DEF WeakCopiesHeld, LocksHeld
      <4>2. spState[b] \in {"live", "disposed"}
        BY <1>2, <4>1
      <4> QED BY <2>3, <3>5, <4>2 DEF Allowed
    <3> QED BY <2>5, <3>3, <3>4, <3>5 DEF Ops
  <2> QED BY <2>4, <2>5
<1>4. ASSUME NEW c \in SpBlocks, spNext[c] # SpNull
      PROVE  spState[spNext[c]] = "live"
  <2>1. PICK b \in SpBlocks : b = spNext[c]
    BY <1>0, <1>4 DEF SpTypeOK
  <2>2. Refs(b) > 0
    BY <1>0, <2>1, BlockCounted
  <2> QED BY <1>a, <2>1, <2>2
<1>5. ASSUME NEW b \in SpBlocks, Referenced(b) PROVE spState[b] # "free"
  <2>0. b # SpNull
    BY SpAssumption
  <2>1. CASE \E t \in SpThreads : spWeakPtr[t] = b
    BY <1>2, <2>1
  <2>2. CASE \E t \in SpThreads, s \in SpSlots : spShared[t][s] = b
    BY <1>1, <2>0, <2>2
  <2>3. CASE \E t \in SpThreads : \E i \in DOMAIN spWork[t] : spWork[t][i].b = b
    BY <1>3, <2>3
  <2>4. CASE \E c \in SpBlocks : spNext[c] = b
    BY <1>4, <2>0, <2>4
  <2> QED BY <1>5, <2>1, <2>2, <2>3, <2>4 DEF Referenced
<1>6. ASSUME NEW b \in SpBlocks, spState[b] # "free" PROVE Referenced(b)
  <2>0. /\ Cardinality(Vars(b)) \in Nat /\ Cardinality(Members(b)) \in Nat
        /\ Cardinality(WeakVars(b)) \in Nat
        /\ Pending("release", b) \in Nat /\ Pending("weak_release", b) \in Nat
        /\ "release" \in Ops /\ "weak_release" \in Ops
    BY <1>0, BlockCounted DEF Ops
  <2>1. CASE Busy("dispose", b) > 0 \/ Busy("destroy", b) > 0
    BY <1>0, <2>1, Done DEF Referenced
  <2>2. CASE Pending("release", b) > 0 \/ Pending("weak_release", b) > 0
    BY <1>0, <2>0, <2>2, Owned DEF Referenced
  <2>3. CASE Cardinality(Vars(b)) > 0
    <3>1. PICK p : p \in Vars(b)
      BY <2>3, SomeOrNone, FiniteSets
    <3> QED BY <3>1 DEF Vars, Referenced
  <2>4. CASE Cardinality(Members(b)) > 0
    <3>1. PICK c : c \in Members(b)
      BY <2>4, SomeOrNone, FiniteSets
    <3> QED BY <3>1 DEF Members, Referenced
  <2>5. CASE Cardinality(WeakVars(b)) > 0
    <3>1. PICK t : t \in WeakVars(b)
      BY <2>5, SomeOrNone, FiniteSets
    <3> QED BY <3>1 DEF WeakVars, Referenced
  <2>6. Refs(b) > 0 \/ WeakRefs(b) > 0 \/ Busy("dispose", b) > 0 \/ Busy("destroy", b) > 0
    BY <1>a, <1>6
  <2> QED BY <2>0, <2>1, <2>2, <2>3, <2>4, <2>5, <2>6 DEF Refs, WeakRefs
<1>7. \A t \in SpThreads : spWeakPtr[t] # SpNull => spState[spWeakPtr[t]] # "free"
  BY <1>0, <1>2 DEF SpTypeOK
<1> QED BY <1>1, <1>3, <1>4, <1>5, <1>6, <1>7 DEF CountsSound

-----------------------------------------------------------------------------
(* Theorems *)

\* The counters of a control block are the references that are held and that are still to be
\* given up, less the copies that are still to be counted; the state of the block follows.
THEOREM SpInvariance == SpSpec => []SpInv
<1>1. SpInit => SpInv
  BY SpStart
<1>2. SpInv /\ [SpNext]_spVars => SpInv'
  BY SpStep
<1> QED BY <1>1, <1>2, PTL DEF SpSpec

\* No pointer dangles, no counter of a destroyed block is touched, an object is disposed of
\* once and its block destroyed once, by the last reference, and nothing leaks: for any number
\* of threads, variables and blocks and both lock policies.
THEOREM CountsSoundAlways == SpSpec => []CountsSound
BY SpInvariance, SpSound, PTL

=============================================================================
