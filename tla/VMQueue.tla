------------------------------ MODULE VMQueue ------------------------------
(***************************************************************************)
(* The hand-over protocol between the Redis main thread and the VM I/O     *)
(* threads (redis/2.2/VM/vm.c), with jobs counted and not told apart: the  *)
(* lists io_newjobs and io_processed, the threads that come and go, and    *)
(* the pipe in which a thread leaves one byte per completed job.  Module   *)
(* RedisVM implements this specification.                                  *)
(***************************************************************************)
EXTENDS Integers, FiniteSets

CONSTANTS
    MaxThreads,  \* server.vm_max_threads
    PipeSize,    \* bytes the pipe holds before write(2) blocks
    MaxJobs      \* bound on the length of io_newjobs

ASSUME QueueAssumption ==
    /\ MaxThreads \in Nat \ {0}
    /\ PipeSize \in Nat \ {0}
    /\ MaxJobs \in Nat

VARIABLES
    newjobs,    \* length of io_newjobs
    processed,  \* length of io_processed
    thread,     \* program counter of each I/O thread
    active,     \* io_active_threads
    pipe        \* bytes in the pipe

queueVars == <<newjobs, processed, thread, active, pipe>>

Threads == 1..MaxThreads
ThreadState == {"exited", "top", "work", "signal"}

Running == {t \in Threads : thread[t] # "exited"}
\* threads that have added their job to io_processed and not yet written the byte
Signalling == {t \in Threads : thread[t] = "signal"}

QueueInit ==
    /\ newjobs = 0
    /\ processed = 0
    /\ thread = [t \in Threads |-> "exited"]
    /\ active = 0
    /\ pipe = 0

\* Mutant: the job is queued and no thread started for it
EnqueueLazySpawn ==
    /\ newjobs < MaxJobs
    /\ newjobs' = newjobs + 1
    /\ UNCHANGED <<active, thread>>

\* queueIOJob with spawnIOThread: a thread is started unless the maximum runs already
Enqueue ==
    /\ newjobs < MaxJobs
    /\ newjobs' = newjobs + 1
    /\ \/ /\ active < MaxThreads
          /\ active' = active + 1
          /\ \E t \in Threads \ Running : thread' = [thread EXCEPT ![t] = "top"]
       \/ /\ active >= MaxThreads
          /\ UNCHANGED <<active, thread>>

QueueJob == Enqueue /\ UNCHANGED <<processed, pipe>>

\* vmCancelThreadedIOJob removes a job that no thread has taken
CancelQueued ==
    /\ newjobs > 0
    /\ newjobs' = newjobs - 1
    /\ UNCHANGED <<processed, thread, active, pipe>>

\* One round of vmThreadedIOCompletedJob: a byte is read and the oldest processed job taken;
\* a prepared swap is queued again
CompleteJob ==
    /\ pipe > 0
    /\ pipe' = pipe - 1
    /\ processed' = processed - 1
    /\ Enqueue \/ UNCHANGED <<newjobs, active, thread>>

\* IOThreadEntryPoint
TakeJob(t) ==
    /\ thread[t] = "top" /\ newjobs > 0
    /\ newjobs' = newjobs - 1
    /\ thread' = [thread EXCEPT ![t] = "work"]
    /\ UNCHANGED <<processed, active, pipe>>

ThreadExit(t) ==
    /\ thread[t] = "top" /\ newjobs = 0
    /\ active' = active - 1
    /\ thread' = [thread EXCEPT ![t] = "exited"]
    /\ UNCHANGED <<newjobs, processed, pipe>>

FinishJob(t) ==
    /\ thread[t] = "work"
    /\ processed' = processed + 1
    /\ thread' = [thread EXCEPT ![t] = "signal"]
    /\ UNCHANGED <<newjobs, active, pipe>>

SignalMain(t) ==
    /\ thread[t] = "signal" /\ pipe < PipeSize
    /\ pipe' = pipe + 1
    /\ thread' = [thread EXCEPT ![t] = "top"]
    /\ UNCHANGED <<newjobs, processed, active>>

MainThread == QueueJob \/ CancelQueued \/ CompleteJob
IOThread(t) == TakeJob(t) \/ ThreadExit(t) \/ FinishJob(t) \/ SignalMain(t)

QueueNext == MainThread \/ \E t \in Threads : IOThread(t)

QueueSpec == QueueInit /\ [][QueueNext]_queueVars

----------------------------------------------------------------------------
(* Properties *)

\* The counters are natural numbers: no list is popped when empty
QueueTypeOK ==
    /\ newjobs \in Nat
    /\ processed \in Nat
    /\ thread \in [Threads -> ThreadState]
    /\ active \in 0..MaxThreads
    /\ pipe \in 0..PipeSize

\* One job in io_processed for every byte in the pipe and every thread about to write one:
\* `redisAssert(listLength(server.io_processed) != 0)` holds whenever read(2) got a byte,
\* and no completed job is left without a byte that announces it
OneBytePerJob == processed = pipe + Cardinality(Signalling)

\* io_active_threads counts the threads that run, so waitEmptyIOJobsQueue, which tests it,
\* returns only when no thread is at work
ActiveThreadsExact == active = Cardinality(Running)

\* A queued job is never stranded: while there is one, a thread runs, and a thread leaves
\* only when the list is empty
NoStrandedJob == newjobs > 0 => Running # {}

\* The hand-over of jobs between queueIOJob, IOThreadEntryPoint and vmThreadedIOCompletedJob
\* loses nothing: every completed job has its byte, every thread is counted, and no job waits
\* without a thread that will take it
HandoverSound == OneBytePerJob /\ ActiveThreadsExact /\ NoStrandedJob

============================================================================
