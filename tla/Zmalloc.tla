------------------------------ MODULE Zmalloc ------------------------------
(***************************************************************************)
(* The counter of used memory in redis' zmalloc.c (the build without       *)
(* HAVE_MALLOC_SIZE: every block carries its size in a prefix).            *)
(*                                                                         *)
(* An update of the counter is one step under the mutex once               *)
(* zmalloc_enable_thread_safeness was called, and a load and a store       *)
(* before.  vmInit calls it before it starts the first thread.             *)
(***************************************************************************)
EXTENDS Integers, Sequences, FiniteSets, FiniteSetsExt

CONSTANTS Mallocers,   \* the threads
          FirstThread,  \* the one that runs vmInit
          Blocks,      \* addresses malloc may return
          Sizes,       \* sizes asked for
          WordSize,    \* sizeof(long)
          PrefixSize,  \* PREFIX_SIZE
          SizeMod      \* 2^width of size_t

\* No block is at NULL and every block was asked for; a prefix is whole words, so that it
\* does not change how a size is rounded.
ASSUME ZAssumption ==
    /\ IsFiniteSet(Blocks) /\ Blocks \subseteq Nat \ {0}
    /\ FirstThread \in Mallocers
    /\ Sizes \subseteq Nat \ {0}
    /\ WordSize \in Nat \ {0} /\ SizeMod \in Nat \ {0}
    /\ PrefixSize \in Nat /\ PrefixSize % WordSize = 0

VARIABLES used_memory, thread_safe,
          block,   \* the size in the prefix of each block, 0: not allocated
          zt       \* what each thread still has to do: counter updates of the call on a block

zVars == <<used_memory, thread_safe, block, zt>>

Idle == [on |-> 0, updates |-> <<>>, loaded |-> -1, frees |-> FALSE]

ZInit ==
    /\ used_memory = 0
    /\ thread_safe = FALSE
    /\ block = [b \in Blocks |-> 0]
    /\ zt = [t \in Mallocers |-> Idle]

\* Rounded up to whole words
Padded(n) == IF n % WordSize # 0 THEN n + WordSize - (n % WordSize) ELSE n

update_zmalloc_stat_alloc(n) == Padded(n)
update_zmalloc_stat_free(n) == -Padded(n)

\* A thread that has nothing left to do may call; threads exist once vmInit went on.
MayCall(t) == zt[t] = Idle /\ (t = FirstThread \/ thread_safe)

Owes(t, b, updates, frees) ==
    zt' = [zt EXCEPT ![t] = [on |-> b, updates |-> updates, loaded |-> -1, frees |-> frees]]

\* zmalloc, zcalloc: allocate, write the prefix, then count
zmalloc(t, b, size) ==
    /\ MayCall(t)
    /\ block[b] = 0
    /\ block' = [block EXCEPT ![b] = size]
    /\ Owes(t, b, <<update_zmalloc_stat_alloc(size + PrefixSize)>>, FALSE)
    /\ UNCHANGED <<used_memory, thread_safe>>

\* An allocated block that no call is working on
Live(b) == block[b] # 0 /\ \A t \in Mallocers : zt[t].on # b

\* Mutant: only the second update counts the prefix
zreallocCountsPrefix(t, b, size) ==
    /\ MayCall(t)
    /\ Live(b)
    /\ block' = [block EXCEPT ![b] = size]
    /\ Owes(t, b, <<update_zmalloc_stat_free(block[b]),
                    update_zmalloc_stat_alloc(size + PrefixSize)>>, FALSE)
    /\ UNCHANGED <<used_memory, thread_safe>>

\* The new size is in the prefix before the counter is moved, in two updates.
zrealloc(t, b, size) ==
    /\ MayCall(t)
    /\ Live(b)
    /\ block' = [block EXCEPT ![b] = size]
    /\ Owes(t, b, <<update_zmalloc_stat_free(block[b]), update_zmalloc_stat_alloc(size)>>, FALSE)
    /\ UNCHANGED <<used_memory, thread_safe>>

\* Counts first and frees then
zfree(t, b) ==
    /\ MayCall(t)
    /\ Live(b)
    /\ Owes(t, b, <<update_zmalloc_stat_free(block[b] + PrefixSize)>>, TRUE)
    /\ UNCHANGED <<used_memory, thread_safe, block>>

Counted(t) == zt' = [zt EXCEPT ![t].updates = Tail(@), ![t].loaded = -1]

\* Under used_memory_mutex
UpdateLocked(t) ==
    /\ thread_safe
    /\ zt[t].updates # <<>>
    /\ used_memory' = (used_memory + Head(zt[t].updates)) % SizeMod
    /\ Counted(t)
    /\ UNCHANGED <<thread_safe, block>>

\* Without the mutex: a load ...
UpdateLoad(t) ==
    /\ ~thread_safe
    /\ zt[t].updates # <<>>
    /\ zt[t].loaded = -1
    /\ zt' = [zt EXCEPT ![t].loaded = used_memory]
    /\ UNCHANGED <<used_memory, thread_safe, block>>

\* ... and a store
UpdateStore(t) ==
    /\ zt[t].loaded # -1
    /\ used_memory' = (zt[t].loaded + Head(zt[t].updates)) % SizeMod
    /\ Counted(t)
    /\ UNCHANGED <<thread_safe, block>>

\* The call ends; zfree hands the block back.
Return(t) ==
    /\ zt[t] # Idle
    /\ zt[t].updates = <<>>
    /\ block' = IF zt[t].frees THEN [block EXCEPT ![zt[t].on] = 0] ELSE block
    /\ zt' = [zt EXCEPT ![t] = Idle]
    /\ UNCHANGED <<used_memory, thread_safe>>

\* vmInit
zmalloc_enable_thread_safeness ==
    /\ zt[FirstThread] = Idle
    /\ thread_safe' = TRUE
    /\ UNCHANGED <<used_memory, block, zt>>

ZNext ==
    \/ \E t \in Mallocers :
          \/ \E b \in Blocks, size \in Sizes : zmalloc(t, b, size) \/ zrealloc(t, b, size)
          \/ \E b \in Blocks : zfree(t, b)
          \/ UpdateLocked(t) \/ UpdateLoad(t) \/ UpdateStore(t) \/ Return(t)
    \/ zmalloc_enable_thread_safeness

ZSpec == ZInit /\ [][ZNext]_zVars

-----------------------------------------------------------------------------

\* When no call is in progress the counter is what the live blocks take, prefixes and
\* padding included, after any history of calls of any threads: zrealloc leaves the prefix
\* out of both of its updates, and no update is lost.
UsedMemoryExact ==
    (\A t \in Mallocers : zt[t] = Idle) =>
        used_memory = MapThenSumSet(LAMBDA b : Padded(block[b] + PrefixSize),
                                    {b \in Blocks : block[b] # 0}) % SizeMod

=============================================================================
