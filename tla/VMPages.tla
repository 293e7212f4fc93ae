------------------------------ MODULE VMPages ------------------------------
(***************************************************************************)
(* The page table of the Redis swap file: vmFindContiguousPages one loop   *)
(* iteration at a time, vmMarkPagesUsed and vmMarkPagesFree                *)
(* (redis/2.2/VM/vm.c).  Only the main thread runs this code, so a search  *)
(* is not interleaved with anything else; its locals are the record find.  *)
(***************************************************************************)
EXTENDS Integers, FiniteSets

CONSTANTS
    VmPages,       \* server.vm_pages
    MaxNearPages,  \* REDIS_VM_MAX_NEAR_PAGES
    MaxRandomJump, \* REDIS_VM_MAX_RANDOM_JUMP
    MaxCount       \* largest number of pages an object takes

ASSUME PagesAssumption ==
    /\ VmPages \in Nat \ {0}
    /\ MaxNearPages \in Nat \ {0}
    /\ MaxRandomJump \in Nat \ {0}
    /\ MaxCount \in Nat \ {0}

VARIABLES
    vm_bitmap,            \* the pages in use
    vm_next_page,         \* next probably empty page
    vm_near_pages,        \* searches since the last restart from page zero
    vm_stats_used_pages,
    find,                 \* locals of vmFindContiguousPages
    clusters              \* history: what is allocated, as <<first, count>>

pagesVars == <<vm_bitmap, vm_next_page, vm_near_pages, vm_stats_used_pages, find, clusters>>

Pages == 0..(VmPages - 1)
Run(first, n) == first..(first + n - 1)

\* since_jump >= REDIS_VM_MAX_RANDOM_JUMP/4
Patience == MaxRandomJump \div 4

NoFind == [pc |-> "idle", n |-> 0, base |-> 0, offset |-> 0, since_jump |-> 0, numfree |-> 0,
           first |-> 0]

vmFreePage(page) == page \notin vm_bitmap

\* `this`: the page the next iteration looks at; past the end it restarts from page zero
This(base, offset) ==
    IF base + offset >= VmPages THEN base + offset - VmPages ELSE base + offset

PagesInit ==
    /\ vm_bitmap = {}
    /\ vm_next_page = 0
    /\ vm_near_pages = 0
    /\ vm_stats_used_pages = 0
    /\ find = NoFind
    /\ clusters = {}

\* vmFindContiguousPages up to its loop
StartFind(n) ==
    /\ find.pc = "idle"
    /\ LET restart == vm_near_pages = MaxNearPages
       IN  /\ vm_near_pages' = IF restart THEN 1 ELSE vm_near_pages + 1
           /\ vm_next_page' = IF restart THEN 0 ELSE vm_next_page
           /\ find' = [NoFind EXCEPT !.pc = "scan", !.n = n, !.base = vm_next_page']
    /\ UNCHANGED <<vm_bitmap, vm_stats_used_pages, clusters>>

\* Mutant: the count of free pages survives the wrap to page zero
NumFreeAcrossWrap(f) ==
    IF vmFreePage(This(f.base, f.offset)) THEN f.numfree + 1 ELSE 0

\* What we found on the tail is dropped when the scan wraps to page zero; then the run of
\* free pages that ends at this page
NumFree(f) ==
    LET this == This(f.base, f.offset)
        kept == IF f.base + f.offset >= VmPages /\ this = 0 THEN 0 ELSE f.numfree
    IN  IF vmFreePage(this) THEN kept + 1 ELSE 0

\* An iteration that completes the run returns REDIS_OK
Found ==
    /\ find.pc = "scan" /\ find.offset < VmPages
    /\ NumFree(find) = find.n
    /\ LET this == This(find.base, find.offset)
       IN  /\ find' = [find EXCEPT !.pc = "ok", !.numfree = find.n, !.first = this - (find.n - 1)]
           /\ vm_next_page' = this + 1
    /\ UNCHANGED <<vm_bitmap, vm_near_pages, vm_stats_used_pages, clusters>>

\* Mutant: a taken page does not move the scan
ScanStays ==
    /\ find.pc = "scan" /\ find.offset < VmPages
    /\ LET free == NumFree(find)
           seen == find.since_jump + 1
       IN  /\ free # find.n
           /\ IF free = 0 /\ seen >= Patience
              THEN \E jump \in 0..(MaxRandomJump - 1) :
                      find' = [find EXCEPT !.offset = @ + jump, !.since_jump = 0, !.numfree = 0]
              ELSE find' = [find EXCEPT !.offset = IF free = 0 THEN @ ELSE @ + 1,
                                        !.since_jump = IF free = 0 THEN @ ELSE seen,
                                        !.numfree = free]
    /\ UNCHANGED <<vm_bitmap, vm_next_page, vm_near_pages, vm_stats_used_pages, clusters>>

\* Any other iteration goes to the next page, or jumps ahead by a random distance when it
\* has looked around long enough and this page is taken
Scan ==
    /\ find.pc = "scan" /\ find.offset < VmPages
    /\ LET free == NumFree(find)
           seen == find.since_jump + 1
       IN  /\ free # find.n
           /\ IF free = 0 /\ seen >= Patience
              THEN \E jump \in 0..(MaxRandomJump - 1) :
                      find' = [find EXCEPT !.offset = @ + jump, !.since_jump = 0, !.numfree = 0]
              ELSE find' = [find EXCEPT !.offset = @ + 1, !.since_jump = seen, !.numfree = free]
    /\ UNCHANGED <<vm_bitmap, vm_next_page, vm_near_pages, vm_stats_used_pages, clusters>>

\* Mutant: the last page is not looked at
NotFoundEarly ==
    /\ find.pc = "scan" /\ find.offset >= VmPages - 1
    /\ find' = [find EXCEPT !.pc = "err"]
    /\ UNCHANGED <<vm_bitmap, vm_next_page, vm_near_pages, vm_stats_used_pages, clusters>>

\* REDIS_ERR: the whole file was looked at
NotFound ==
    /\ find.pc = "scan" /\ find.offset >= VmPages
    /\ find' = [find EXCEPT !.pc = "err"]
    /\ UNCHANGED <<vm_bitmap, vm_next_page, vm_near_pages, vm_stats_used_pages, clusters>>

\* The callers mark the pages as used, unless the write to the swap file failed
vmMarkPagesUsed ==
    /\ find.pc = "ok"
    /\ vm_bitmap' = vm_bitmap \cup Run(find.first, find.n)
    /\ vm_stats_used_pages' = vm_stats_used_pages + find.n
    /\ clusters' = clusters \cup {<<find.first, find.n>>}
    /\ find' = NoFind
    /\ UNCHANGED <<vm_next_page, vm_near_pages>>

GiveUp ==
    /\ find.pc \in {"ok", "err"}
    /\ find' = NoFind
    /\ UNCHANGED <<vm_bitmap, vm_next_page, vm_near_pages, vm_stats_used_pages, clusters>>

\* Mutant: one page of a cluster is left marked
MarkPagesFreeButOne(c) ==
    /\ find.pc = "idle"
    /\ vm_bitmap' = vm_bitmap \ Run(c[1], c[2] - 1)
    /\ vm_stats_used_pages' = vm_stats_used_pages - (c[2] - 1)
    /\ clusters' = clusters \ {c}
    /\ UNCHANGED <<vm_next_page, vm_near_pages, find>>

\* A value is loaded back, deleted, or its swap canceled
vmMarkPagesFree(c) ==
    /\ find.pc = "idle"
    /\ vm_bitmap' = vm_bitmap \ Run(c[1], c[2])
    /\ vm_stats_used_pages' = vm_stats_used_pages - c[2]
    /\ clusters' = clusters \ {c}
    /\ UNCHANGED <<vm_next_page, vm_near_pages, find>>

PagesNext ==
    \/ \E n \in 1..MaxCount : StartFind(n)
    \/ Found \/ Scan \/ NotFound \/ vmMarkPagesUsed \/ GiveUp
    \/ \E c \in clusters : vmMarkPagesFree(c)

PagesSpec == PagesInit /\ [][PagesNext]_pagesVars

\* The search is a loop of the main thread and runs until it returns
PagesFairSpec == PagesSpec /\ WF_pagesVars(Found \/ Scan \/ NotFound)

----------------------------------------------------------------------------
(* Properties *)

FindType == [pc : {"idle", "scan", "ok", "err"}, n : 0..MaxCount, base : 0..VmPages,
             offset : Nat, since_jump : Nat, numfree : Nat, first : Int]

\* Types of the page table and of the locals of a search; vm_next_page may be one past the
\* last page
PagesTypeOK ==
    /\ vm_bitmap \subseteq Pages
    /\ vm_next_page \in 0..VmPages
    /\ vm_near_pages \in 0..MaxNearPages
    /\ vm_stats_used_pages \in Int
    /\ find \in FindType
    /\ clusters \subseteq Int \X (1..MaxCount)

\* Every page the search tests is a page of the file: `this` wraps correctly even when the
\* search starts one past the last page (vm_next_page = vm_pages)
ScanInBounds ==
    find.pc = "scan" /\ find.offset < VmPages => This(find.base, find.offset) \in Pages

\* What a successful search returns lies inside the file and is entirely free, although the
\* count of free pages survives from one iteration to the next across a wrap and jumps;
\* vmMarkPageUsed's assertion therefore never fails.
FoundIsFree ==
    find.pc = "ok" => Run(find.first, find.n) \subseteq Pages \ vm_bitmap

\* vmFindContiguousPages, although it starts anywhere, wraps and jumps: every page it tests is
\* in the file, and what it returns is in the file and free
SearchSound == ScanInBounds /\ FoundIsFree

\* The bitmap is exactly the union of the allocated clusters, which are disjoint
Allocated(S) == UNION {Run(c[1], c[2]) : c \in S}
ClustersDisjoint ==
    /\ vm_bitmap = Allocated(clusters)
    /\ \A c, d \in clusters : c # d => Run(c[1], c[2]) \cap Run(d[1], d[2]) = {}

\* The page counter is the number of used pages
UsedPagesExact == vm_stats_used_pages = Cardinality(vm_bitmap)

\* After any sequence of vmMarkPagesUsed and vmMarkPagesFree the bitmap holds exactly the pages
\* of the clusters that were handed out, none of them twice, and the counter is their number
PageTableExact == ClustersDisjoint /\ UsedPagesExact

\* A search that made no jump (offset and since_jump then grow together) fails only if every
\* run of n free pages straddles the page it started from
ScanComplete ==
    find.pc = "err" /\ find.offset = find.since_jump =>
        \A p \in Pages : Run(p, find.n) \subseteq Pages \ vm_bitmap
                            => p < find.base /\ find.base < p + find.n

\* A search ends, whatever the random jumps
SearchEnds == (find.pc = "scan") ~> (find.pc # "scan")

============================================================================
