-------------------------------- MODULE PMM --------------------------------
(***************************************************************************)
(* The physical page allocator, kernel/src/mm/pmm.c, as several CPUs call  *)
(* it.  Physical memory is the page numbers 0 .. BitmapPages - 1; the      *)
(* bitmap is the set of pages whose bit is clear.  palloc tests free_pages *)
(* before it takes pmm_lock and pfree loops over its pages one at a time   *)
(* under the lock, so a call is several steps and the steps of different   *)
(* CPUs interleave.  Pointers are counted in pages: a higher-half pointer  *)
(* is the page number plus Hhdm.                                           *)
(***************************************************************************)
EXTENDS Integers, Sequences, FiniteSets

CONSTANTS CPU,          \* the processors
          NoCPU,        \* "lock not held"
          BitmapPages,  \* bitmap_pages: one past the highest usable page
          Usable,       \* pages pmm_init leaves clear (bitmap itself excluded)
          WordSize,     \* BITMAP_WORD_SIZE, 64 in the kernel
          CacheSize,    \* PAGE_CACHE_SIZE, 1024 in the kernel
          Sizes,        \* the page counts callers ask for
          Hhdm,         \* hhdm_offset, in pages
          Mod64         \* 2^64: free_pages is a uint64_t

\* The bootloader never reports page 0 as usable (a returned 0 is NULL), the
\* direct map starts above the highest page, and counters are wide enough.
ASSUME PMMAssumption ==
    /\ IsFiniteSet(CPU) /\ NoCPU \notin CPU
    /\ BitmapPages \in Nat /\ Usable \subseteq 1 .. BitmapPages - 1
    /\ WordSize \in Nat \ {0} /\ CacheSize \in Nat
    /\ Sizes \subseteq Nat
    /\ Hhdm \in Nat /\ Hhdm > BitmapPages
    /\ Mod64 \in Nat /\ Mod64 > BitmapPages

VARIABLES clear,       \* bitmap: the pages whose bit is 0
          free_pages,  \* the allocator's own count of clear bits
          pmm_lock,    \* the CPU that holds the spinlock, or NoCPU
          page_cache,  \* page_cache[0 .. cache_index - 1], a stack
          pc,          \* where each CPU is in palloc or pfree
          req,         \* its request: pages and, for pfree, the pointer
          next,        \* loop index i of pfree
          owners       \* ghost: how many callers hold each page

vars == <<clear, free_pages, pmm_lock, page_cache, pc, req, next, owners>>

Page == 0 .. BitmapPages - 1
Run(s, n) == s .. s + n - 1
NoReq == [pages |-> 0, ptr |-> 0]

\* uint64_t arithmetic on free_pages.
Sub64(x, k) == IF x >= k THEN x - k ELSE x - k + Mod64
Add64(x, k) == IF x + k < Mod64 THEN x + k ELSE x + k - Mod64

Cached == {page_cache[k] : k \in 1 .. Len(page_cache)}
InCall(c) == pc[c] # "idle"

(***************************************************************************)
(* pmm_init: every bit is set, then the usable pages are cleared; the      *)
(* cache is empty.                                                         *)
(***************************************************************************)
Init ==
    /\ clear = Usable
    /\ free_pages = Cardinality(Usable)
    /\ pmm_lock = NoCPU
    /\ page_cache = << >>
    /\ pc = [c \in CPU |-> "idle"]
    /\ req = [c \in CPU |-> NoReq]
    /\ next = [c \in CPU |-> 0]
    /\ owners = [p \in Page |-> 0]

----------------------------------------------------------------------------
(***************************************************************************)
(* What the callers promise.  A cached page keeps its bit clear, so a scan *)
(* for several pages could take it and a later one-page request pop it     *)
(* again.  The kernel's only multi-page request is elf_load's, made by the *)
(* boot CPU when the pages freed at boot have been reallocated from the    *)
(* cache and no CPU is freeing: that is all that is assumed here.          *)
(***************************************************************************)
MultiAlloc(c) == pc[c] \in {"palloc", "palloc_locked"} /\ req[c].pages > 1
CachingFree(c) == pc[c] \in {"pfree", "pfree_locked"} /\ req[c].pages = 1

\* Mutant: a multi-page request is made while single pages sit in the cache.
MayPallocCached(c, n) ==
    /\ ~ InCall(c)
    /\ n > 1 => \A d \in CPU : ~ CachingFree(d)

MayPalloc(c, n) ==
    /\ ~ InCall(c)
    /\ n > 1 => page_cache = << >> /\ \A d \in CPU : ~ CachingFree(d)

MayPfree(c, n) ==
    /\ ~ InCall(c)
    /\ n = 1 => \A d \in CPU : ~ MultiAlloc(d)

----------------------------------------------------------------------------
(***************************************************************************)
(* palloc                                                                  *)
(***************************************************************************)

\* The free_pages test, made without the lock: a refused request returns NULL.
PallocRefuse(c, n) ==
    /\ MayPalloc(c, n)
    /\ n = 0 \/ n > free_pages
    /\ UNCHANGED vars

PallocEnter(c, n) ==
    /\ MayPalloc(c, n)
    /\ n # 0 /\ n <= free_pages
    /\ pc' = [pc EXCEPT ![c] = "palloc"]
    /\ req' = [req EXCEPT ![c] = [pages |-> n, ptr |-> 0]]
    /\ UNCHANGED <<clear, free_pages, pmm_lock, page_cache, next, owners>>

\* spinlock_acquire's successful test-and-set.
Acquire(c, from, to) ==
    /\ pc[c] = from
    /\ pmm_lock = NoCPU
    /\ pmm_lock' = c
    /\ pc' = [pc EXCEPT ![c] = to]
    /\ UNCHANGED <<clear, free_pages, page_cache, req, next, owners>>

PallocAcquire(c) == Acquire(c, "palloc", "palloc_locked")

\* spinlock_release and return to the caller.
Return(c) ==
    /\ pmm_lock' = NoCPU
    /\ pc' = [pc EXCEPT ![c] = "idle"]
    /\ req' = [req EXCEPT ![c] = NoReq]
    /\ next' = [next EXCEPT ![c] = 0]

\* The caller receives the n pages from s on.
Grant(s, n) ==
    owners' = [p \in Page |-> IF p \in Run(s, n) THEN owners[p] + 1 ELSE owners[p]]

UseCache(c) == req[c].pages = 1 /\ page_cache # << >>

\* The most recently freed page is popped, marked used and handed out.
PallocFromCache(c) ==
    /\ pc[c] = "palloc_locked"
    /\ UseCache(c)
    /\ LET p == page_cache[Len(page_cache)] IN
       /\ clear' = clear \ {p}
       /\ Grant(p, 1)
    /\ page_cache' = SubSeq(page_cache, 1, Len(page_cache) - 1)
    /\ free_pages' = Sub64(free_pages, 1)
    /\ Return(c)

\* The scan counts consecutive clear bits and starts again at every word, so
\* a run is found only if it lies inside one word.
InOneWord(s, n) == s \div WordSize = (s + n - 1) \div WordSize

Fits(s, n) == Run(s, n) \subseteq clear /\ InOneWord(s, n)

\* The scan goes up through the words and returns at the first run it completes.
FirstFit(s, n) ==
    /\ s \in Page
    /\ Fits(s, n)
    /\ \A t \in Page : t < s => ~ Fits(t, n)

\* Mutant: one page is subtracted whatever the size of the run.
PallocScanCountsOne(c) ==
    /\ pc[c] = "palloc_locked"
    /\ ~ UseCache(c)
    /\ \E s \in Page :
         /\ FirstFit(s, req[c].pages)
         /\ clear' = clear \ Run(s, req[c].pages)
         /\ Grant(s, req[c].pages)
    /\ free_pages' = Sub64(free_pages, 1)
    /\ Return(c)
    /\ UNCHANGED page_cache

PallocScan(c) ==
    /\ pc[c] = "palloc_locked"
    /\ ~ UseCache(c)
    /\ \E s \in Page :
         /\ FirstFit(s, req[c].pages)
         /\ clear' = clear \ Run(s, req[c].pages)
         /\ Grant(s, req[c].pages)
    /\ free_pages' = Sub64(free_pages, req[c].pages)
    /\ Return(c)
    /\ UNCHANGED page_cache

\* No word holds a long enough run: NULL, although free_pages may be enough.
PallocNoRun(c) ==
    /\ pc[c] = "palloc_locked"
    /\ ~ UseCache(c)
    /\ \A s \in Page : ~ Fits(s, req[c].pages)
    /\ Return(c)
    /\ UNCHANGED <<clear, free_pages, page_cache, owners>>

----------------------------------------------------------------------------
(***************************************************************************)
(* pfree                                                                   *)
(***************************************************************************)

\* ptr minus hhdm_offset when ptr lies in the direct map.
PageOf(ptr) == IF ptr >= Hhdm THEN ptr - Hhdm ELSE ptr

\* A NULL or misaligned pointer is ignored before the lock is taken.
PfreeIgnore(c) ==
    /\ ~ InCall(c)
    /\ UNCHANGED vars

\* A caller gives back pages it holds, through either mapping.
PfreeEnter(c, s, n, offset) ==
    /\ MayPfree(c, n)
    /\ n # 0
    /\ \A p \in Run(s, n) : p \in Page /\ owners[p] > 0
    /\ owners' = [p \in Page |-> IF p \in Run(s, n) THEN owners[p] - 1 ELSE owners[p]]
    /\ pc' = [pc EXCEPT ![c] = "pfree"]
    /\ req' = [req EXCEPT ![c] = [pages |-> n, ptr |-> s + offset]]
    /\ UNCHANGED <<clear, free_pages, pmm_lock, page_cache, next>>

\* vfree also passes what an unmanaged mapping (device memory) translates to.
PfreeEnterForeign(c, n, offset) ==
    /\ MayPfree(c, n)
    /\ n # 0
    /\ pc' = [pc EXCEPT ![c] = "pfree"]
    /\ req' = [req EXCEPT ![c] = [pages |-> n, ptr |-> BitmapPages + offset]]
    /\ UNCHANGED <<clear, free_pages, pmm_lock, page_cache, next, owners>>

PfreeAcquire(c) == Acquire(c, "pfree", "pfree_locked")

\* Mutant: the pointer's higher-half offset is left on.
OutOfRangeRaw(c) == req[c].ptr + req[c].pages > BitmapPages

OutOfRange(c) == PageOf(req[c].ptr) + req[c].pages > BitmapPages

PfreeOutOfRange(c) ==
    /\ pc[c] = "pfree_locked"
    /\ OutOfRange(c)
    /\ Return(c)
    /\ UNCHANGED <<clear, free_pages, page_cache, owners>>

\* Mutant: every iteration pushes, also those of a multi-page free.
PfreePageCachesAll(c) ==
    /\ pc[c] = "pfree_locked"
    /\ ~ OutOfRange(c)
    /\ next[c] < req[c].pages
    /\ LET p == PageOf(req[c].ptr) + next[c] IN
         /\ clear' = clear \cup {p}
         /\ free_pages' = Add64(free_pages, IF p \in clear THEN 0 ELSE 1)
         /\ page_cache' = IF Len(page_cache) < CacheSize
                          THEN Append(page_cache, PageOf(req[c].ptr))
                          ELSE page_cache
    /\ next' = [next EXCEPT ![c] = @ + 1]
    /\ UNCHANGED <<pmm_lock, pc, req, owners>>

\* One iteration of the loop: a set bit is cleared and counted; only a
\* single-page free goes to the cache, and only while there is room.
PfreePage(c) ==
    /\ pc[c] = "pfree_locked"
    /\ ~ OutOfRange(c)
    /\ next[c] < req[c].pages
    /\ LET p == PageOf(req[c].ptr) + next[c] IN
         IF p \notin clear
         THEN /\ clear' = clear \cup {p}
              /\ free_pages' = Add64(free_pages, 1)
              /\ page_cache' = IF req[c].pages = 1 /\ Len(page_cache) < CacheSize
                               THEN Append(page_cache, PageOf(req[c].ptr))
                               ELSE page_cache
         ELSE UNCHANGED <<clear, free_pages, page_cache>>
    /\ next' = [next EXCEPT ![c] = @ + 1]
    /\ UNCHANGED <<pmm_lock, pc, req, owners>>

\* Mutant: the lock is not released at the end of pfree.
PfreeDoneKeepsLock(c) ==
    /\ pc[c] = "pfree_locked"
    /\ ~ OutOfRange(c)
    /\ next[c] = req[c].pages
    /\ pc' = [pc EXCEPT ![c] = "idle"]
    /\ req' = [req EXCEPT ![c] = NoReq]
    /\ next' = [next EXCEPT ![c] = 0]
    /\ UNCHANGED <<clear, free_pages, pmm_lock, page_cache, owners>>

PfreeDone(c) ==
    /\ pc[c] = "pfree_locked"
    /\ ~ OutOfRange(c)
    /\ next[c] = req[c].pages
    /\ Return(c)
    /\ UNCHANGED <<clear, free_pages, page_cache, owners>>

----------------------------------------------------------------------------
\* The part of a call that runs with the lock held.
LockedStep(c) ==
    \/ PallocFromCache(c) \/ PallocScan(c) \/ PallocNoRun(c)
    \/ PfreeOutOfRange(c) \/ PfreePage(c) \/ PfreeDone(c)

Next ==
    \E c \in CPU :
        \/ \E n \in Sizes : PallocRefuse(c, n)
        \/ \E n \in Sizes : PallocEnter(c, n)
        \/ PallocAcquire(c)
        \/ PallocFromCache(c)
        \/ PallocScan(c)
        \/ PallocNoRun(c)
        \/ PfreeIgnore(c)
        \/ \E n \in Sizes, s \in Page, offset \in {0, Hhdm} : PfreeEnter(c, s, n, offset)
        \/ \E n \in Sizes, offset \in {0, Hhdm} : PfreeEnterForeign(c, n, offset)
        \/ PfreeAcquire(c)
        \/ PfreeOutOfRange(c)
        \/ PfreePage(c)
        \/ PfreeDone(c)

\* A CPU that holds the lock keeps executing; nothing makes a caller call, and
\* the test-and-set lock promises no particular waiter its turn.
Fairness == \A c \in CPU : WF_vars(LockedStep(c))

Spec == Init /\ [][Next]_vars /\ Fairness

----------------------------------------------------------------------------
(***************************************************************************)
(* Properties                                                              *)
(***************************************************************************)

TypeOK ==
    /\ clear \subseteq Page
    /\ free_pages \in 0 .. Mod64 - 1
    /\ pmm_lock \in CPU \cup {NoCPU}
    /\ page_cache \in Seq(Page)
    /\ pc \in [CPU -> {"idle", "palloc", "palloc_locked", "pfree", "pfree_locked"}]
    /\ req \in [CPU -> [pages : Nat, ptr : Nat]]
    /\ next \in [CPU -> Nat]
    /\ owners \in [Page -> Nat]

\* No page is ever handed to two callers, nor handed out while its bit still
\* says free.
Exclusive == \A p \in Page : owners[p] <= 1 /\ (owners[p] = 1 => p \notin clear)

\* free_pages is the number of clear bits in every state, also between the
\* iterations of pfree's loop where palloc's unlocked test may read it.
Accounting == free_pages = Cardinality(clear)

\* The cache is a set of distinct free pages, never more than it has room for.
CacheCoherent ==
    /\ Cached \subseteq clear
    /\ \A i, j \in 1 .. Len(page_cache) : page_cache[i] = page_cache[j] => i = j
    /\ Len(page_cache) <= CacheSize

\* The pages a CPU is in the middle of giving back.
Returning(c) ==
    IF pc[c] \in {"pfree", "pfree_locked"}
    THEN Run(PageOf(req[c].ptr) + next[c], req[c].pages - next[c]) \cap Page
    ELSE {}

\* No usable page is lost: each is free, held, or on its way back; and a page
\* pmm_init left reserved is never free or handed out.
Conservation ==
    /\ \A p \in Usable : p \in clear \/ owners[p] > 0 \/ \E c \in CPU : p \in Returning(c)
    /\ \A p \in Page \ Usable : p \notin clear /\ owners[p] = 0

\* Whoever takes pmm_lock gives it back, on every path of palloc and pfree.
LockReleased == \A c \in CPU : pmm_lock = c ~> pmm_lock = NoCPU

\* The allocator implements the page bookkeeping of PageAllocator: a page is
\* granted only while free, and becomes free only after its holder returned it.
Status ==
    [p \in Usable |-> IF p \in clear THEN "free"
                     ELSE IF owners[p] > 0 THEN "held" ELSE "returning"]
PA == INSTANCE PageAllocator WITH status <- Status
ImplementsPageAllocator == PA!Spec
=============================================================================
