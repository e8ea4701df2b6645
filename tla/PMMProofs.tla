----------------------------- MODULE PMMProofs -----------------------------
(***************************************************************************)
(* For any number of CPUs, pages, cache slots and any word size: no page   *)
(* is handed out twice, the free counter and the cache agree with the      *)
(* bitmap, no page is lost, and PMM implements PageAllocator.              *)
(***************************************************************************)
EXTENDS PMM, FiniteSetTheorems, SequenceTheorems, TLAPS

\* Exactly the CPU in a locked section holds the lock.
LockInv == \A c \in CPU : pc[c] \in {"palloc_locked", "pfree_locked"} <=> pmm_lock = c

\* A pending request is well formed; a pfree is for pages inside the bitmap
\* or starts at its end.
ReqInv ==
    \A c \in CPU :
        /\ InCall(c) => req[c].pages > 0
        /\ pc[c] \notin {"pfree", "pfree_locked"} => next[c] = 0
        /\ pc[c] = "pfree" => next[c] = 0
        /\ pc[c] \in {"pfree", "pfree_locked"} =>
             /\ next[c] <= req[c].pages
             /\ \/ PageOf(req[c].ptr) + req[c].pages <= BitmapPages
                \/ PageOf(req[c].ptr) = BitmapPages

\* A page on its way back is usable, its bit is set, nobody holds it, and one
\* CPU only is giving it back.
ReturningInv ==
    /\ \A c \in CPU : \A p \in Returning(c) : p \in Usable /\ p \notin clear /\ owners[p] = 0
    /\ \A c, d \in CPU : c # d => Returning(c) \cap Returning(d) = {}

\* While a multi-page palloc is in flight nothing is or becomes cached.
MultiInv ==
    \A c \in CPU : MultiAlloc(c) => page_cache = << >> /\ \A d \in CPU : ~ CachingFree(d)

IInv ==
    /\ TypeOK /\ LockInv /\ ReqInv /\ ReturningInv /\ MultiInv
    /\ Exclusive /\ Accounting /\ CacheCoherent /\ Conservation

----------------------------------------------------------------------------
(***************************************************************************)
(* Facts about sets of pages.                                              *)
(***************************************************************************)

\* A set of pages is finite and has at most bitmap_pages members.
LEMMA PageSets ==
    ASSUME NEW S \in SUBSET Page
    PROVE  IsFiniteSet(S) /\ Cardinality(S) \in Nat /\ Cardinality(S) <= BitmapPages
<1>1. IsFiniteSet(Page) /\ Cardinality(Page) = BitmapPages
  BY FS_Interval, PMMAssumption DEF Page
<1> QED
  BY <1>1, FS_Subset, FS_CardinalityType

\* Clearing the bits of a free run removes exactly its length from the count.
LEMMA TakeRun ==
    ASSUME NEW S \in SUBSET Page, NEW s \in Nat, NEW n \in Nat \ {0}, Run(s, n) \subseteq S
    PROVE  Cardinality(S \ Run(s, n)) = Cardinality(S) - n /\ n <= Cardinality(S)
<1>1. IsFiniteSet(S) /\ Cardinality(S) \in Nat
  BY PageSets
<1>2. IsFiniteSet(Run(s, n)) /\ Cardinality(Run(s, n)) = n
  BY FS_Interval DEF Run
<1>3. S \cap Run(s, n) = Run(s, n)
  OBVIOUS
<1>4. Cardinality(S \ Run(s, n)) = Cardinality(S) - Cardinality(S \cap Run(s, n))
  BY <1>1, <1>2, FS_Difference
<1>5. Cardinality(Run(s, n)) <= Cardinality(S)
  BY <1>1, FS_Subset
<1> QED
  BY <1>2, <1>3, <1>4, <1>5

\* A step that leaves the pfree calls alone leaves every Returning set alone.
LEMMA SameReturning ==
    ASSUME TypeOK, NEW c \in CPU,
           \A d \in CPU \ {c} : pc'[d] = pc[d] /\ req'[d] = req[d] /\ next'[d] = next[d],
           pc[c] \notin {"pfree", "pfree_locked"},
           pc'[c] \notin {"pfree", "pfree_locked"}
    PROVE  \A d \in CPU : Returning(d)' = Returning(d)
  BY DEF Returning

----------------------------------------------------------------------------
(***************************************************************************)
(* Every action keeps the inductive invariant.                             *)
(***************************************************************************)

\* The unlocked test of palloc.
LEMMA PallocEnterKeeps ==
    ASSUME IInv, NEW c \in CPU, NEW n \in Sizes, PallocEnter(c, n)
    PROVE  IInv'
<1> USE PMMAssumption DEF IInv, TypeOK, Page, NoReq, PallocEnter, MayPalloc
<1>1. TypeOK'
  OBVIOUS
<1>2. LockInv'
  BY DEF LockInv, InCall
<1>3. ReqInv'
  BY DEF ReqInv, InCall, PageOf
<1>4. \A d \in CPU : Returning(d)' = Returning(d)
  BY SameReturning DEF InCall
<1>5. ReturningInv'
  BY <1>4 DEF ReturningInv
<1>6. MultiInv'
  BY DEF MultiInv, MultiAlloc, CachingFree, InCall
<1>7. Exclusive' /\ Accounting' /\ CacheCoherent'
  BY DEF Exclusive, Accounting, CacheCoherent, Cached
<1>8. Conservation'
  BY <1>4 DEF Conservation
<1> QED
  BY <1>1, <1>2, <1>3, <1>5, <1>6, <1>7, <1>8

\* spinlock_acquire in palloc and in pfree.
LEMMA AcquireKeeps ==
    ASSUME IInv, NEW c \in CPU, PallocAcquire(c) \/ PfreeAcquire(c)
    PROVE  IInv'
<1> USE PMMAssumption DEF IInv, TypeOK, Page, PallocAcquire, PfreeAcquire, Acquire
<1>1. TypeOK'
  OBVIOUS
<1>2. LockInv'
  BY DEF LockInv
<1>3. ReqInv'
  BY DEF ReqInv, InCall, PageOf
<1>4. \A d \in CPU : Returning(d)' = Returning(d)
  BY DEF Returning, PageOf, Run
<1>5. ReturningInv'
  BY <1>4 DEF ReturningInv
<1>6. MultiInv'
  BY DEF MultiInv, MultiAlloc, CachingFree
<1>7. Exclusive' /\ Accounting'
  BY DEF Exclusive, Accounting
<1>8. CacheCoherent'
  BY DEF CacheCoherent, Cached
<1>9. Conservation'
  BY <1>4 DEF Conservation
<1> QED
  BY <1>1, <1>2, <1>3, <1>5, <1>6, <1>7, <1>8, <1>9

\* A call that returns without touching the bitmap: no run found.
LEMMA PallocNoRunKeeps ==
    ASSUME IInv, NEW c \in CPU, PallocNoRun(c)
    PROVE  IInv'
<1> USE PMMAssumption DEF IInv, TypeOK, Page, NoReq, PallocNoRun, Return
<1>1. TypeOK'
  OBVIOUS
<1>2. LockInv'
  BY DEF LockInv
<1>3. ReqInv'
  BY DEF ReqInv, InCall, PageOf
<1>4. \A d \in CPU : Returning(d)' = Returning(d)
  BY SameReturning
<1>5. ReturningInv'
  BY <1>4 DEF ReturningInv
<1>6. MultiInv'
  BY DEF MultiInv, MultiAlloc, CachingFree
<1>7. Exclusive' /\ Accounting' /\ CacheCoherent'
  BY DEF Exclusive, Accounting, CacheCoherent, Cached
<1>8. Conservation'
  BY <1>4 DEF Conservation
<1> QED
  BY <1>1, <1>2, <1>3, <1>5, <1>6, <1>7, <1>8

\* Handing out free pages: nobody held them and none was on its way back.
LEMMA GrantKeeps ==
    ASSUME TypeOK, ReturningInv, Exclusive, Conservation, NEW S \in SUBSET clear,
           clear' = clear \ S,
           owners' = [q \in Page |-> IF q \in S THEN owners[q] + 1 ELSE owners[q]],
           \A d \in CPU : Returning(d)' = Returning(d)
    PROVE  /\ clear' \subseteq Page /\ owners' \in [Page -> Nat]
           /\ ReturningInv' /\ Exclusive' /\ Conservation'
<1>1. clear' \subseteq Page /\ owners' \in [Page -> Nat]
  BY DEF TypeOK
<1>2. \A q \in S : q \in Page /\ q \in Usable /\ owners[q] = 0 /\ owners'[q] = 1 /\ q \notin clear'
  BY DEF TypeOK, Exclusive, Conservation
<1>3. \A q \in Page \ S : owners'[q] = owners[q] /\ (q \in clear' <=> q \in clear)
  OBVIOUS
<1>4. \A d \in CPU : Returning(d) \subseteq Page \ S
  BY <1>2 DEF ReturningInv, Returning
<1>5. ReturningInv'
  BY <1>3, <1>4 DEF ReturningInv
<1>6. Exclusive'
  BY <1>2, <1>3 DEF Exclusive
<1>7. Conservation'
  <2>1. Usable \subseteq Page
    BY PMMAssumption DEF Page
  <2> QED
    BY <1>2, <1>3, <2>1 DEF Conservation
<1> QED
  BY <1>1, <1>5, <1>6, <1>7

\* spinlock_release and return.
LEMMA ReturnKeeps ==
    ASSUME TypeOK, LockInv, ReqInv, NEW c \in CPU, pmm_lock = c, Return(c)
    PROVE  /\ pmm_lock' \in CPU \cup {NoCPU}
           /\ pc' \in [CPU -> {"idle", "palloc", "palloc_locked", "pfree", "pfree_locked"}]
           /\ req' \in [CPU -> [pages : Nat, ptr : Nat]] /\ next' \in [CPU -> Nat]
           /\ pc'[c] = "idle"
           /\ \A d \in CPU \ {c} : pc'[d] = pc[d] /\ req'[d] = req[d] /\ next'[d] = next[d]
           /\ LockInv' /\ ReqInv'
<1> USE PMMAssumption DEF Return, TypeOK, NoReq
<1>1. LockInv'
  BY DEF LockInv
<1>2. ReqInv'
  BY DEF ReqInv, InCall, PageOf
<1> QED
  BY <1>1, <1>2

\* A page popped from the cache: it was free, so nobody holds it, and the
\* cache's entries are distinct, so it is cached no longer.
LEMMA PallocFromCacheKeeps ==
    ASSUME IInv, NEW c \in CPU, PallocFromCache(c)
    PROVE  IInv'
<1> DEFINE len == Len(page_cache)
<1>1. page_cache \in Seq(Page) /\ page_cache # << >> /\ clear \in SUBSET Page
  BY DEF IInv, TypeOK, PallocFromCache, UseCache
<1>2. len \in Nat \ {0}
  BY <1>1, EmptySeq
<1>3. \A k \in 1 .. len : page_cache[k] \in clear
  BY DEF IInv, CacheCoherent, Cached
<1> PICK p \in clear : p = page_cache[len]
  BY <1>2, <1>3
<1>4. p \in Page /\ p \in Nat /\ Run(p, 1) = {p}
  BY <1>1, PMMAssumption DEF Run, Page
<1>5. /\ clear' = clear \ {p}
      /\ free_pages' = Sub64(free_pages, 1)
      /\ page_cache' = SubSeq(page_cache, 1, len - 1)
      /\ owners' = [q \in Page |-> IF q \in {p} THEN owners[q] + 1 ELSE owners[q]]
  BY <1>4 DEF PallocFromCache, Grant
<1>6. /\ page_cache' \in Seq(Page)
      /\ Len(page_cache') = len - 1
      /\ \A k \in 1 .. len - 1 : page_cache'[k] = page_cache[k]
  <2>1. \A k \in 1 .. len - 1 : page_cache[k] \in Page
    BY <1>1, <1>2, <1>3
  <2> DEFINE t == SubSeq(page_cache, 1, len - 1)
  <2>2. /\ t \in Seq(Page)
        /\ Len(t) = IF 1 <= len - 1 THEN (len - 1) - 1 + 1 ELSE 0
        /\ \A i \in 1 .. (len - 1) - 1 + 1 : t[i] = page_cache[1 + i - 1]
    BY <1>2, <2>1, SubSeqProperties
  <2>3. page_cache' = t
    BY <1>5
  <2> HIDE DEF t, len
  <2> QED
    BY ONLY <1>2, <2>2, <2>3
<1>7. Accounting' /\ free_pages' \in 0 .. Mod64 - 1
  <2>1. Cardinality(clear \ Run(p, 1)) = Cardinality(clear) - 1 /\ 1 <= Cardinality(clear)
    <3>1. 1 \in Nat \ {0} /\ Run(p, 1) \subseteq clear
      BY <1>4
    <3> QED
      BY ONLY <1>1, <1>4, <3>1, TakeRun
  <2>2. Cardinality(clear) \in Nat /\ Cardinality(clear) <= BitmapPages
    BY <1>1, PageSets
  <2>3. free_pages = Cardinality(clear)
    BY DEF IInv, Accounting
  <2>4. Cardinality(clear') = Cardinality(clear) - 1
    BY <1>4, <1>5, <2>1
  <2> QED
    BY <1>5, <2>1, <2>2, <2>3, <2>4, PMMAssumption DEF Accounting, Sub64
<1>8. pmm_lock = c /\ Return(c)
  BY DEF PallocFromCache, IInv, LockInv
<1>9. \A d \in CPU : Returning(d)' = Returning(d)
  BY <1>8, ReturnKeeps, SameReturning DEF IInv, PallocFromCache
<1>10. ReturningInv' /\ Exclusive' /\ Conservation' /\ clear' \subseteq Page /\ owners' \in [Page -> Nat]
  <2>1. {p} \in SUBSET clear
    OBVIOUS
  <2> QED
    BY <1>5, <1>9, <2>1, GrantKeeps DEF IInv
<1>11. TypeOK' /\ LockInv' /\ ReqInv'
  BY <1>6, <1>7, <1>8, <1>10, ReturnKeeps DEF IInv, TypeOK
<1>12. MultiInv'
  <2>1. \A d \in CPU : ~ MultiAlloc(d)
    BY <1>1 DEF IInv, MultiInv
  <2> QED
    BY <1>8, <2>1, ReturnKeeps DEF IInv, MultiInv, MultiAlloc
<1>13. CacheCoherent'
  <2>1. \A k \in 1 .. len - 1 : page_cache[k] \in clear \ {p}
    BY <1>2, <1>3 DEF IInv, CacheCoherent
  <2>2. /\ len <= CacheSize
        /\ \A i, j \in 1 .. len : page_cache[i] = page_cache[j] => i = j
    BY DEF IInv, CacheCoherent
  <2>3. Cached' \subseteq clear'
    BY <1>2, <1>5, <1>6, <2>1 DEF Cached
  <2> HIDE DEF len
  <2> QED
    BY <1>2, <1>6, <2>2, <2>3, PMMAssumption DEF CacheCoherent
<1> QED
  BY <1>7, <1>10, <1>11, <1>12, <1>13 DEF IInv

\* A run found by the scan.  A multi-page scan meets an empty cache (MultiInv)
\* and a one-page scan only runs when the cache is empty, so no cached page
\* can be part of the run.
LEMMA PallocScanKeeps ==
    ASSUME IInv, NEW c \in CPU, PallocScan(c)
    PROVE  IInv'
<1>1. pc[c] = "palloc_locked" /\ req[c].pages \in Nat \ {0} /\ clear \in SUBSET Page
  <2>1. pc[c] = "palloc_locked" /\ clear \in SUBSET Page /\ req[c].pages \in Nat
    BY DEF PallocScan, IInv, TypeOK
  <2> QED
    BY <2>1 DEF IInv, ReqInv, InCall
<1> PICK n \in Nat \ {0} : n = req[c].pages
  BY <1>1
<1>2. PICK s \in Page : /\ Run(s, n) \subseteq clear
                        /\ clear' = clear \ Run(s, n)
                        /\ owners' = [q \in Page |-> IF q \in Run(s, n) THEN owners[q] + 1
                                                                       ELSE owners[q]]
  BY DEF PallocScan, FirstFit, Fits, Grant
<1>3. page_cache = << >> /\ page_cache' = << >>
  BY <1>1 DEF PallocScan, UseCache, IInv, MultiInv, MultiAlloc
<1>4. Accounting' /\ free_pages' \in 0 .. Mod64 - 1
  <2>1. s \in Nat
    BY PMMAssumption DEF Page
  <2>2. Cardinality(clear \ Run(s, n)) = Cardinality(clear) - n /\ n <= Cardinality(clear)
    BY ONLY <1>1, <1>2, <2>1, n \in Nat \ {0}, TakeRun
  <2>3. Cardinality(clear) \in Nat /\ Cardinality(clear) <= BitmapPages
    BY <1>1, PageSets
  <2>4. free_pages' = Sub64(free_pages, n)
    BY DEF PallocScan
  <2> QED
    BY <1>2, <2>2, <2>3, <2>4, PMMAssumption DEF IInv, Accounting, Sub64
<1>5. pmm_lock = c /\ Return(c)
  BY DEF PallocScan, IInv, LockInv
<1>6. \A d \in CPU : Returning(d)' = Returning(d)
  BY <1>1, <1>5, ReturnKeeps, SameReturning DEF IInv
<1>7. ReturningInv' /\ Exclusive' /\ Conservation' /\ clear' \subseteq Page /\ owners' \in [Page -> Nat]
  BY <1>2, <1>6, GrantKeeps DEF IInv
<1>8. TypeOK' /\ LockInv' /\ ReqInv'
  BY <1>3, <1>4, <1>5, <1>7, ReturnKeeps DEF IInv, TypeOK
<1>9. MultiInv'
  BY <1>3, <1>5, ReturnKeeps DEF IInv, MultiInv, MultiAlloc, CachingFree
<1>10. CacheCoherent'
  BY <1>3, PMMAssumption DEF CacheCoherent, Cached
<1> QED
  BY <1>4, <1>7, <1>8, <1>9, <1>10 DEF IInv

\* A caller enters pfree with pages it holds: they were held once, by Exclusive,
\* so they are not on another CPU's way back.
LEMMA PfreeEnterKeeps ==
    ASSUME IInv, NEW c \in CPU, NEW n \in Sizes, NEW s \in Page, NEW offset \in {0, Hhdm},
           PfreeEnter(c, s, n, offset)
    PROVE  IInv'
<1>1. /\ pc[c] = "idle" /\ n \in Nat \ {0} /\ s \in Nat /\ s < BitmapPages
      /\ offset \in Nat /\ PageOf(s + offset) = s
  BY PMMAssumption DEF PfreeEnter, MayPfree, InCall, Page, PageOf
<1>2. \A q \in Run(s, n) : q \in Page /\ owners[q] = 1 /\ q \notin clear /\ q \in Usable
  <2>1. \A q \in Run(s, n) : q \in Page /\ owners[q] > 0
    BY DEF PfreeEnter
  <2>2. \A q \in Page : owners[q] \in Nat
    BY DEF IInv, TypeOK
  <2> QED
    BY <2>1, <2>2 DEF IInv, Exclusive, Conservation
<1>3. /\ pc' = [pc EXCEPT ![c] = "pfree"]
      /\ req' = [req EXCEPT ![c] = [pages |-> n, ptr |-> s + offset]]
      /\ UNCHANGED <<clear, free_pages, pmm_lock, page_cache, next>>
  BY DEF PfreeEnter
<1>4. owners' = [q \in Page |-> IF q \in Run(s, n) THEN owners[q] - 1 ELSE owners[q]]
  BY DEF PfreeEnter
<1>5. TypeOK'
  <2>1. owners' \in [Page -> Nat]
    BY <1>2, <1>4 DEF IInv, TypeOK
  <2>2. [pages |-> n, ptr |-> s + offset] \in [pages : Nat, ptr : Nat]
    BY <1>1
  <2> QED
    BY <1>3, <2>1, <2>2 DEF IInv, TypeOK
<1>6. LockInv'
  BY <1>1, <1>3 DEF IInv, TypeOK, LockInv
<1>7. /\ req'[c].pages = n /\ req'[c].ptr = s + offset /\ pc'[c] = "pfree" /\ next'[c] = 0
      /\ \A d \in CPU \ {c} : pc'[d] = pc[d] /\ req'[d] = req[d] /\ next'[d] = next[d]
  BY <1>1, <1>3 DEF IInv, TypeOK, ReqInv
<1>8. ReqInv'
  <2>1. s + n <= BitmapPages
    <3>1. s + n - 1 \in Run(s, n)
      BY <1>1 DEF Run
    <3> QED
      BY <1>1, <1>2, <3>1, PMMAssumption DEF Page
  <2>2. \A d \in CPU \ {c} : PageOf(req[d].ptr)' = PageOf(req[d].ptr)
    BY <1>7 DEF PageOf
  <2>3. PageOf(req[c].ptr)' = s
    BY <1>1, <1>7 DEF PageOf
  <2> QED
    BY <1>1, <1>7, <2>1, <2>2, <2>3 DEF IInv, ReqInv, InCall
<1>9. /\ Returning(c)' = Run(s, n) /\ Returning(c) = {}
      /\ \A d \in CPU \ {c} : Returning(d)' = Returning(d)
  <2>1. Returning(c) = {} /\ \A d \in CPU \ {c} : Returning(d)' = Returning(d)
    BY <1>1, <1>7 DEF Returning, PageOf
  <2>2. Returning(c)' = Run(s + 0, n - 0) \cap Page
    BY <1>1, <1>7 DEF Returning, PageOf
  <2> QED
    BY <1>1, <1>2, <2>1, <2>2
<1>10. ReturningInv'
  <2>1. \A q \in Run(s, n) : q \in Usable /\ q \notin clear' /\ owners'[q] = 0
    BY <1>2, <1>3, <1>4
  <2>2. \A d \in CPU : \A q \in Returning(d) : q \in Page /\ q \notin Run(s, n)
    BY <1>2 DEF IInv, ReturningInv, Returning
  <2>3. \A d \in CPU : \A q \in Returning(d) : q \in Usable /\ q \notin clear' /\ owners'[q] = 0
    BY <1>3, <1>4, <2>2 DEF IInv, ReturningInv
  <2>4. \A d, e \in CPU : d # e => Returning(d) \cap Returning(e) = {}
    BY DEF IInv, ReturningInv
  <2> QED
    BY <1>9, <2>1, <2>2, <2>3, <2>4 DEF ReturningInv
<1>11. MultiInv'
  <2>1. n = 1 => \A d \in CPU : ~ MultiAlloc(d)
    BY DEF PfreeEnter, MayPfree
  <2> QED
    BY <1>3, <1>7, <2>1 DEF IInv, MultiInv, MultiAlloc, CachingFree
<1>12. Exclusive'
  BY <1>2, <1>3, <1>4 DEF IInv, TypeOK, Exclusive
<1>13. Conservation'
  <2>1. Usable \subseteq Page
    BY PMMAssumption DEF Page
  <2>2. \A q \in Page \ Run(s, n) : owners'[q] = owners[q]
    BY <1>4
  <2> QED
    BY <1>2, <1>3, <1>4, <1>9, <2>1, <2>2 DEF IInv, Conservation
<1>14. Accounting' /\ CacheCoherent'
  BY <1>3 DEF IInv, Accounting, CacheCoherent, Cached
<1> QED
  BY <1>5, <1>6, <1>8, <1>10, <1>11, <1>12, <1>13, <1>14 DEF IInv

\* A pointer past the bitmap: no managed page is involved.
LEMMA PfreeEnterForeignKeeps ==
    ASSUME IInv, NEW c \in CPU, NEW n \in Sizes, NEW offset \in {0, Hhdm},
           PfreeEnterForeign(c, n, offset)
    PROVE  IInv'
<1>1. /\ pc[c] = "idle" /\ n \in Nat \ {0}
      /\ BitmapPages + offset \in Nat /\ PageOf(BitmapPages + offset) = BitmapPages
  BY PMMAssumption DEF PfreeEnterForeign, MayPfree, InCall, PageOf
<1>2. /\ pc' = [pc EXCEPT ![c] = "pfree"]
      /\ req' = [req EXCEPT ![c] = [pages |-> n, ptr |-> BitmapPages + offset]]
      /\ UNCHANGED <<clear, free_pages, pmm_lock, page_cache, next, owners>>
  BY DEF PfreeEnterForeign
<1>3. TypeOK'
  <2>1. [pages |-> n, ptr |-> BitmapPages + offset] \in [pages : Nat, ptr : Nat]
    BY <1>1
  <2> QED
    BY <1>2, <2>1 DEF IInv, TypeOK
<1>4. LockInv'
  BY <1>1, <1>2 DEF IInv, TypeOK, LockInv
<1>5. /\ req'[c].pages = n /\ req'[c].ptr = BitmapPages + offset /\ pc'[c] = "pfree" /\ next'[c] = 0
      /\ \A d \in CPU \ {c} : pc'[d] = pc[d] /\ req'[d] = req[d] /\ next'[d] = next[d]
  BY <1>1, <1>2 DEF IInv, TypeOK, ReqInv
<1>6. PageOf(req[c].ptr)' = BitmapPages
  BY <1>1, <1>5 DEF PageOf
<1>7. ReqInv'
  <2>1. \A d \in CPU \ {c} : PageOf(req[d].ptr)' = PageOf(req[d].ptr)
    BY <1>5 DEF PageOf
  <2> QED
    BY <1>1, <1>5, <1>6, <2>1 DEF IInv, ReqInv, InCall
<1>8. \A d \in CPU : Returning(d)' = Returning(d)
  <2>1. Returning(c) = {} /\ \A d \in CPU \ {c} : Returning(d)' = Returning(d)
    BY <1>1, <1>5 DEF Returning, PageOf
  <2>2. Returning(c)' = Run(BitmapPages + 0, n - 0) \cap Page
    BY <1>5, <1>6 DEF Returning
  <2>3. Run(BitmapPages + 0, n - 0) \cap Page = {}
    BY <1>1, PMMAssumption DEF Run, Page
  <2> QED
    BY <2>1, <2>2, <2>3
<1>9. MultiInv'
  <2>1. n = 1 => \A d \in CPU : ~ MultiAlloc(d)
    BY DEF PfreeEnterForeign, MayPfree
  <2> QED
    BY <1>2, <1>5, <2>1 DEF IInv, MultiInv, MultiAlloc, CachingFree
<1>10. ReturningInv' /\ Conservation'
  BY <1>2, <1>8 DEF IInv, ReturningInv, Conservation
<1>11. Exclusive' /\ Accounting' /\ CacheCoherent'
  BY <1>2 DEF IInv, Exclusive, Accounting, CacheCoherent, Cached
<1> QED
  BY <1>3, <1>4, <1>7, <1>9, <1>10, <1>11 DEF IInv

\* The two ways pfree returns: nothing is left to give back.
LEMMA PfreeReturnKeeps ==
    ASSUME IInv, NEW c \in CPU, PfreeOutOfRange(c) \/ PfreeDone(c)
    PROVE  IInv'
<1>1. /\ pc[c] = "pfree_locked" /\ pmm_lock = c /\ Return(c)
      /\ UNCHANGED <<clear, free_pages, page_cache, owners>>
  BY DEF PfreeOutOfRange, PfreeDone, IInv, LockInv
<1>2. /\ pc'[c] = "idle"
      /\ \A d \in CPU \ {c} : pc'[d] = pc[d] /\ req'[d] = req[d] /\ next'[d] = next[d]
      /\ LockInv' /\ ReqInv'
  BY <1>1, ReturnKeeps DEF IInv
<1>3. TypeOK'
  BY <1>1, ReturnKeeps DEF IInv, TypeOK
<1>4. Returning(c) = {}
  <2>1. /\ req[c].pages \in Nat \ {0} /\ req[c].ptr \in Nat /\ next[c] \in Nat
        /\ PageOf(req[c].ptr) \in Nat
    <3>1. pc[c] # "idle" /\ req[c].pages \in Nat /\ req[c].ptr \in Nat /\ next[c] \in Nat
      BY <1>1 DEF IInv, TypeOK
    <3> QED
      BY <3>1, PMMAssumption DEF IInv, ReqInv, InCall, PageOf
  <2>2. CASE PfreeDone(c)
    <3>1. Returning(c) = Run(PageOf(req[c].ptr) + next[c], 0) \cap Page
      BY <1>1, <2>1, <2>2 DEF PfreeDone, Returning
    <3> QED
      BY <2>1, <3>1, PMMAssumption DEF Run, Page
  <2>3. CASE PfreeOutOfRange(c)
    <3>1. PageOf(req[c].ptr) = BitmapPages
      BY <1>1, <2>1, <2>3, PMMAssumption DEF PfreeOutOfRange, OutOfRange, IInv, ReqInv
    <3> QED
      BY <1>1, <2>1, <3>1, PMMAssumption DEF Returning, Run, Page
  <2> QED
    BY <2>2, <2>3
<1>5. \A d \in CPU : Returning(d)' = Returning(d)
  BY <1>2, <1>4 DEF Returning, PageOf
<1>6. ReturningInv' /\ Conservation'
  BY <1>1, <1>5 DEF IInv, ReturningInv, Conservation
<1>7. MultiInv'
  BY <1>1, <1>2 DEF IInv, MultiInv, MultiAlloc, CachingFree
<1>8. Exclusive' /\ Accounting' /\ CacheCoherent'
  BY <1>1 DEF IInv, Exclusive, Accounting, CacheCoherent, Cached
<1> QED
  BY <1>2, <1>3, <1>6, <1>7, <1>8 DEF IInv

\* What one iteration of pfree's loop does: its page is still on the way back,
\* so its bit is set and it is not cached.
LEMMA PfreePageEffect ==
    ASSUME IInv, NEW c \in CPU, PfreePage(c)
    PROVE  \E p \in Page :
             /\ p \in Returning(c) /\ p \in Usable /\ p \notin clear /\ owners[p] = 0
             /\ clear' = clear \cup {p}
             /\ free_pages' = Add64(free_pages, 1)
             /\ page_cache' = IF req[c].pages = 1 /\ Len(page_cache) < CacheSize
                              THEN Append(page_cache, p) ELSE page_cache
             /\ Returning(c)' = Returning(c) \ {p}
<1> DEFINE a == PageOf(req[c].ptr)
           n == req[c].pages
           i == next[c]
<1>1. pc[c] = "pfree_locked" /\ a + n <= BitmapPages /\ i < n
  <2>1. pc[c] = "pfree_locked" /\ ~ (a + n > BitmapPages) /\ i < n
    BY DEF PfreePage, OutOfRange
  <2>2. n \in Nat /\ a \in Nat
    BY PMMAssumption DEF IInv, TypeOK, PageOf
  <2> QED
    BY <2>1, <2>2, PMMAssumption
<1>2. n \in Nat /\ i \in Nat /\ a \in Nat
  BY PMMAssumption DEF IInv, TypeOK, PageOf
<1>3. pc'[c] = pc[c] /\ req'[c] = req[c] /\ next'[c] = i + 1
  BY DEF PfreePage, IInv, TypeOK
<1>4. Returning(c) = Run(a + i, n - i) \cap Page
  BY <1>1 DEF Returning
<1>5. Returning(c)' = Run(a + (i + 1), n - (i + 1)) \cap Page
  BY <1>1, <1>3 DEF Returning, PageOf
<1>6. /\ a + i \in Page /\ a + i \in Run(a + i, n - i)
      /\ Run(a + (i + 1), n - (i + 1)) = Run(a + i, n - i) \ {a + i}
  <2> HIDE DEF a, n, i
  <2> QED
    BY <1>1, <1>2, PMMAssumption DEF Run, Page
<1>7. a + i \in Returning(c) /\ Returning(c)' = Returning(c) \ {a + i}
  BY <1>4, <1>5, <1>6
<1>8. a + i \in Usable /\ a + i \notin clear /\ owners[a + i] = 0
  BY <1>7 DEF IInv, ReturningInv
<1>9. n = 1 => a + i = a
  BY <1>1, <1>2
<1>10. /\ clear' = clear \cup {a + i} /\ free_pages' = Add64(free_pages, 1)
       /\ page_cache' = IF n = 1 /\ Len(page_cache) < CacheSize
                        THEN Append(page_cache, a) ELSE page_cache
  BY <1>8 DEF PfreePage
<1> QED
  BY <1>6, <1>7, <1>8, <1>9, <1>10

\* One iteration of pfree's loop.
LEMMA PfreePageKeeps ==
    ASSUME IInv, NEW c \in CPU, PfreePage(c)
    PROVE  IInv'
<1>1. PICK p \in Page :
             /\ p \in Returning(c) /\ p \in Usable /\ p \notin clear /\ owners[p] = 0
             /\ clear' = clear \cup {p}
             /\ free_pages' = Add64(free_pages, 1)
             /\ page_cache' = IF req[c].pages = 1 /\ Len(page_cache) < CacheSize
                              THEN Append(page_cache, p) ELSE page_cache
             /\ Returning(c)' = Returning(c) \ {p}
  BY PfreePageEffect
<1>2. /\ pc[c] = "pfree_locked" /\ next[c] < req[c].pages
      /\ next' = [next EXCEPT ![c] = @ + 1]
      /\ UNCHANGED <<pmm_lock, pc, req, owners>>
  BY DEF PfreePage
<1>3. clear \in SUBSET Page /\ page_cache \in Seq(Page) /\ Len(page_cache) \in Nat
  BY DEF IInv, TypeOK
<1>4. Accounting' /\ free_pages' \in 0 .. Mod64 - 1
  <2>1. IsFiniteSet(clear) /\ Cardinality(clear) \in Nat
    BY <1>3, PageSets
  <2>2. Cardinality(clear') = Cardinality(clear) + 1
    BY <1>1, <2>1, FS_AddElement
  <2>3. Cardinality(clear') \in Nat /\ Cardinality(clear') <= BitmapPages
    <3>1. clear' \in SUBSET Page
      BY <1>1, <1>3
    <3> QED
      BY ONLY <3>1, PageSets
  <2>4. free_pages = Cardinality(clear)
    BY DEF IInv, Accounting
  <2> QED
    BY <1>1, <2>1, <2>2, <2>3, <2>4, PMMAssumption DEF Accounting, Add64
<1>5. /\ page_cache' \in Seq(Page)
      /\ CacheCoherent'
  <2>1. /\ \A k \in 1 .. Len(page_cache) : page_cache[k] \in clear
        /\ \A i, j \in 1 .. Len(page_cache) : page_cache[i] = page_cache[j] => i = j
        /\ Len(page_cache) <= CacheSize
    BY DEF IInv, CacheCoherent, Cached
  <2>2. CASE page_cache' = page_cache
    BY <1>1, <1>3, <2>1, <2>2 DEF CacheCoherent, Cached
  <2>3. CASE page_cache' = Append(page_cache, p) /\ Len(page_cache) < CacheSize
    <3> DEFINE len == Len(page_cache)
               t == Append(page_cache, p)
    <3>1. /\ t \in Seq(Page) /\ Len(t) = len + 1
          /\ \A k \in 1 .. len : t[k] = page_cache[k]
          /\ t[len + 1] = p
      BY <1>3, AppendProperties
    <3>2. page_cache' = t /\ len \in Nat
      BY <1>3, <2>3
    <3>3. len < CacheSize
      BY <2>3
    <3> HIDE DEF len, t
    <3>4. \A k \in 1 .. Len(t) : t[k] \in clear'
      BY <1>1, <2>1, <3>1, <3>2 DEF len
    <3>5. \A i, j \in 1 .. Len(t) : t[i] = t[j] => i = j
      <4>1. \A k \in 1 .. len : t[k] # p
        BY <1>1, <2>1, <3>1 DEF len
      <4>2. \A i, j \in 1 .. len : t[i] = t[j] => i = j
        BY <2>1, <3>1 DEF len
      <4>3. \A k \in 1 .. Len(t) : k \in 1 .. len \/ k = len + 1
        BY <3>1, <3>2
      <4> QED
        BY <3>1, <4>1, <4>2, <4>3
    <3>6. Len(t) <= CacheSize
      BY <3>1, <3>2, <3>3, PMMAssumption
    <3> QED
      BY <3>1, <3>2, <3>4, <3>5, <3>6 DEF CacheCoherent, Cached
  <2> QED
    BY <1>1, <2>2, <2>3
<1>6. TypeOK'
  <2>1. clear' \subseteq Page
    BY <1>1, <1>3
  <2>2. next' \in [CPU -> Nat]
    BY <1>2 DEF IInv, TypeOK
  <2> QED
    BY <1>2, <1>4, <1>5, <2>1, <2>2 DEF IInv, TypeOK
<1>7. LockInv'
  BY <1>2 DEF IInv, LockInv
<1>8. ReqInv'
  <2>1. next[c] \in Nat /\ req[c].pages \in Nat /\ next'[c] = next[c] + 1
    BY <1>2 DEF IInv, TypeOK
  <2>2. \A d \in CPU \ {c} : next'[d] = next[d]
    BY <1>2 DEF IInv, TypeOK
  <2>3. \A d \in CPU : PageOf(req[d].ptr)' = PageOf(req[d].ptr)
    BY <1>2 DEF PageOf
  <2> QED
    BY <1>2, <2>1, <2>2, <2>3 DEF IInv, ReqInv, InCall
<1>9. \A d \in CPU \ {c} : Returning(d)' = Returning(d) /\ p \notin Returning(d)
  <2>1. \A d \in CPU \ {c} : Returning(d)' = Returning(d)
    BY <1>2 DEF IInv, TypeOK, Returning, PageOf
  <2> QED
    BY <1>1, <2>1 DEF IInv, ReturningInv
<1>10. ReturningInv'
  BY <1>1, <1>2, <1>9 DEF IInv, ReturningInv
<1>11. MultiInv'
  BY <1>1, <1>2 DEF IInv, MultiInv, MultiAlloc, CachingFree
<1>12. Exclusive'
  BY <1>1, <1>2 DEF IInv, Exclusive
<1>13. Conservation'
  BY <1>1, <1>2, <1>9 DEF IInv, Conservation
<1> QED
  BY <1>4, <1>5, <1>6, <1>7, <1>8, <1>10, <1>11, <1>12, <1>13 DEF IInv

----------------------------------------------------------------------------
(***************************************************************************)
(* The invariant and what follows from it.                                 *)
(***************************************************************************)

\* The state pmm_init leaves satisfies the invariant.
LEMMA InitIInv == Init => IInv
<1> SUFFICES ASSUME Init PROVE IInv
  OBVIOUS
<1> USE PMMAssumption DEF Init
<1>1. Usable \in SUBSET Page
  BY DEF Page
<1>2. Accounting /\ free_pages \in 0 .. Mod64 - 1
  BY <1>1, PageSets DEF Accounting
<1>3. TypeOK
  BY <1>1, <1>2 DEF TypeOK, NoReq
<1>4. LockInv /\ ReqInv /\ MultiInv
  BY DEF LockInv, ReqInv, MultiInv, InCall, MultiAlloc
<1>5. ReturningInv
  BY DEF ReturningInv, Returning
<1>6. Exclusive
  BY DEF Exclusive
<1>7. CacheCoherent
  BY DEF CacheCoherent, Cached
<1>8. Conservation
  BY <1>1 DEF Conservation
<1> QED
  BY <1>2, <1>3, <1>4, <1>5, <1>6, <1>7, <1>8 DEF IInv

\* Every step keeps the invariant.
LEMMA NextIInv == IInv /\ [Next]_vars => IInv'
<1> SUFFICES ASSUME IInv, [Next]_vars PROVE IInv'
  OBVIOUS
<1>1. ASSUME UNCHANGED vars PROVE IInv'
  BY <1>1 DEF vars, IInv, TypeOK, LockInv, ReqInv, ReturningInv, MultiInv, Exclusive, Accounting,
       CacheCoherent, Conservation, Returning, MultiAlloc, CachingFree, InCall, Cached, PageOf
<1>2. ASSUME NEW c \in CPU, NEW n \in Sizes, PallocRefuse(c, n) PROVE IInv'
  BY <1>1, <1>2 DEF PallocRefuse
<1>3. ASSUME NEW c \in CPU, NEW n \in Sizes, PallocEnter(c, n) PROVE IInv'
  BY <1>3, PallocEnterKeeps
<1>4. ASSUME NEW c \in CPU, PallocAcquire(c) \/ PfreeAcquire(c) PROVE IInv'
  BY <1>4, AcquireKeeps
<1>5. ASSUME NEW c \in CPU, PallocFromCache(c) PROVE IInv'
  BY <1>5, PallocFromCacheKeeps
<1>6. ASSUME NEW c \in CPU, PallocScan(c) PROVE IInv'
  BY <1>6, PallocScanKeeps
<1>7. ASSUME NEW c \in CPU, PallocNoRun(c) PROVE IInv'
  BY <1>7, PallocNoRunKeeps
<1>8. ASSUME NEW c \in CPU, PfreeIgnore(c) PROVE IInv'
  BY <1>1, <1>8 DEF PfreeIgnore
<1>9. ASSUME NEW c \in CPU, NEW n \in Sizes, NEW s \in Page, NEW offset \in {0, Hhdm},
             PfreeEnter(c, s, n, offset)
      PROVE  IInv'
  BY <1>9, PfreeEnterKeeps
<1>10. ASSUME NEW c \in CPU, NEW n \in Sizes, NEW offset \in {0, Hhdm},
              PfreeEnterForeign(c, n, offset)
       PROVE  IInv'
  BY <1>10, PfreeEnterForeignKeeps
<1>11. ASSUME NEW c \in CPU, PfreeOutOfRange(c) \/ PfreeDone(c) PROVE IInv'
  BY <1>11, PfreeReturnKeeps
<1>12. ASSUME NEW c \in CPU, PfreePage(c) PROVE IInv'
  BY <1>12, PfreePageKeeps
<1> QED
  BY <1>1, <1>2, <1>3, <1>4, <1>5, <1>6, <1>7, <1>8, <1>9, <1>10, <1>11, <1>12 DEF Next

\* The inductive invariant holds in every reachable state.
THEOREM Invariance == Spec => []IInv
  BY InitIInv, NextIInv, PTL DEF Spec

\* palloc and pfree keep the types of the allocator's state.  (That free_pages
\* does not wrap around is part of AccountingCorrect.)
THEOREM TypeCorrect == Spec => []TypeOK
<1>1. IInv => TypeOK
  BY DEF IInv
<1> QED
  BY <1>1, Invariance, PTL

\* palloc never hands a page to two callers, nor a page whose bit says free.
THEOREM ExclusiveCorrect == Spec => []Exclusive
<1>1. IInv => Exclusive
  BY DEF IInv
<1> QED
  BY <1>1, Invariance, PTL

\* free_pages always equals the number of clear bits.
THEOREM AccountingCorrect == Spec => []Accounting
<1>1. IInv => Accounting
  BY DEF IInv
<1> QED
  BY <1>1, Invariance, PTL

\* The page cache holds distinct pages, each of them free, so that a page popped
\* by palloc(1) has no holder and no second copy left in the cache.
THEOREM CacheCorrect == Spec => []CacheCoherent
<1>1. IInv => CacheCoherent
  BY DEF IInv
<1> QED
  BY <1>1, Invariance, PTL

\* No usable page is ever lost and no reserved page is ever handed out.
THEOREM ConservationCorrect == Spec => []Conservation
<1>1. IInv => Conservation
  BY DEF IInv
<1> QED
  BY <1>1, Invariance, PTL

----------------------------------------------------------------------------
(***************************************************************************)
(* PMM implements PageAllocator.  The allocation steps map to Allocate,    *)
(* entering pfree to GiveBack, an iteration of its loop to Reclaim, and    *)
(* the others change no page's status.                                     *)
(***************************************************************************)

\* A step that changes neither the bitmap nor the holders is a stutter.
LEMMA StatusUnchanged ==
    ASSUME UNCHANGED <<clear, owners>>
    PROVE  UNCHANGED Status
  BY DEF Status

\* Handing out a run of free pages is an Allocate step.
LEMMA GrantAllocates ==
    ASSUME IInv, NEW s \in Nat, NEW n \in Nat, Run(s, n) \subseteq clear,
           clear' = clear \ Run(s, n),
           owners' = [q \in Page |-> IF q \in Run(s, n) THEN owners[q] + 1 ELSE owners[q]]
    PROVE  PA!Next
<1> DEFINE S == Run(s, n)
<1>1. S \in SUBSET Usable /\ Usable \subseteq Page
  <2>1. Usable \subseteq Page
    BY PMMAssumption DEF Page
  <2>2. clear \subseteq Usable
    BY DEF IInv, TypeOK, Conservation
  <2> QED
    BY <2>1, <2>2
<1>2. \A q \in S : owners[q] \in Nat /\ owners'[q] = owners[q] + 1
  BY <1>1 DEF IInv, TypeOK
<1>3. \A p, q \in S : \A r \in p .. q : r \in S
  BY DEF Run
<1>4. \A q \in S : Status[q] = "free" /\ Status'[q] = "held"
  BY <1>1, <1>2 DEF Status
<1>5. \A q \in Usable \ S : Status'[q] = Status[q]
  BY <1>1 DEF Status
<1>6. Status' = [q \in Usable |-> IF q \in S THEN "held" ELSE Status[q]]
  <2>1. Status' = [q \in Usable |-> Status'[q]]
    BY DEF Status
  <2> QED
    BY <1>4, <1>5, <2>1
<1> HIDE DEF S
<1> QED
  BY <1>1, <1>3, <1>4, <1>6 DEF PA!Next, PA!Allocate, PA!Become

\* Every step of palloc and pfree is a step, or a stutter, of PageAllocator.
LEMMA StepRefines == IInv /\ [Next]_vars => [PA!Next]_Status
<1> SUFFICES ASSUME IInv, [Next]_vars PROVE PA!Next \/ UNCHANGED Status
  OBVIOUS
<1>1. CASE UNCHANGED <<clear, owners>>
  BY <1>1, StatusUnchanged
<1>2. ASSUME NEW c \in CPU, PallocFromCache(c) PROVE PA!Next
  <2>1. /\ page_cache \in Seq(Page) /\ page_cache # << >> /\ clear \subseteq Page
    BY <1>2 DEF IInv, TypeOK, PallocFromCache, UseCache
  <2>2. Len(page_cache) \in Nat \ {0}
    BY <2>1, EmptySeq
  <2> DEFINE p == page_cache[Len(page_cache)]
  <2>3. p \in clear /\ p \in Nat
    BY <2>1, <2>2, PMMAssumption DEF IInv, CacheCoherent, Cached, Page
  <2>4. Run(p, 1) = {p}
    <3> HIDE DEF p
    <3> QED
      BY <2>3 DEF Run
  <2>5. clear' = clear \ Run(p, 1) /\ Grant(p, 1)
    BY <1>2, <2>4 DEF PallocFromCache
  <2> HIDE DEF p
  <2> QED
    BY <2>3, <2>4, <2>5, GrantAllocates DEF Grant
<1>3. ASSUME NEW c \in CPU, PallocScan(c) PROVE PA!Next
  <2>1. req[c].pages \in Nat
    BY DEF IInv, TypeOK
  <2>2. PICK s \in Page : /\ Run(s, req[c].pages) \subseteq clear
                          /\ clear' = clear \ Run(s, req[c].pages)
                          /\ Grant(s, req[c].pages)
    BY <1>3 DEF PallocScan, FirstFit, Fits
  <2>3. s \in Nat
    BY PMMAssumption DEF Page
  <2> QED
    BY <2>1, <2>2, <2>3, GrantAllocates DEF Grant
<1>4. ASSUME NEW c \in CPU, NEW n \in Sizes, NEW s \in Page, NEW offset \in {0, Hhdm},
             PfreeEnter(c, s, n, offset)
      PROVE  PA!Next
  <2> DEFINE S == Run(s, n)
  <2>1. /\ clear' = clear
        /\ owners' = [q \in Page |-> IF q \in S THEN owners[q] - 1 ELSE owners[q]]
        /\ \A q \in S : q \in Page /\ owners[q] > 0
    BY <1>4 DEF PfreeEnter
  <2>2. Usable \subseteq Page /\ \A q \in Page : owners[q] \in Nat
    BY PMMAssumption DEF Page, IInv, TypeOK
  <2>3. \A q \in S : q \in Usable /\ q \notin clear /\ owners[q] = 1 /\ owners'[q] = 0
    BY <2>1, <2>2 DEF IInv, Exclusive, Conservation
  <2> HIDE DEF S
  <2>4. \A q \in S : Status[q] = "held" /\ Status'[q] = "returning"
    BY <2>1, <2>3 DEF Status
  <2>5. \A q \in Usable \ S : Status'[q] = Status[q]
    BY <2>1, <2>2 DEF Status
  <2>6. Status' = [q \in Usable |-> IF q \in S THEN "returning" ELSE Status[q]]
    <3>1. Status' = [q \in Usable |-> Status'[q]]
      BY DEF Status
    <3> QED
      BY <2>4, <2>5, <3>1
  <2>7. S \in SUBSET Usable
    BY <2>3
  <2> QED
    BY <2>4, <2>6, <2>7 DEF PA!Next, PA!GiveBack, PA!Become
<1>5. ASSUME NEW c \in CPU, PfreePage(c) PROVE PA!Next
  <2>1. PICK p \in Usable : /\ p \notin clear /\ owners[p] = 0
                            /\ clear' = clear \cup {p} /\ owners' = owners
    BY <1>5, PfreePageEffect DEF PfreePage
  <2>2. Status[p] = "returning" /\ Status'[p] = "free"
    BY <2>1 DEF Status
  <2>3. \A q \in Usable \ {p} : Status'[q] = Status[q]
    BY <2>1 DEF Status
  <2>4. Status' = [q \in Usable |-> IF q \in {p} THEN "free" ELSE Status[q]]
    <3>1. Status' = [q \in Usable |-> Status'[q]]
      BY DEF Status
    <3> QED
      BY <2>2, <2>3, <3>1
  <2> QED
    BY <2>2, <2>4 DEF PA!Next, PA!Reclaim, PA!Become
<1> QED
  BY <1>1, <1>2, <1>3, <1>4, <1>5
     DEF vars, Next, PallocRefuse, PallocEnter, PallocAcquire, Acquire, PallocNoRun, PfreeIgnore,
         PfreeEnterForeign, PfreeAcquire, PfreeOutOfRange, PfreeDone

\* The allocator of pmm.c implements the abstract page allocator.
THEOREM Refinement == Spec => ImplementsPageAllocator
<1>1. Init => PA!Init
  BY DEF Init, PA!Init, Status
<1> QED
  BY <1>1, Invariance, StepRefines, PTL DEF Spec, PA!Spec, ImplementsPageAllocator
=============================================================================
