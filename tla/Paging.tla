------------------------------ MODULE Paging -------------------------------
(***************************************************************************)
(* Page tables, kernel/src/arch/paging.c: trees of Levels tables with Fan  *)
(* entries (4 and 512 in the kernel), the upper half of the top level      *)
(* common to all of them.  Addresses are counted in pages.  Tables come    *)
(* from the page allocator, here the set avail.  palloc clears a page, the *)
(* code that makes a table clears it again, and here it is cleared once.   *)
(* vmap, vunmap and vmap_large take one step per level; the MMU may walk   *)
(* the tables and cache what it finds between any two steps.  Calls do not *)
(* overlap (see SmpBoot).                                                  *)
(*                                                                         *)
(* flat is a ghost: for each table tree the plain map from pages to pages  *)
(* that the calls so far describe.                                         *)
(***************************************************************************)
EXTENDS Integers, Sequences

CONSTANTS Levels, Fan,
          NFrames,     \* number of physical pages for tables
          Builds,      \* values of the build option LARGE_PAGES
          Boot,        \* the ranges paging_init maps, in order
          Virt,        \* addresses mapped, unmapped and used later
          Phys,        \* physical pages mapped later
          FlagSets,    \* flags given to vmap
          NULL

Frame == 1 .. NFrames
Index == 0 .. Fan - 1

\* The pages under one entry of level l + 1, 2^(PML_SHIFT - 12) in the kernel.
Span[l \in 0 .. Levels] == IF l = 0 THEN 1 ELSE Fan * Span[l - 1]

Addr == 0 .. Span[Levels] - 1
Flag == {"W", "U", "NX"}

\* Where large pages are in use, an entry of the memory map shares no page with
\* a range that is mapped after it.
ASSUME PagingAssumption ==
    /\ Levels \in Nat /\ Levels >= 2 /\ Fan \in Nat /\ Fan >= 2 /\ NFrames \in Nat
    /\ Builds \subseteq BOOLEAN
    /\ Boot \in Seq([v : Addr, n : Nat, p : Nat, fl : SUBSET Flag, memmap : BOOLEAN])
    /\ \A r \in DOMAIN Boot : Boot[r].v + Boot[r].n <= Span[Levels]
    /\ TRUE \in Builds => \A r, s \in DOMAIN Boot : r < s /\ Boot[r].memmap =>
         \/ Boot[r].v + Boot[r].n <= Boot[s].v
         \/ Boot[s].v + Boot[s].n <= Boot[r].v
    /\ Virt \subseteq Addr
    /\ Phys \subseteq Nat
    /\ FlagSets \subseteq SUBSET Flag
    /\ NULL \notin Nat

VARIABLES LARGE_PAGES,     \* the build option
          mem,             \* the contents of the pages for tables
          avail,           \* those that are free
          pagemaps,        \* the roots of the table trees
          kernel_pagemap,
          cr3,             \* the active tree; NULL: the boot loader's
          tlb,             \* one translation the MMU may have cached, or NULL
          pc,
          call,            \* operation and arguments of the current call
          table, level,    \* where its walk is
          range, offset,   \* loop indices of paging_init
          flat

vars == <<LARGE_PAGES, mem, avail, pagemaps, kernel_pagemap, cr3, tlb, pc, call, table, level, range, offset, flat>>
roots == <<LARGE_PAGES, pagemaps, kernel_pagemap>>
walk == <<call, table, level>>
loop == <<range, offset>>

Entry(on, to, fl, ps) == [on |-> on, to |-> to, fl |-> fl, ps |-> ps]
Empty == Entry(FALSE, 0, {}, FALSE)
Cleared == [x \in Index |-> Empty]
NoCall == [op |-> "none", pm |-> 0, v |-> 0, p |-> 0, fl |-> {}]
NoPage == [on |-> FALSE, to |-> 0, fl |-> {}]

page_index(v, l) == (v \div Span[l - 1]) % Fan
Upper(v) == page_index(v, Levels) >= Fan \div 2

Palloc == {f \in avail : \A g \in avail : f <= g}

----------------------------------------------------------------------------
(***************************************************************************)
(* The walk of the MMU: a page may be written to, or used in user mode,    *)
(* when every level allows it, and executed when none forbids it.          *)
(***************************************************************************)
Combine(fl, gl) == (fl \cap gl) \cup ((fl \cup gl) \cap {"NX"})

MmuStep(s, v, l) ==
    LET e == mem[s.to][page_index(v, l)] IN
    IF ~ s.on \/ s.end THEN s
    ELSE IF ~ e.on THEN [on |-> FALSE, to |-> 0, fl |-> {}, end |-> FALSE]
    ELSE [on |-> TRUE, to |-> IF e.ps THEN e.to + (v % Fan) ELSE e.to,
          fl |-> Combine(s.fl, e.fl), end |-> e.ps]

Mmu(pm, v) ==
    LET W[k \in 0 .. Levels] ==
          IF k = 0 THEN [on |-> TRUE, to |-> pm, fl |-> {"W", "U"}, end |-> FALSE]
          ELSE MmuStep(W[k - 1], v, Levels + 1 - k)
        r == W[Levels]
    IN  [on |-> r.on, to |-> r.to, fl |-> r.fl]

\* The MMU caches a translation of the active tree.
Touch(v) ==
    /\ pc \notin {"reset", "panic"} /\ cr3 # NULL
    /\ Mmu(cr3, v).on
    /\ tlb' = [v |-> v, m |-> Mmu(cr3, v)]
    /\ UNCHANGED <<mem, avail, roots, cr3, pc, walk, loop, flat>>

(***************************************************************************)
(* The kernel's own walk, which does not know large pages: get_table for   *)
(* each level down to the table of level l for address v.                  *)
(***************************************************************************)
get_table(t, x) == IF t = NULL THEN NULL ELSE IF mem[t][x].on THEN mem[t][x].to ELSE NULL

TableOf(pm, v, l) ==
    LET T[k \in 0 .. Levels - 1] ==
          IF k = 0 THEN pm ELSE get_table(T[k - 1], page_index(v, Levels + 1 - k))
    IN  T[Levels - l]

\* Mutant: the last table is indexed like the one before it.
virt_to_phys_wrong(pm, v) ==
    LET t == TableOf(pm, v, 1) IN
    IF t = NULL \/ ~ mem[t][page_index(v, 2)].on THEN 0 ELSE mem[t][page_index(v, 2)].to

virt_to_phys(pm, v) ==
    LET t == TableOf(pm, v, 1) IN
    IF t = NULL \/ ~ mem[t][page_index(v, 1)].on THEN 0 ELSE mem[t][page_index(v, 1)].to

----------------------------------------------------------------------------
\* Memory may be short from the start.
Init ==
    /\ LARGE_PAGES \in Builds
    /\ mem = [f \in Frame |-> [x \in Index |-> Entry(TRUE, f, {}, FALSE)]]
    /\ \E k \in 0 .. NFrames : avail = 1 .. k
    /\ pagemaps = {} /\ kernel_pagemap = NULL /\ cr3 = NULL /\ tlb = NULL
    /\ pc = "reset" /\ call = NoCall /\ table = NULL /\ level = 0
    /\ range = 1 /\ offset = 0
    /\ flat = [pm \in {} |-> 0]

Panic ==
    /\ pc' = "panic"
    /\ UNCHANGED <<mem, avail, roots, cr3, tlb, walk, loop, flat>>

(***************************************************************************)
(* paging_init: each range is mapped page by page, the memory map by large *)
(* pages where the alignment and the length allow it.                      *)
(***************************************************************************)
PagingInit ==
    /\ pc = "reset"
    /\ \E f \in Palloc :
         /\ avail' = avail \ {f}
         /\ mem' = [mem EXCEPT ![f] = Cleared]
         /\ kernel_pagemap' = f /\ pagemaps' = {f}
         /\ flat' = [pm \in {f} |-> [v \in Addr |-> NoPage]]
    /\ pc' = "init"
    /\ UNCHANGED <<LARGE_PAGES, cr3, tlb, walk, loop>>

PagingInitFails == pc = "reset" /\ avail = {} /\ Panic

Enter(op, pm, v, p, fl) ==
    /\ call' = [op |-> op, pm |-> pm, v |-> v, p |-> p, fl |-> fl]
    /\ table' = pm /\ level' = Levels
    /\ pc' = IF op = "vunmap" THEN "unwalk" ELSE "walk"

LargeFits(r, o) ==
    /\ Boot[r].memmap
    /\ (Boot[r].p + o) % Fan = 0 /\ (Boot[r].v + o) % Fan = 0
    /\ Boot[r].n - o >= Fan

InitMap ==
    /\ pc = "init" /\ range <= Len(Boot) /\ offset < Boot[range].n
    /\ Enter(IF LARGE_PAGES /\ LargeFits(range, offset) THEN "vmap_large" ELSE "vmap",
             kernel_pagemap, Boot[range].v + offset, Boot[range].p + offset, Boot[range].fl)
    /\ UNCHANGED <<mem, avail, roots, cr3, tlb, loop, flat>>

InitNextRange ==
    /\ pc = "init" /\ range <= Len(Boot) /\ offset >= Boot[range].n
    /\ range' = range + 1 /\ offset' = 0
    /\ UNCHANGED <<mem, avail, roots, cr3, tlb, pc, walk, flat>>

\* The end of a call.  Its result matters only to paging_init, where a large
\* page that could not be mapped is mapped as a small one.
Return(ok) ==
    IF range > Len(Boot)
    THEN pc' = "idle" /\ call' = NoCall /\ table' = NULL /\ level' = 0 /\ UNCHANGED loop
    ELSE IF call.op = "vmap_large" /\ ~ ok
    THEN Enter("vmap", call.pm, call.v, call.p, call.fl) /\ UNCHANGED loop
    ELSE /\ pc' = "init" /\ call' = NoCall /\ table' = NULL /\ level' = 0
         /\ offset' = offset + (IF call.op = "vmap_large" THEN Fan ELSE 1)
         /\ UNCHANGED range

----------------------------------------------------------------------------
(***************************************************************************)
(* pmset and pmnew                                                         *)
(***************************************************************************)
\* Loading cr3 drops the cached translations; paging_init ends with it.
Pmset(pm) ==
    /\ \/ pc = "idle"
       \/ pc = "init" /\ range > Len(Boot) /\ pm = kernel_pagemap
    /\ cr3' = pm /\ tlb' = NULL
    /\ pc' = "idle"
    /\ UNCHANGED <<mem, avail, roots, walk, loop, flat>>

\* The upper half is copied from the kernel's tree.
Pmnew ==
    /\ pc = "idle"
    /\ \E f \in Palloc :
         /\ avail' = avail \ {f}
         /\ mem' = [mem EXCEPT ![f] =
                      [x \in Index |-> IF x >= Fan \div 2 THEN mem[kernel_pagemap][x] ELSE Empty]]
         /\ pagemaps' = pagemaps \cup {f}
         /\ flat' = [pm \in pagemaps' |->
                       IF pm # f THEN flat[pm]
                       ELSE [v \in Addr |-> IF Upper(v) THEN flat[kernel_pagemap][v] ELSE NoPage]]
    /\ UNCHANGED <<LARGE_PAGES, kernel_pagemap, cr3, tlb, pc, walk, loop>>

PmnewFails == pc = "idle" /\ avail = {} /\ Panic

----------------------------------------------------------------------------
(***************************************************************************)
(* vmap and vmap_large.  Their callers map an upper address only under a   *)
(* top entry that paging_init has made (the direct map's), and no small    *)
(* page inside a large one.                                                *)
(***************************************************************************)
Leaf == IF call.op = "vmap_large" THEN 2 ELSE 1
Here == mem[table][page_index(call.v, level)]

InLarge(pm, v) ==
    LET t == TableOf(pm, v, 2) IN
    t # NULL /\ mem[t][page_index(v, 2)].on /\ mem[t][page_index(v, 2)].ps

VmapCall(pm, v, p, fl) ==
    /\ pc = "idle"
    /\ Upper(v) => mem[kernel_pagemap][page_index(v, Levels)].on
    /\ ~ InLarge(pm, v)
    /\ Enter("vmap", pm, v, p, fl)
    /\ UNCHANGED <<mem, avail, roots, cr3, tlb, loop, flat>>

\* Mutant: the flags are not cut to their low byte, which has no NX.
TableFlagsAll(old, fl) == old \cup fl

\* The flags of a table's entry: all rights, and the low byte of what the
\* caller asks for.
TableFlags(old, fl) == old \cup (fl \ {"NX"})

\* Mutant: a page is allocated before it is known whether one is needed.
WalkOnAllocates ==
    /\ pc = "walk" /\ level > Leaf /\ Here.on
    /\ mem' = [mem EXCEPT ![table][page_index(call.v, level)].fl = TableFlags(@, call.fl)]
    /\ avail' = avail \ Palloc
    /\ table' = Here.to /\ level' = level - 1
    /\ UNCHANGED <<roots, cr3, tlb, pc, call, loop, flat>>

WalkOn ==
    /\ pc = "walk" /\ level > Leaf /\ Here.on
    /\ mem' = [mem EXCEPT ![table][page_index(call.v, level)].fl = TableFlags(@, call.fl)]
    /\ table' = Here.to /\ level' = level - 1
    /\ UNCHANGED <<avail, roots, cr3, tlb, pc, call, loop, flat>>

WalkAlloc ==
    /\ pc = "walk" /\ level > Leaf /\ ~ Here.on
    /\ \E f \in Palloc :
         /\ avail' = avail \ {f}
         /\ mem' = [mem EXCEPT ![f] = Cleared,
                               ![table][page_index(call.v, level)] =
                                  Entry(TRUE, f, TableFlags({"W", "U"}, call.fl), FALSE)]
         /\ table' = f
    /\ level' = level - 1
    /\ UNCHANGED <<roots, cr3, tlb, pc, call, loop, flat>>

\* No page for a table: the tables linked so far stay.
WalkFails ==
    /\ pc = "walk" /\ level > Leaf /\ ~ Here.on /\ avail = {}
    /\ Return(FALSE)
    /\ UNCHANGED <<mem, avail, roots, cr3, tlb, flat>>

\* The pages a leaf entry of the current call is about.
Covered == IF Leaf = 2 THEN call.v .. call.v + Fan - 1 ELSE {call.v}

\* What a leaf entry says, to every tree that shares it.
Describe(m(_)) ==
    flat' = [pm \in pagemaps |-> [v \in Addr |->
               IF v \in Covered /\ (pm = call.pm \/ Upper(v)) THEN m(v) ELSE flat[pm][v]]]

SetLeaf ==
    /\ pc = "walk" /\ level = Leaf
    /\ mem' = [mem EXCEPT ![table][page_index(call.v, level)] = Entry(TRUE, call.p, call.fl, Leaf = 2)]
    /\ Describe(LAMBDA v : [on |-> TRUE, to |-> call.p + (v - call.v), fl |-> call.fl])
    /\ pc' = "invlpg"
    /\ UNCHANGED <<avail, roots, cr3, tlb, walk, loop>>

\* Mutant: the call returns without invlpg.
InvlpgSkipped ==
    /\ pc = "invlpg"
    /\ Return(TRUE)
    /\ UNCHANGED <<mem, avail, roots, cr3, tlb, flat>>

\* invlpg drops what the executing CPU has cached of the page, large or small.
Invlpg ==
    /\ pc = "invlpg"
    /\ tlb' = IF tlb # NULL /\ tlb.v \in Covered THEN NULL ELSE tlb
    /\ Return(TRUE)
    /\ UNCHANGED <<mem, avail, roots, cr3, flat>>

----------------------------------------------------------------------------
(***************************************************************************)
(* vunmap                                                                  *)
(***************************************************************************)
VunmapCall(pm, v) ==
    /\ pc = "idle" /\ ~ InLarge(pm, v)
    /\ Enter("vunmap", pm, v, 0, {})
    /\ UNCHANGED <<mem, avail, roots, cr3, tlb, loop, flat>>

UnwalkOn ==
    /\ pc = "unwalk" /\ level > 1 /\ Here.on
    /\ table' = Here.to /\ level' = level - 1
    /\ UNCHANGED <<mem, avail, roots, cr3, tlb, pc, call, loop, flat>>

UnwalkAbsent ==
    /\ pc = "unwalk" /\ level > 1 /\ ~ Here.on
    /\ Return(TRUE)
    /\ UNCHANGED <<mem, avail, roots, cr3, tlb, flat>>

ClearLeaf ==
    /\ pc = "unwalk" /\ level = 1
    /\ mem' = [mem EXCEPT ![table][page_index(call.v, 1)] = Empty]
    /\ Describe(LAMBDA v : NoPage)
    /\ pc' = "invlpg"
    /\ UNCHANGED <<avail, roots, cr3, tlb, walk, loop>>

----------------------------------------------------------------------------
Next ==
    \/ PagingInit \/ PagingInitFails \/ InitMap \/ InitNextRange
    \/ \E pm \in pagemaps : Pmset(pm)
    \/ Pmnew \/ PmnewFails
    \/ \E pm \in pagemaps, v \in Virt, p \in Phys, fl \in FlagSets : VmapCall(pm, v, p, fl)
    \/ WalkOn \/ WalkAlloc \/ WalkFails \/ SetLeaf \/ Invlpg
    \/ \E pm \in pagemaps, v \in Virt : VunmapCall(pm, v)
    \/ UnwalkOn \/ UnwalkAbsent \/ ClearLeaf
    \/ \E v \in Virt : Touch(v)

Spec == Init /\ [][Next]_vars

----------------------------------------------------------------------------
(***************************************************************************)
(* Properties                                                              *)
(***************************************************************************)
\* Entries and walks stay within the tables, and paging_init never runs past
\* the end of a range, also with large pages.
TypeOK ==
    /\ LARGE_PAGES \in BOOLEAN
    /\ mem \in [Frame -> [Index -> [on : BOOLEAN, to : Nat, fl : SUBSET Flag, ps : BOOLEAN]]]
    /\ avail \subseteq Frame /\ pagemaps \subseteq Frame
    /\ kernel_pagemap \in Frame \cup {NULL} /\ cr3 \in pagemaps \cup {NULL}
    /\ pc \in {"reset", "init", "idle", "walk", "unwalk", "invlpg", "panic"}
    /\ table \in Frame \cup {NULL} /\ level \in 0 .. Levels
    /\ range \in 1 .. Len(Boot) + 1
    /\ offset = 0 \/ (range <= Len(Boot) /\ offset \in 0 .. Boot[range].n)
    /\ flat \in [pagemaps -> [Addr -> [on : BOOLEAN, to : Nat, fl : SUBSET Flag]]]

\* At every moment, in the middle of calls too, the MMU finds in every tree
\* exactly what vmap, vmap_large and vunmap were asked for, with exactly the
\* rights asked for; the kernel half is the same in all trees, the user
\* halves are independent, and a failed vmap changes nothing.
Translation ==
    /\ TypeOK
    /\ \A pm \in pagemaps, v \in Addr : Mmu(pm, v) = flat[pm][v]

\* virt_to_phys inverts vmap for small pages.
VirtToPhysRight ==
    \A pm \in pagemaps, v \in Addr :
        ~ InLarge(pm, v) => virt_to_phys(pm, v) = flat[pm][v].to

\* On the executing CPU no cached translation outlives the call that changes it:
\* between calls, and in every call up to its invlpg, what is cached is what the
\* active tables say, whichever tree the call is about.
TlbCoherent ==
    tlb # NULL /\ (pc = "invlpg" => tlb.v \notin Covered) => tlb.m = Mmu(cr3, tlb.v)

\* The tables of the trees and the free pages are all there is: no table is
\* lost, also when memory runs out in the middle of a vmap, and none that is
\* in use is free.  (With large pages paging_init cuts the last tables of the
\* direct map off.)
Below(t) == {mem[t][x].to : x \in {y \in Index : mem[t][y].on}}

TablesOf(S) ==
    LET T[k \in 0 .. Levels - 1] == IF k = 0 THEN S ELSE UNION {Below(t) : t \in T[k - 1]}
    IN  UNION {T[k] : k \in 0 .. Levels - 1}

TablesAccounted ==
    ~ LARGE_PAGES => \E k \in 0 .. NFrames :
        /\ TablesOf(pagemaps) \cup avail = 1 .. k
        /\ TablesOf(pagemaps) \cap avail = {}
=============================================================================
