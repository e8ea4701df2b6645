-------------------------------- MODULE VMM --------------------------------
(***************************************************************************)
(* An address space, kernel/src/mm/vmm.c: a context whose regions form a   *)
(* linked list, each region's descriptor in a page of its own.  Addresses  *)
(* are counted in pages.  Physical pages come from the page allocator,     *)
(* here the set avail (palloc returns NULL when it is empty; pages are     *)
(* interchangeable, so it takes the lowest, and a run for elf_load the     *)
(* lowest run); a descriptor is named by its page.  vmap is given by       *)
(* its effect on one context's map from virtual to physical pages, with a  *)
(* leaf table to be allocated for every TableSpan pages; its failure is    *)
(* ignored by all callers.  Calls do not overlap (see SmpBoot), list walks *)
(* and page loops take one step per element.                               *)
(*                                                                         *)
(* vinit clears the context but not the page of the root descriptor; that  *)
(* this page is zero when palloc returns it is assumed here.               *)
(***************************************************************************)
EXTENDS Integers, FiniteSets

CONSTANTS NFrames,    \* number of physical pages
          Start,      \* address given to vinit, in pages
          Sizes,      \* region sizes callers ask for
          TableSpan,  \* pages one leaf table maps, 512 in the kernel
          Phys,       \* physical addresses given to vallocat
          Segments,   \* addresses given to vadd
          NULL

Frame == 1 .. NFrames

ASSUME VMMAssumption ==
    /\ NFrames \in Nat /\ Start \in Nat \ {0} /\ TableSpan \in Nat \ {0}
    /\ Sizes \subseteq Nat \ {0}
    /\ Phys \subseteq Nat /\ Phys \cap Frame = {}
    /\ Segments \subseteq Nat
    /\ NULL \notin Nat

VARIABLES avail,      \* the free physical pages
          ctx,        \* the page of the vctx_t
          root,       \* ctx->root
          start, pages, next, prev,  \* the fields of the descriptors
          pagemap,    \* the present mappings: virtual page |-> physical page
          tables,     \* leaf tables: index |-> page
          pc,         \* where the call is
          arg,        \* its arguments: operation, address, page count, frames
          region,     \* the descriptor a walk looks at; later the new one
          i,          \* loop index
          starved,    \* ghost: vmap has failed for want of a table
          given,      \* ghost: the addresses callers hold
          managed     \* ghost: the pages that were free at first

vars == <<avail, ctx, root, start, pages, next, prev, pagemap, tables, pc, arg, region, i, starved, given, managed>>
fields == <<start, pages, next, prev>>
maps == <<pagemap, tables, starved, managed>>

NoArg == [op |-> "none", v |-> 0, n |-> 0, phys |-> 0]
End(r) == start[r] + pages[r]
Pages(r) == start[r] .. End(r) - 1

\* Memory may already be short when the context is made.
Init ==
    /\ \E k \in 0 .. NFrames : avail = 1 .. k
    /\ ctx = NULL /\ root = NULL
    /\ start = [f \in Frame |-> 0] /\ pages = [f \in Frame |-> 0]
    /\ next = [f \in Frame |-> NULL] /\ prev = [f \in Frame |-> NULL]
    /\ pagemap = [v \in {} |-> 0] /\ tables = [t \in {} |-> 0]
    /\ pc = "none" /\ arg = NoArg /\ region = NULL /\ i = 0
    /\ starved = FALSE /\ given = {} /\ managed = avail

Return ==
    /\ pc' = "idle" /\ arg' = NoArg /\ region' = NULL /\ i' = 0

\* The page palloc takes from S, if there is one.
Palloc(S) == {f \in S : \A g \in S : f <= g}

Last(r) == next[r] = NULL

\* What following next from x leads to: the least set with x that next does not
\* leave.
Reach(x) ==
    LET Closed == {S \in SUBSET Frame : /\ x # NULL => x \in S
                                       /\ \A s \in S : next[s] # NULL => next[s] \in S}
    IN  {r \in Frame : \A S \in Closed : r \in S}

\* What the list holds.
Listed == Reach(root)

----------------------------------------------------------------------------
(***************************************************************************)
(* vinit and vdestroy                                                      *)
(***************************************************************************)
Vinit ==
    /\ pc = "none"
    /\ \E f \in Palloc(avail) : \E r \in Palloc(avail \ {f}) :
         /\ ctx' = f /\ root' = r
         /\ avail' = avail \ {f, r}
         /\ start' = [start EXCEPT ![r] = Start]
    /\ pc' = "idle"
    /\ UNCHANGED <<given, pages, next, prev, maps, arg, region, i>>

\* No page for the context, or none for the root: the context is given back.
VinitFails ==
    /\ pc = "none" /\ Cardinality(avail) < 2
    /\ UNCHANGED vars

\* The descriptors go back one by one, the mappings stay.
VdestroyCall ==
    /\ pc = "idle" /\ root # NULL
    /\ pc' = "destroy" /\ region' = root
    /\ UNCHANGED <<avail, ctx, given, root, fields, maps, arg, i>>

VdestroyRegion ==
    /\ pc = "destroy" /\ region # NULL
    /\ region' = next[region]
    /\ avail' = avail \cup {region}
    /\ UNCHANGED <<ctx, given, root, fields, maps, pc, arg, i>>

VdestroyContext ==
    /\ pc = "destroy" /\ region = NULL
    /\ avail' = avail \cup {ctx}
    /\ pc' = "gone"
    /\ UNCHANGED <<ctx, given, root, fields, maps, arg, region, i>>

----------------------------------------------------------------------------
(***************************************************************************)
(* vmap, one virtual page v to physical page f, when the pages of `free'   *)
(* are available.                                                          *)
(***************************************************************************)
Mapped(v, f) == [w \in DOMAIN pagemap \cup {v} |-> IF w = v THEN f ELSE pagemap[w]]

Vmap(v, f, free) ==
    LET t == v \div TableSpan IN
    \/ /\ t \in DOMAIN tables
       /\ pagemap' = Mapped(v, f)
       /\ avail' = free
       /\ UNCHANGED <<tables, starved, managed>>
    \/ /\ t \notin DOMAIN tables
       /\ \E g \in Palloc(free) :
            /\ tables' = [u \in DOMAIN tables \cup {t} |-> IF u = t THEN g ELSE tables[u]]
            /\ avail' = free \ {g}
       /\ pagemap' = Mapped(v, f)
       /\ UNCHANGED <<starved, managed>>
    \/ /\ t \notin DOMAIN tables /\ free = {}
       /\ avail' = free
       /\ starved' = TRUE
       /\ UNCHANGED <<pagemap, tables, managed>>

----------------------------------------------------------------------------
(***************************************************************************)
(* valloc and vallocat.  The code after their loops is never reached: the  *)
(* loop always ends at the last region.                                    *)
(***************************************************************************)

\* Every call on a context that vinit could not make returns at once.
NoRoot ==
    /\ pc \in {"none", "idle"} /\ root = NULL
    /\ UNCHANGED vars

\* The kernel allocates where there is room: in a context without segments, or
\* the stack of a process, far below them.
RoomFor(n) == \A r, s \in Listed : Last(r) /\ start[s] > start[r] => End(r) + n <= start[s]

VallocCall(n) ==
    /\ pc = "idle" /\ root # NULL
    /\ RoomFor(n)
    /\ arg' = [NoArg EXCEPT !.op = "valloc", !.n = n]
    /\ region' = root /\ pc' = "search"
    /\ UNCHANGED <<avail, ctx, given, root, fields, maps, i>>

\* The kernel's own call asks for no less than the regions before the last
\* have.
VallocatCall(n, p) ==
    /\ pc = "idle" /\ root # NULL
    /\ RoomFor(n)
    /\ \A r \in Listed : ~ Last(r) => pages[r] <= n
    /\ arg' = [NoArg EXCEPT !.op = "vallocat", !.n = n, !.phys = p]
    /\ region' = root /\ pc' = "search"
    /\ UNCHANGED <<avail, ctx, given, root, fields, maps, i>>

\* The gap after region r is taken: valloc compares the end of r with the
\* start of the next region, vallocat the start of r plus the new size.
Gap(r) ==
    next[r] # NULL =>
        (IF arg.op = "valloc" THEN End(r) ELSE start[r] + arg.n) < start[next[r]]

SearchOn ==
    /\ pc = "search" /\ ~ Gap(region)
    /\ region' = next[region]
    /\ UNCHANGED <<avail, ctx, given, root, fields, maps, pc, arg, i>>

\* Mutant: the new region starts one page early.
NewStartEarly(r) == IF pages[r] > 0 THEN End(r) - 1 ELSE End(r)
NewStart(r) == End(r)

\* Mutant: the new descriptor does not know the region before it.
InsertNoPrev ==
    /\ pc = "search" /\ Gap(region)
    /\ \E f \in Palloc(avail) :
         /\ avail' = avail \ {f}
         /\ start' = [start EXCEPT ![f] = NewStart(region)]
         /\ pages' = [pages EXCEPT ![f] = arg.n]
         /\ next' = [next EXCEPT ![f] = next[region], ![region] = f]
         /\ prev' = [prev EXCEPT ![f] = NULL]
         /\ region' = f
    /\ pc' = "map"
    /\ UNCHANGED <<ctx, given, root, maps, arg, i>>

\* The new descriptor is linked after region; the prev pointer of the region
\* behind it is not updated.
Insert ==
    /\ pc = "search" /\ Gap(region)
    /\ \E f \in Palloc(avail) :
         /\ avail' = avail \ {f}
         /\ start' = [start EXCEPT ![f] = NewStart(region)]
         /\ pages' = [pages EXCEPT ![f] = arg.n]
         /\ next' = [next EXCEPT ![f] = next[region], ![region] = f]
         /\ prev' = [prev EXCEPT ![f] = region]
         /\ region' = f
    /\ pc' = "map"
    /\ UNCHANGED <<ctx, given, root, maps, arg, i>>

NoDescriptor ==
    /\ pc = "search" /\ Gap(region) /\ avail = {}
    /\ Return
    /\ UNCHANGED <<avail, ctx, given, root, fields, maps>>

\* One page of the region is allocated and mapped.
MapNew ==
    /\ pc = "map" /\ arg.op = "valloc" /\ i < arg.n
    /\ \E f \in Palloc(avail) : Vmap(start[region] + i, f, avail \ {f})
    /\ i' = i + 1
    /\ UNCHANGED <<ctx, given, root, fields, pc, arg, region>>

\* Mutant: a failed valloc takes its descriptor off the list and forgets it.
MapNoPageForgets ==
    /\ pc = "map" /\ arg.op = "valloc" /\ i < arg.n /\ avail = {}
    /\ next' = [next EXCEPT ![prev[region]] = next[region]]
    /\ Return
    /\ UNCHANGED <<avail, ctx, given, root, start, pages, prev, maps>>

\* No page left: NULL, but the region stays in the list, partly mapped.
MapNoPage ==
    /\ pc = "map" /\ arg.op = "valloc" /\ i < arg.n /\ avail = {}
    /\ Return
    /\ UNCHANGED <<avail, ctx, given, root, fields, maps>>

\* vallocat and vadd map given pages.
MapGiven ==
    /\ pc = "map" /\ arg.op \in {"vallocat", "vadd"} /\ i < arg.n
    /\ arg.op = "vallocat" => arg.phys + i # 0
    /\ Vmap(start[region] + i, arg.phys + i, avail)
    /\ i' = i + 1
    /\ UNCHANGED <<ctx, given, root, fields, pc, arg, region>>

\* vallocat takes physical page 0 for a failure.
MapZero ==
    /\ pc = "map" /\ arg.op = "vallocat" /\ i < arg.n /\ arg.phys + i = 0
    /\ Return
    /\ UNCHANGED <<avail, ctx, given, root, fields, maps>>

MapDone ==
    /\ pc = "map" /\ i = arg.n
    /\ given' = given \cup {start[region]}
    /\ Return
    /\ UNCHANGED <<avail, ctx, root, fields, maps>>

----------------------------------------------------------------------------
(***************************************************************************)
(* vadd, as elf_load calls it: with consecutive pages it has allocated     *)
(* before and gives back when vadd returns NULL.  Segments come in         *)
(* ascending order, above the rest of the context.                         *)
(***************************************************************************)
VaddCall(v, n) ==
    /\ pc = "idle" /\ root # NULL
    /\ \A r \in Listed : start[r] <= v
    /\ \E p \in Palloc({q \in avail : q .. q + n - 1 \subseteq avail}) :
         /\ avail' = avail \ (p .. p + n - 1)
         /\ arg' = [op |-> "vadd", v |-> v, n |-> n, phys |-> p]
    /\ region' = root /\ pc' = "overlap"
    /\ UNCHANGED <<ctx, given, root, fields, maps, i>>

Overlaps(v, n, r) ==
    \/ v >= start[r] /\ v < End(r)
    \/ v + n > start[r] /\ v + n <= End(r)
    \/ v <= start[r] /\ v + n >= End(r)

OverlapOn ==
    /\ pc = "overlap" /\ region # NULL
    /\ ~ Overlaps(arg.v, arg.n, region)
    /\ region' = next[region]
    /\ UNCHANGED <<avail, ctx, given, root, fields, maps, pc, arg, i>>

GiveBack == avail' = avail \cup (arg.phys .. arg.phys + arg.n - 1)

\* An overlap, or no page for the descriptor.
VaddFails ==
    /\ pc = "overlap"
    /\ IF region = NULL THEN avail = {} ELSE Overlaps(arg.v, arg.n, region)
    /\ GiveBack
    /\ Return
    /\ UNCHANGED <<ctx, given, root, fields, maps>>

\* The new region becomes the first of the list.
VaddLink ==
    /\ pc = "overlap" /\ region = NULL
    /\ \E f \in Palloc(avail) :
         /\ avail' = avail \ {f}
         /\ start' = [start EXCEPT ![f] = arg.v]
         /\ pages' = [pages EXCEPT ![f] = arg.n]
         /\ next' = [next EXCEPT ![f] = root]
         /\ prev' = [prev EXCEPT ![f] = NULL, ![root] = f]
         /\ root' = f /\ region' = f
    /\ pc' = "map"
    /\ UNCHANGED <<ctx, given, maps, arg, i>>

----------------------------------------------------------------------------
(***************************************************************************)
(* vfree                                                                   *)
(***************************************************************************)
\* A caller frees what it was given, or the NULL of a valloc that failed;
\* the kernel's own call frees the last region of the list.
VfreeCall(v) ==
    /\ pc = "idle" /\ root # NULL
    /\ v \in given => \E r \in Listed : Last(r) /\ start[r] = v
    /\ given' = given \ {v}
    /\ arg' = [NoArg EXCEPT !.op = "vfree", !.v = v]
    /\ region' = root /\ pc' = "find"
    /\ UNCHANGED <<avail, ctx, root, fields, maps, i>>

\* The first region that starts at the address is the one that is freed.
FindOn ==
    /\ pc = "find" /\ region # NULL /\ start[region] # arg.v
    /\ region' = next[region]
    /\ UNCHANGED <<avail, ctx, given, root, fields, maps, pc, arg, i>>

Found ==
    /\ pc = "find" /\ region # NULL /\ start[region] = arg.v
    /\ pc' = "unmap"
    /\ UNCHANGED <<avail, ctx, given, root, fields, maps, arg, region, i>>

FoundNone ==
    /\ pc = "find" /\ region = NULL
    /\ Return
    /\ UNCHANGED <<avail, ctx, given, root, fields, maps>>

\* Mutant: the page is given back and stays mapped.
UnmapKeeps ==
    /\ pc = "unmap" /\ i < pages[region]
    /\ LET v == start[region] + i IN
         IF v \in DOMAIN pagemap
         THEN avail' = avail \cup ({pagemap[v]} \cap Frame)
         ELSE UNCHANGED avail
    /\ i' = i + 1
    /\ UNCHANGED <<ctx, given, root, fields, maps, pc, arg, region>>

\* A mapped page is given back and unmapped; pfree ignores what it does not
\* manage.  The code translates with kernel_pagemap: the context is the
\* kernel's, the only one vfree is called for.
Unmap ==
    /\ pc = "unmap" /\ i < pages[region]
    /\ LET v == start[region] + i IN
         IF v \in DOMAIN pagemap
         THEN /\ avail' = avail \cup ({pagemap[v]} \cap Frame)
              /\ pagemap' = [w \in DOMAIN pagemap \ {v} |-> pagemap[w]]
         ELSE UNCHANGED <<avail, pagemap>>
    /\ i' = i + 1
    /\ UNCHANGED <<ctx, given, root, fields, tables, starved, managed, pc, arg, region>>

\* Mutant: only the first page of the region is looked at.
UnlinkAfterOne ==
    /\ pc = "unmap" /\ (i = 1 \/ i = pages[region])
    /\ next' = IF prev[region] # NULL THEN [next EXCEPT ![prev[region]] = next[region]] ELSE next
    /\ prev' = IF next[region] # NULL THEN [prev EXCEPT ![next[region]] = prev[region]] ELSE prev
    /\ root' = IF region = root THEN next[region] ELSE root
    /\ avail' = avail \cup {region}
    /\ Return
    /\ UNCHANGED <<ctx, given, start, pages, maps>>

Unlink ==
    /\ pc = "unmap" /\ i = pages[region]
    /\ next' = IF prev[region] # NULL THEN [next EXCEPT ![prev[region]] = next[region]] ELSE next
    /\ prev' = IF next[region] # NULL THEN [prev EXCEPT ![next[region]] = prev[region]] ELSE prev
    /\ root' = IF region = root THEN next[region] ELSE root
    /\ avail' = avail \cup {region}
    /\ Return
    /\ UNCHANGED <<ctx, given, start, pages, maps>>

----------------------------------------------------------------------------
Next ==
    \/ Vinit \/ VinitFails
    \/ VdestroyCall \/ VdestroyRegion \/ VdestroyContext
    \/ NoRoot
    \/ \E n \in Sizes : VallocCall(n)
    \/ \E n \in Sizes, p \in Phys : VallocatCall(n, p)
    \/ SearchOn \/ Insert \/ NoDescriptor
    \/ MapNew \/ MapNoPage \/ MapGiven \/ MapZero \/ MapDone
    \/ \E n \in Sizes, v \in Segments : VaddCall(v, n)
    \/ OverlapOn \/ VaddFails \/ VaddLink
    \/ \E v \in given \cup {0} : VfreeCall(v)
    \/ FindOn \/ Found \/ FoundNone \/ Unmap \/ Unlink

Spec == Init /\ [][Next]_vars

----------------------------------------------------------------------------
(***************************************************************************)
(* Properties                                                              *)
(***************************************************************************)
Up == pc \notin {"none", "destroy", "gone"}

\* Pages that vfree returns are pages of the allocator, and descriptors,
\* tables and list pointers stay within them.
TypeOK ==
    /\ avail \subseteq Frame /\ ctx \in Frame \cup {NULL} /\ root \in Frame \cup {NULL}
    /\ start \in [Frame -> Nat] /\ pages \in [Frame -> Nat]
    /\ next \in [Frame -> Frame \cup {NULL}] /\ prev \in [Frame -> Frame \cup {NULL}]
    /\ \A v \in DOMAIN pagemap : pagemap[v] \in Nat
    /\ \A t \in DOMAIN tables : tables[t] \in Frame
    /\ pc \in {"none", "idle", "search", "map", "overlap", "find", "unmap", "destroy", "gone"}
    /\ region \in Frame \cup {NULL} /\ i \in Nat
    /\ given \subseteq Nat /\ starved \in BOOLEAN /\ managed \subseteq Frame

\* No two regions of a context overlap.
RegionsDisjoint ==
    Up => \A r, s \in Listed : r # s => Pages(r) \cap Pages(s) = {}

\* The list is intact: prev mirrors next, and no descriptor that was given
\* back is still linked.
ListIntact ==
    /\ TypeOK
    /\ Up => /\ Listed \cap avail = {}
             /\ \A r \in Listed : next[r] # NULL => prev[next[r]] = r

\* A physical page of the kernel is mapped at one address only, and is then
\* neither free nor in use as a descriptor or a page table.
MappedOnce ==
    Up => \A v \in DOMAIN pagemap : pagemap[v] \in Frame =>
             /\ pagemap[v] \notin avail \cup Listed \cup {ctx}
             /\ \A t \in DOMAIN tables : tables[t] # pagemap[v]
             /\ \A w \in DOMAIN pagemap : pagemap[w] = pagemap[v] => w = v

\* What is mapped belongs to a region: vfree leaves no mapping behind.
NoStrayMapping ==
    Up => \A v \in DOMAIN pagemap : \E r \in Listed : v \in Pages(r)

\* No physical page is lost between calls, also when memory runs out in the
\* middle of one, unless a page table could not be allocated.
InUse == Listed \cup {ctx} \cup {tables[t] : t \in DOMAIN tables} \cup {pagemap[v] : v \in DOMAIN pagemap}
NothingLost == pc = "idle" => starved \/ managed \subseteq avail \cup InUse
=============================================================================
