------------------------------- MODULE Spaces ------------------------------
(***************************************************************************)
(* The address space of a process: made and filled by the end of emk_entry *)
(* (emk.c), elf_load (sys/data/elf.c) and sched_spawn (sys/sched.c), used  *)
(* by the copies to and from user memory (sys/user.c), given back when     *)
(* sched_tick reaps the process.  The kernel's own address space, kvm_ctx, *)
(* does not change any more.  A loop takes one step per page; VMM and      *)
(* Paging have the steps of the list walks and of the table walks, and     *)
(* here a table tree is the map it stands for with its leaf tables.  A     *)
(* process is loaded by one CPU without interference.                      *)
(*                                                                         *)
(* Addresses are in bytes, pages in units of PageSize.  Flags are sets of  *)
(* bit numbers, so that bits handed over as flags of the other kind mean   *)
(* what they mean in the code.                                             *)
(***************************************************************************)
EXTENDS Integers, Sequences, FiniteSets, FiniteSetsExt, SequencesExt, Functions

CONSTANTS PageSize,
          WordSize,    \* frames one word of the allocator's bitmap has, 64 in the kernel
          TableSpan,   \* pages one leaf table maps, 512 in the kernel
          Start,       \* page given to vinit: 16 in emk_entry
          StackSize,   \* pages of a stack: 4
          KMap,        \* the pages of the regions of kvm_ctx in turn: page and frame
          Pools,       \* the sets of frames that may be free at first
          Images,      \* modules: is the header accepted, entry, program headers
          Lengths      \* lengths of copies

KPages == {k.page : k \in Range(KMap)}
Headers == UNION {Range(im.ph) : im \in Images}

\* Segments are ascending, as ELF demands, and above the kernel's regions and
\* the place of the stack; page 0 is in no region of the kernel.
ASSUME SpacesAssumption ==
    /\ PageSize \in Nat \ {0} /\ WordSize \in Nat \ {0} /\ TableSpan \in Nat \ {0}
    /\ StackSize \in Nat \ {0} /\ Start \in Nat \ {0}
    /\ KMap \in Seq([page : Nat \ {0}, frame : Nat])
    /\ \A j, k \in DOMAIN KMap : KMap[j].page = KMap[k].page => j = k
    /\ \A P \in Pools : IsFiniteSet(P) /\ P \subseteq Nat \ {0} /\ \A k \in Range(KMap) : k.frame \notin P
    /\ \A im \in Images : im.ph \in Seq(Range(im.ph))
    /\ \A h \in Headers : /\ h.vaddr \in Nat /\ h.offset \in Nat /\ h.memsz \in Nat \ {0} /\ h.filesz \in 0 .. h.memsz
                          /\ h.vaddr >= (Start + StackSize) * PageSize
                          /\ \A p \in KPages : h.vaddr >= (p + 1) * PageSize
    /\ \A im \in Images : \A j, k \in DOMAIN im.ph : j < k => im.ph[j].vaddr <= im.ph[k].vaddr
    /\ Lengths \subseteq Nat

VARIABLES stage,    \* what is executed next
          image,    \* the module
          m,        \* physical memory and the process's table tree, see Memory
          ctx,      \* the pages of the tree's root and of the vctx_t
          regions,  \* the region list, from ctx->root on
          seg,      \* program headers that have been passed
          loop,     \* a loop over pages: first page, its frame, pages done
          rip,      \* the value of elf_load, and the first instruction
          copy,     \* the last copy: kind, address, length, bytes done, result
          managed   \* ghost: the frames that were free at first

vars == <<stage, image, m, ctx, regions, seg, loop, rip, copy, managed>>

VALLOC_READ == 0
VALLOC_WRITE == 1
VALLOC_EXEC == 2
VALLOC_USER == 3
VMM_PRESENT == 0
VMM_WRITE == 1
VMM_USER == 2
VMM_NX == 63

VFLAGS_TO_PFLAGS(fl) ==
    {VMM_PRESENT} \cup {VMM_WRITE : b \in fl \cap {VALLOC_WRITE}}
                  \cup {VMM_USER : b \in fl \cap {VALLOC_USER}}
                  \cup ({VMM_NX} \ {VMM_NX : b \in fl \cap {VALLOC_EXEC}})

\* What a byte of memory may be: of the module, left by an earlier owner, cleared
\* or written by copy_to_user.  palloc clears what it hands out as well; elf_load
\* does not rely on it, and nor does the model.
FileByte(n) == <<"file", n>>
Junk == <<"junk", 0>>
Zero == <<"zero", 0>>
Kernel == <<"kernel", 0>>

\* avail: free frames; tables: leaf tables; map: present pages; data: what frames
\* hold; short: vmap has failed for want of a table; held, a ghost: frames that
\* were taken for pages of the process, whether or not the kernel still knows
\* them.  Frames of the kernel's regions are not in data.
Memory(avail) ==
    [avail |-> avail, tables |-> <<>>, map |-> <<>>, held |-> {}, short |-> FALSE,
     data |-> [f \in avail |-> [b \in 0 .. PageSize - 1 |-> Junk]]]

NoLoop == [page |-> 0, frame |-> 0, n |-> 0]
NoCopy == [op |-> "none", addr |-> 0, len |-> 0, done |-> 0, ret |-> 0]

Init ==
    /\ stage = "vinit"
    /\ image \in Images
    /\ \E P \in Pools : m = Memory(P) /\ managed = P
    /\ ctx = {} /\ regions = <<>> /\ seg = 0 /\ loop = NoLoop /\ rip = 0 /\ copy = NoCopy

----------------------------------------------------------------------------
(***************************************************************************)
(* Page allocator and vmap, as functions of the memory s.                  *)
(***************************************************************************)
\* Where palloc may find n consecutive free frames: its count starts again at
\* every word of the bitmap.  It takes the first.
Runs(s, n) ==
    {f \in s.avail : f .. f + n - 1 \subseteq s.avail /\ f \div WordSize = (f + n - 1) \div WordSize}
palloc(s, n) == Min(Runs(s, n))
Taken(s, F) == [s EXCEPT !.avail = @ \ F]
Freed(s, F) == [s EXCEPT !.avail = @ \cup F]

Put(f, x, v) == [w \in DOMAIN f \cup {x} |-> IF w = x THEN v ELSE f[w]]

\* No caller looks at the result of vmap.
vmap(s, page, frame, fl) ==
    LET t == page \div TableSpan
        mapped == [s EXCEPT !.map = Put(@, page, [to |-> frame, fl |-> fl])]
    IN  IF t \in DOMAIN s.tables THEN mapped
        ELSE IF s.avail = {} THEN [s EXCEPT !.short = TRUE]
        ELSE [Taken(mapped, {Min(s.avail)}) EXCEPT !.tables = Put(@, t, Min(s.avail))]

\* One iteration of a loop.
LoopOn == loop' = [loop EXCEPT !.n = @ + 1]

Region(start, pages, fl, desc) == [start |-> start, pages |-> pages, flags |-> fl, desc |-> desc]
EndOf(r) == r.start + r.pages

----------------------------------------------------------------------------
(***************************************************************************)
(* emk_entry: vinit(pmnew(), 0x10000)                                      *)
(***************************************************************************)
\* A frame each for the tree's root, the context and the first descriptor.
Vinit ==
    /\ stage = "vinit" /\ Cardinality(m.avail) >= 3
    /\ \E pm, c, d \in m.avail :
         /\ pm < c /\ c < d /\ \A f \in m.avail : f <= d => f \in {pm, c, d}
         /\ ctx' = {pm, c}
         /\ regions' = <<Region(Start, 0, {}, d)>>
         /\ m' = Taken(m, {pm, c, d})
    /\ stage' = "load"
    /\ UNCHANGED <<image, seg, loop, rip, copy, managed>>

\* pmnew panics; the NULL of vinit is read through and ends the same way.
VinitFails ==
    /\ stage = "vinit" /\ Cardinality(m.avail) < 3
    /\ stage' = "panic"
    /\ UNCHANGED <<image, m, ctx, regions, seg, loop, rip, copy, managed>>

----------------------------------------------------------------------------
(***************************************************************************)
(* elf_load                                                                *)
(***************************************************************************)
Header == image.ph[seg + 1]
First(h) == h.vaddr \div PageSize
Pages(h) == (h.vaddr + h.memsz + PageSize - 1) \div PageSize - First(h)

\* The three conditions of vadd, for pages a .. e - 1.
Overlaps(a, e, r) ==
    \/ r.start <= a /\ a < EndOf(r)
    \/ r.start < e /\ e <= EndOf(r)
    \/ a <= r.start /\ EndOf(r) <= e

\* vadd finds no overlap and a frame for the descriptor.
VaddSucceeds(s, h) ==
    /\ \A r \in Range(regions) : ~ Overlaps(First(h), First(h) + Pages(h), r)
    /\ s.avail # {}

\* Mutant: the file's bytes start at the beginning of the page.
FilledAligned(s, h, f) ==
    [s EXCEPT !.data = [g \in DOMAIN @ |->
        IF g \notin f .. f + Pages(h) - 1 THEN @[g]
        ELSE [b \in 0 .. PageSize - 1 |->
                LET n == (g - f) * PageSize + b
                IN  IF n \in 0 .. h.filesz - 1 THEN FileByte(h.offset + n) ELSE Zero]]]

\* memset and memcpy: file bytes from p_vaddr on, zero around them.
Filled(s, h, f) ==
    [s EXCEPT !.data = [g \in DOMAIN @ |->
        IF g \notin f .. f + Pages(h) - 1 THEN @[g]
        ELSE [b \in 0 .. PageSize - 1 |->
                LET n == (First(h) + g - f) * PageSize + b - h.vaddr
                IN  IF n \in 0 .. h.filesz - 1 THEN FileByte(h.offset + n) ELSE Zero]]]

SegmentFlags(h) == VFLAGS_TO_PFLAGS({VALLOC_READ, VALLOC_USER} \cup h.flags)

LoadSkips ==
    /\ stage = "load" /\ image.valid /\ seg < Len(image.ph) /\ ~ Header.load
    /\ seg' = seg + 1
    /\ UNCHANGED <<stage, image, m, ctx, regions, loop, rip, copy, managed>>

\* vadd: the new region becomes the first of the list.
LoadSegment ==
    /\ stage = "load" /\ image.valid /\ seg < Len(image.ph) /\ Header.load
    /\ Runs(m, Pages(Header)) # {}
    /\ LET h == Header
           f == palloc(m, Pages(h))
           own == f .. f + Pages(h) - 1
           s == [Taken(m, own) EXCEPT !.held = @ \cup own]
       IN  /\ VaddSucceeds(s, h)
           /\ regions' = <<Region(First(h), Pages(h), SegmentFlags(h), palloc(s, 1))>> \o regions
           /\ m' = Taken(s, {palloc(s, 1)})
           /\ loop' = [page |-> First(h), frame |-> f, n |-> 0]
    /\ stage' = "segment"
    /\ UNCHANGED <<image, ctx, seg, rip, copy, managed>>

SegmentPage ==
    /\ stage = "segment" /\ loop.n < Pages(Header)
    /\ m' = vmap(m, loop.page + loop.n, loop.frame + loop.n, SegmentFlags(Header))
    /\ LoopOn
    /\ UNCHANGED <<stage, image, ctx, regions, seg, rip, copy, managed>>

SegmentCopied ==
    /\ stage = "segment" /\ loop.n = Pages(Header)
    /\ m' = Filled(m, Header, loop.frame)
    /\ seg' = seg + 1 /\ loop' = NoLoop /\ stage' = "load"
    /\ UNCHANGED <<image, ctx, regions, rip, copy, managed>>

\* Mutant: the frames of a segment that cannot be added are not given back.
LoadFailsKeeps ==
    /\ stage = "load"
    /\ \/ ~ image.valid /\ UNCHANGED m
       \/ /\ image.valid /\ seg < Len(image.ph) /\ Header.load
          /\ \/ Runs(m, Pages(Header)) = {} /\ UNCHANGED m
             \/ /\ Runs(m, Pages(Header)) # {}
                /\ LET f == palloc(m, Pages(Header))
                       s == Taken(m, f .. f + Pages(Header) - 1)
                   IN  ~ VaddSucceeds(s, Header) /\ m' = s
    /\ rip' = 0 /\ stage' = "spawn"
    /\ UNCHANGED <<image, ctx, regions, seg, loop, copy, managed>>

\* A header that is not accepted, no frames, or vadd refuses and the frames go
\* back: elf_load returns 0, and earlier segments stay.
LoadFails ==
    /\ stage = "load"
    /\ \/ ~ image.valid
       \/ /\ image.valid /\ seg < Len(image.ph) /\ Header.load
          /\ Runs(m, Pages(Header)) # {} =>
               LET f == palloc(m, Pages(Header))
               IN  ~ VaddSucceeds(Taken(m, f .. f + Pages(Header) - 1), Header)
    /\ rip' = 0 /\ stage' = "spawn"
    /\ UNCHANGED <<image, m, ctx, regions, seg, loop, copy, managed>>

LoadDone ==
    /\ stage = "load" /\ image.valid /\ seg = Len(image.ph)
    /\ rip' = image.entry /\ stage' = "spawn"
    /\ UNCHANGED <<image, m, ctx, regions, seg, loop, copy, managed>>

----------------------------------------------------------------------------
(***************************************************************************)
(* sched_spawn                                                             *)
(***************************************************************************)
map_flags == {VMM_PRESENT, VMM_WRITE, VMM_USER}

\* valloc of the stack: map_flags are bits of the page tables, and valloc takes
\* them for VALLOC_ flags.
StackFlags == VFLAGS_TO_PFLAGS(map_flags)

\* Region b is the last or has room, or none, before the next one of the list.
Fits(b) == b < Len(regions) => EndOf(regions[b]) < regions[b + 1].start
Linked(b, r) == SubSeq(regions, 1, b) \o <<r>> \o SubSeq(regions, b + 1, Len(regions))

\* valloc's descriptor goes behind the first region that fits.
StackRegion ==
    /\ stage = "spawn" /\ m.avail # {}
    /\ \E b \in DOMAIN regions :
         /\ Fits(b) /\ \A j \in 1 .. b - 1 : ~ Fits(j)
         /\ regions' = Linked(b, Region(EndOf(regions[b]), StackSize, StackFlags, palloc(m, 1)))
         /\ loop' = [page |-> EndOf(regions[b]), frame |-> 0, n |-> 0]
    /\ m' = Taken(m, {palloc(m, 1)})
    /\ stage' = "stack"
    /\ UNCHANGED <<image, ctx, seg, rip, copy, managed>>

StackPage ==
    /\ stage = "stack" /\ loop.n < StackSize /\ m.avail # {}
    /\ LET f == palloc(m, 1)
       IN  m' = vmap([Taken(m, {f}) EXCEPT !.held = @ \cup {f}], loop.page + loop.n, f, StackFlags)
    /\ LoopOn
    /\ UNCHANGED <<stage, image, ctx, regions, seg, rip, copy, managed>>

\* No descriptor, or not all pages of the stack, which stay mapped.
SpawnPanics ==
    /\ stage = "spawn" \/ (stage = "stack" /\ loop.n < StackSize)
    /\ m.avail = {}
    /\ stage' = "panic"
    /\ UNCHANGED <<image, m, ctx, regions, seg, loop, rip, copy, managed>>

StackDone ==
    /\ stage = "stack" /\ loop.n = StackSize
    /\ loop' = NoLoop /\ stage' = "kernel"
    /\ UNCHANGED <<image, m, ctx, regions, seg, rip, copy, managed>>

\* map_range_to_pagemap of every region of the kernel; the pcb and the table of
\* processes, which are mapped first, lie in one of them.
KernelPage ==
    /\ stage = "kernel" /\ loop.n < Len(KMap)
    /\ LET k == KMap[loop.n + 1] IN m' = vmap(m, k.page, k.frame, map_flags)
    /\ LoopOn
    /\ UNCHANGED <<stage, image, ctx, regions, seg, rip, copy, managed>>

Spawned ==
    /\ stage = "kernel" /\ loop.n = Len(KMap)
    /\ loop' = NoLoop /\ stage' = "run"
    /\ UNCHANGED <<image, m, ctx, regions, seg, rip, copy, managed>>

----------------------------------------------------------------------------
(***************************************************************************)
(* The process                                                             *)
(***************************************************************************)
Fetchable(a) ==
    LET p == a \div PageSize
    IN  p \in DOMAIN m.map /\ VMM_USER \in m.map[p].fl /\ VMM_NX \notin m.map[p].fl

\* The first instruction; a page fault in a process is a panic.
Enter ==
    /\ stage = "run"
    /\ stage' = IF Fetchable(rip) THEN "user" ELSE "fault"
    /\ UNCHANGED <<image, m, ctx, regions, seg, loop, rip, copy, managed>>

\* vget: the region of an address, as a set of none or one.
vget(a) ==
    LET In(j) == a \div PageSize \in regions[j].start .. EndOf(regions[j]) - 1
    IN  {regions[j] : j \in {k \in DOMAIN regions : In(k) /\ \A i \in 1 .. k - 1 : ~ In(i)}}

\* What copy_from_user and copy_to_user ask of a page.
Needed(op) == IF op = "from" THEN {VMM_USER} ELSE {VMM_USER, VMM_WRITE}
Allowed(op, a) == \E r \in vget(a) : Needed(op) \subseteq r.flags

\* Mutant: the region is looked up once, before the loop.
CopiedOnce(op, a, n) == IF Allowed(op, a) THEN n ELSE 0

\* Bytes of the copy: up to the first page that is not allowed.
Copied(op, a, n) ==
    Max({k \in 0 .. n : \A j \in 0 .. k - 1 : Allowed(op, a + j)})

\* memcpy through the tree; a byte whose page is not present faults.
Copy(op, a, n) ==
    LET done == Copied(op, a, n)
        At(j) == m.map[(a + j) \div PageSize].to
        ok == \A j \in 0 .. done - 1 : (a + j) \div PageSize \in DOMAIN m.map
    IN  /\ stage = "user"
        /\ copy' = [op |-> op, addr |-> a, len |-> n, done |-> done, ret |-> IF done = n THEN 0 ELSE -1]
        /\ stage' = IF ok THEN "user" ELSE "fault"
        /\ m' = IF op = "from" \/ ~ ok THEN m
                ELSE [m EXCEPT !.data = [g \in DOMAIN @ |-> [b \in 0 .. PageSize - 1 |->
                        IF \E j \in 0 .. done - 1 : At(j) = g /\ (a + j) % PageSize = b
                        THEN Kernel ELSE @[g][b]]]]
        /\ UNCHANGED <<image, ctx, regions, seg, loop, rip, managed>>

\* sched_tick reaps the process: vdestroy gives back the descriptors and the
\* context; pages, tables and the tree's root stay.  The page of the pcb leaves
\* the tree only if the pcb happens to start a page, or vunmap refuses.
Reap ==
    /\ stage = "user"
    /\ \E pcb \in SUBSET KPages :
         /\ Cardinality(pcb) <= 1
         /\ m' = [Freed(m, {r.desc : r \in Range(regions)} \cup {Max(ctx)}) EXCEPT
                    !.map = Restrict(@, DOMAIN @ \ pcb)]
    /\ regions' = <<>> /\ ctx' = {Min(ctx)}
    /\ stage' = "reaped"
    /\ UNCHANGED <<image, seg, loop, rip, copy, managed>>

Addresses == 0 .. PageSize * (1 + Max({EndOf(r) : r \in Range(regions)})) - 1

Next ==
    \/ Vinit \/ VinitFails
    \/ LoadSkips \/ LoadSegment \/ SegmentPage \/ SegmentCopied \/ LoadFails \/ LoadDone
    \/ StackRegion \/ StackPage \/ SpawnPanics \/ StackDone \/ KernelPage \/ Spawned
    \/ Enter \/ Reap
    \/ /\ stage = "user"
       /\ \E op \in {"from", "to"}, a \in Addresses, n \in Lengths : Copy(op, a, n)

Spec == Init /\ [][Next]_vars

----------------------------------------------------------------------------
(***************************************************************************)
(* Properties                                                              *)
(***************************************************************************)
Loaded == {k \in 1 .. seg : image.ph[k].load}
Bytes(h) == h.vaddr .. h.vaddr + h.memsz - 1
Byte(a) == m.data[m.map[a \div PageSize].to][a % PageSize]

\* A process that executes its first instruction was loaded completely, and as
\* long as tables could be had, finds every byte of every segment where the
\* program header puts it, the file's and the zeros after it, in frames of its
\* own, apart from what copy_to_user wrote to writable segments; and the kernel
\* finds all of its own regions in the process's tree.
ImageIntact ==
    stage = "user" =>
        /\ rip # 0 /\ seg = Len(image.ph)
        /\ ~ m.short =>
             /\ \A k \in Loaded : \A a \in Bytes(image.ph[k]) :
                  LET h == image.ph[k] IN
                  /\ a \div PageSize \in DOMAIN m.map /\ m.map[a \div PageSize].to \in m.held
                  /\ \/ Byte(a) = IF a - h.vaddr < h.filesz THEN FileByte(h.offset + a - h.vaddr) ELSE Zero
                     \/ Byte(a) = Kernel /\ VALLOC_WRITE \in h.flags
             /\ \A k \in Range(KMap) : k.page \in DOMAIN m.map /\ m.map[k.page].to = k.frame

\* A copy touches only pages of the process's segments, writes only to writable
\* ones, stops exactly before the first page it may not touch, and does not
\* fault unless a table could not be had.
CopiesInside ==
    copy.op # "none" /\ stage \in {"user", "fault"} =>
        LET May(a) == \E k \in Loaded :
                /\ a \div PageSize \in First(image.ph[k]) .. First(image.ph[k]) + Pages(image.ph[k]) - 1
                /\ copy.op = "to" => VALLOC_WRITE \in image.ph[k].flags
        IN  /\ \A j \in 0 .. copy.done - 1 : May(copy.addr + j)
            /\ copy.ret = 0 <=> copy.done = copy.len
            /\ copy.ret # 0 => ~ May(copy.addr + copy.done)
            /\ stage = "fault" => m.short

\* Frames of elf_load's segment that are still to be mapped.
Hand ==
    IF stage = "segment" THEN {loop.frame + n : n \in loop.n .. Pages(Header) - 1} ELSE {}

Mapped == {m.map[p].to : p \in DOMAIN m.map}

\* Pages of the stack that sched_spawn has mapped to frames of the kernel.
MappedOver ==
    {p \in Start .. Start + StackSize - 1 : p \in DOMAIN m.map /\ m.map[p].to \notin managed}

\* Every frame has at most one use, also after a load or a spawn that failed
\* half-way, and is mapped at one page.  Until the process is reaped, and as
\* long as tables could be had, the kernel still reaches every frame through the
\* allocator, the tree, the context, a descriptor or the loop that maps it,
\* except for exactly one frame per page of the stack that it mapped over.
FramesAccounted ==
    LET uses == <<m.avail, Range(m.tables), ctx, {r.desc : r \in Range(regions)}, Mapped, Hand>>
    IN  /\ \A i, j \in DOMAIN uses : i # j => uses[i] \cap uses[j] = {}
        /\ \A p, q \in DOMAIN m.map : m.map[p].to = m.map[q].to /\ m.map[p].to \in managed => p = q
        /\ Cardinality({r.desc : r \in Range(regions)}) = Len(regions)
        /\ stage # "reaped" /\ ~ m.short =>
             Cardinality(managed \ UNION Range(uses)) = Cardinality(MappedOver)

\* "4 pages ~16KB": the addresses below the stack pointer a process starts with
\* are pages of its own that it may use.
StackOwn ==
    stage = "run" /\ ~ m.short =>
        \A p \in Start .. Start + StackSize - 1 :
            m.map[p].to \in m.held /\ {VMM_USER, VMM_WRITE} \subseteq m.map[p].fl
=============================================================================
