# A formal model of the EMK kernel

EMK is a small x86-64 kernel booted by Limine. This directory holds TLA+
specifications of its core, the TLC configurations that check them, and TLAPS
proofs. Source paths below are relative to `kernel/src/`.

## 1. The system

| part | state | operations | talks to |
|---|---|---|---|
| physical pages, `mm/pmm.c` | bitmap, `free_pages`, a stack of recently freed pages, `pmm_lock` | `pmm_init`, `palloc`, `pfree` | called by everything below, from any CPU |
| page tables, `arch/paging.c` | four levels of tables per address space | `vmap`, `vmap_large`, `vunmap`, `virt_to_phys`, `pmnew`, `pmset` | `palloc` for tables; no lock |
| address spaces, `mm/vmm.c` | linked list of regions per context | `vinit`, `valloc`, `vallocat`, `vadd`, `vfree`, `vget`, `vdestroy` | `palloc`/`pfree`, `vmap`/`vunmap`; no lock |
| heap, `mm/heap/ff.c` | pool, sorted free list with headers in the pool | `heap_init`, `kmalloc`, `kfree` | one `valloc`; no lock |
| scheduler, `sys/sched.c` | per CPU: process table, `count`, `current_pid`, lock; per process: state, slice, saved registers | `sched_init`, `sched_spawn`, `sched_tick`, `sched_terminate`, `proc_exit`, `sched_get_current` | timer interrupt, system calls, heap, `vmm` |
| system calls, `sys/syscall.c`, `arch/idt.c` | `errno` of the process | `exit`, `kping`, unknown numbers | scheduler |
| processor start-up, `arch/smp.c` | `ready` flag per CPU, `started_cpus` | `smp_early_init`, `smp_init`, `smp_entry`, `init_cpu` | every initialiser, `kpanic` |
| panic, `sys/kpanic.c`, `die` in `arch/idt.c` | the `ready` flags again | `kpanic`, interrupt 0xFE | local APIC of all CPUs, console |
| boot sequence, `emk.c` | the globals of all other parts | `emk_entry`, `get_key` | every part, in a fixed order; `kpanic` when a check fails |
| ELF loader, `sys/data/elf.c` | regions of the new context | `elf_load` | `palloc(n)`, `vadd` |
| interrupt routing, `sys/apic/*`, `sys/acpi*`, `dev/timer/pit.c` | MADT lists, redirection entries, the timer's handler | `madt_init`, `ioapic_init`, `ioapic_map`, `ioapic_unmask`, `timer_init` | device registers, firmware tables |
| user copies, `sys/user.c` | none | `copy_from_user`, `copy_to_user` | `vget` |
| console, `util/kprintf.c`, `dev/serial.c` | `kprintf_lock` | `kprintf` | called from everywhere |

What is hard in it: the page allocator is shared by all CPUs, tests its counter
outside its lock and keeps the same page in two structures at once (bitmap and
cache); the scheduler removes processes from a table while a cyclic search runs
over it; processors come up one by one against a timeout and use a heap without
a lock; a panic stops processors that may be starting, running, or panicking
themselves, may begin before the things it uses exist, may fault in its own
backtrace, and may be preempted while it prints; a process's address space is
put together by three parts, each of which may run out of memory half-way.
`PROJECT.json` lists these as hazards with their lines.

What makes each part correct: a page, a heap block, an address range has one
owner and none is lost; counters and caches agree with the structure they
summarise; a process resumes exactly where it stopped, gets the CPU again and
disappears when it ends; start-up is serial and ends; interrupts go where the
firmware's tables say; a process starts with its whole image and the kernel
touches only what the process owns; a panic stops the machine and reports its
cause first.

## 2. Modules

`PMM` models `palloc` and `pfree`. A call is several steps: the unlocked
`free_pages` test, the acquisition of `pmm_lock`, and the locked work, where
`pfree` clears one page per step. `clear` is the bitmap as the set of clear bits,
`page_cache` the cache stack, `free_pages` a `uint64_t` with modulus `Mod64`.
Pointers are counted in pages, and `pfree` converts direct-map pointers with
`PageOf` as the code does. The scan through words and bits is given by its
result (`FirstFit`): the lowest run of clear bits inside one word. `owners` is a
ghost that counts the holders of each page. The operators `MayPalloc` and
`MayPfree` state the one assumption about callers: a request for several pages is
made only while the cache is empty and no single page is being freed. The
kernel's only such request is `elf_load`'s, at the end of booting, on the boot
CPU, after the pages freed by the self-tests of `emk_entry` were taken from the
cache again; without the assumption a page can be handed out twice (the mutant
`MayPallocCached` shows it). A `pfree` of a NULL or misaligned pointer changes
nothing, and `vfree` may pass pages above the bitmap (`PfreeEnterForeign`).

`PageAllocator` says what the callers rely on: each usable page is free, held or
being returned, and is granted only while free. `PMM` implements it
(`ImplementsPageAllocator`).

`Sched` models the scheduler of every CPU. `procs`, `count`, `current_pid`, `lock`
and `start_pid` are the code's variables; registers are abstracted to whose they
are, and the ghost `stale` says that a process has run since it was saved. The
handlers run with interrupts off, so `pc` says where each CPU is:
`tick`, then `scan` (one iteration of the search per step, `ScanReap` with the
whole removal and shift), `found` or `none`, and back. `exit` and `nested_tick`
are `proc_exit` and the call of `sched_tick` inside `sched_terminate`. Processes are
numbers given out in order, as `global_pid_counter` does. `ticking` is the set of CPUs
the PIT reaches: every CPU in a build with `BROADCAST_PIT`, only the boot CPU (`Bsp`) in the
default one, where the processes of all other CPUs wait for ever for a first tick;
both builds are initial states, and `Stopped` names such processes. A process terminated by
another one (no code of the kernel does this yet, `sched_terminate` allows it) may
be picked by the fallback to slot 0; what `CurrentIsExecuting` and the saving half of
`ContextIntegrity` say of a CPU is claimed only while no process of that CPU has terminated
another (the ghost `killed`).

`SmpBoot` models `smp_init` against `smp_entry`, and `kpanic` against the die trap.
`pc` gives each CPU's place; `init` is the whole of `init_cpu`, which with `InitFails` may
panic on any CPU, the boot CPU included (`InitPanic`). `Exit` is the exit system call of a
process on a CPU in `Exits`: its handler never returns, and the CPU stays `wedged` with
interrupts off and its `ready` flag set. The flag `ready` is
polled as an ordinary variable: compiled with the options of the makefile
(`-O2` and `-Os`) the loops read it again in each iteration and the test after the
loop uses the last value read. An interrupt sent to a CPU that has not enabled
its local APIC may be lost (`SendDie`). `backtrace` faults on the NULL that every failed
check passes to `kpanic`, and the CPU goes through `kpanic` a second time
(`BacktraceFaults`).

`Heap` models `kmalloc` and `kfree` one list node per step. `size` and `next` are
functions on the headers that exist, so a dangling pointer would stop TLC.
`AlignUp` is unbounded: in the code it wraps around for requests within an alignment of
`SIZE_MAX`, which no caller makes. The heap has no lock; that calls do not overlap is what `InitSerialized` shows
for start-up, after which only the boot CPU uses it.

`VMM` models an address space of `mm/vmm.c`: the list of region descriptors
(`start`, `pages`, `next`, `prev`, each descriptor named by its page) and the context's
mappings. `valloc` and `vallocat` are a search (`SearchOn`, one region per step), the
insertion of the descriptor, and one step per mapped page; each allocation can
fail, with what the code leaves behind (`NoDescriptor`, `MapNoPage`, `MapZero`, a table
missing in `Vmap`). `vadd` is called as `elf_load` does, with pages it owns and takes
back on failure. `vfree` searches, unmaps page by page and unlinks. The code after
the loops of `valloc` and `vallocat` cannot be reached, since the loop always ends at
the last region. The calls follow the kernel's patterns: the
last region is freed, `vallocat` asks for at least the size of the regions before
the last, ELF segments come in ascending order above everything else, and a region
is allocated only where the pages behind the last one reach no segment (`RoomFor`: the
kernel's own context has none, the stack of a process is far below them). Outside them
regions overlap (section 4). Region flags are left out. The root descriptor is
zero because `palloc` clears the pages it hands out. `pfree` is taken to ignore pages it
does not manage; for a reserved page below `bitmap_pages` the code would clear the bit,
which no caller of `vfree` brings about.

`Paging` models the table trees of `arch/paging.c` with `Levels` levels of `Fan` entries.
An address is counted in pages; `Span[l]` is the number of pages under one entry of level
`l + 1`, a power of `Fan` (the kernel's shifts of 12, 21, 30 and 39 bits).
A call walks one level per step (`WalkOn`, `WalkAlloc`, `WalkFails` are
`get_or_alloc_table`; `UnwalkOn`, `UnwalkAbsent` are `get_table` in `vunmap`), writes the
entry and executes `invlpg`. `TableOf` is the walk of `virt_to_phys`, `get_table` one step of it. `paging_init` is a loop over the ranges in `Boot` with the
choice of large pages and the fall back to small ones. The MMU (`Mmu`, `Touch`) is
external (`MmuStep` is one level of its walk): it walks the active tree at any moment and caches one translation, which
stands for any entry of the TLB of the executing CPU; the other CPUs' TLBs are not
modelled. A new table is cleared by `palloc` and once more by the function that links
it, which is one step here. The ghost
`flat` is what the calls asked for. Two assumptions about callers: upper addresses
are mapped only under a top entry that `paging_init` made (the direct map, where
`lapic_init` and `ioapic_init` map their registers), and no small page is mapped
inside a large one (`InLarge`). The ranges of `paging_init` end inside the address space
(`PagingAssumption`), and in a build with `LARGE_PAGES` an entry of the memory map shares no
page with a later one, after both are rounded to pages: the boot loader's entries do not
overlap, and otherwise the small pages of the later one could fall into a large page.

`Routing` models the scan of the MADT, the redirection entries of the first I/O
APIC and the timer's use of them. The MADT is a sequence of entries that know
their place (`off`) and their length, one behind the other (`Layout`), and the header's
length may cut the last one short; `offset` and `pos` are where the scan is. A redirection entry is a record of its fields, and a
vector too large for its field spills into the delivery mode as it does in the
register. The index of an entry's register, `0x10 + 2 * gsi`, has 8 bits in `ioapic_write`;
`RoutingAssumption` keeps the inputs below the number where it would wrap. That `madt_init`
reads both bytes of an entry's header when one byte of the table is left is not visible, since entries
are read whole. `gsi_base` is never read by the code and is taken to be 0; overrides beyond
the `ListMax` first are dropped, which `TimerRouted` excepts.

`Panic` models one CPU inside `kpanic`. `frames` is the stack of calls that have not
returned: a call nests when `lapic_send_ipi` panics for want of a local APIC, or when
the backtrace faults on NULL or on a frame pointer that leads nowhere. `said` is what
was printed, one `Line` each: the complaint of `lapic_send_ipi`, a report (with the
complaint of `get_cpu_local` in front while no CPU is known), a backtrace. `kprintf_lock` is
the console, `other` any other process of the CPU, to which a
tick gives the CPU while the panicking context has interrupts on (exceptions enter
through trap gates), and which logs or exits (`OtherExits`). `peers` sums up the `ready` flags that
`kpanic` waits for: none is set, some are until the die trap is taken (`PeersHalt`), or one
stays set because its CPU is stuck in an exit (`PeerExits`). With `cpu_count` above `MAX_CPUS` the wait reads past `cpu_locals`, and
`WaitPastEnd` has all outcomes. How the other CPUs are stopped one by one is in `SmpBoot`.

`Boot` composes the two with the stages of `emk_entry`. `Executing(s)` is the boot code at
stage `s`; `CheckFails` is any check of something that is not modelled there (a
response of the boot loader, an allocation, a CPU that does not start), and the
checks on the MADT, the I/O APIC and the number of CPUs are actions of their own.
From `SmpInit` on there may be other CPUs with their flags set.
In the last stage a process may cause an exception at any time.

`Spaces` models the life of a process's address space: `vinit`, `elf_load` (per program
header `LoadSegment`, which takes frames and region, `SegmentPage` for each page `vadd` maps,
and `SegmentCopied`), `sched_spawn` (`StackRegion` and `StackPage` are its `valloc`, `KernelPage`
maps a page of the kernel's regions), the copies of `sys/user.c`, and what `sched_tick` gives
back. `loop` is the first page, the first frame and the counter of the loop that runs. Frames hold bytes, each of them of the
file, cleared, left over, or written by a copy; the table tree is a map with its leaf
tables as frames, so that a mapping can fail, which no caller notices (`short`). A run of
frames is found inside one word of the bitmap only (`WordSize`), as `palloc` does. `held` is a
ghost, the frames handed out for data; the code has no such record, and a frame whose
`vmap` failed, or whose page is mapped to another frame, is in `held` and reachable from
nowhere. Flags
are sets of bit numbers: where `sched_spawn` passes bits of the page tables as `VALLOC_`
flags, they mean in the model what they mean in the code (`StackFlags`). The walk along
the list and the walk down the tables are one step; `VMM` and `Paging` have the steps
inside. Segments lie above the kernel's regions and the stack's place at 0x10000, as the
linker script of the init program has it: with 64 CPUs at most and four stack pages
each the kernel's regions stay below its first address.

`MCPMM`, `MCSched`, `MCVMM`, `MCPaging`, `MCBoot` and `MCSpaces` give names to small sets for
the configurations; `SmpBoot` and `Heap` are run directly. `PMMProofs`, `SchedProofs`,
`SmpBootProofs`, `HeapProofs`, `VMMProofs`, `PagingProofs`, `BootProofs` and `SpacesProofs` hold the
proofs about the module each is named after and extends.

Definitions whose comment starts with "Mutant" are wrong variants of the
definition that follows; each one makes a property fail and is not part of any
specification.

## 3. Runs

| run | instance | shows |
|---|---|---|
| `pmm` | 2 CPUs, 7 pages in words of 4 with two reserved, cache of 2, requests of 0, 1, 2 pages | exclusive ownership, counter and cache agree with the bitmap, no page lost, lock always released, refinement of `PageAllocator` |
| `sched_run` | 2 CPUs, with and without `BROADCAST_PIT`, 4 processes in any distribution, tables of 4, one makes system calls and may exit, all may be terminated, spawning may fail | compact tables, current process = executing process, exact save and restore, terminated processes destroyed, only a CPU that is wedged, has panicked or gets no tick keeps a process waiting |
| `sched_halt` | 1 CPU, 1 process that exits | violation, see below |
| `smp` | 3 CPUs, boot CPU in the middle, 2 polls, `init_cpu` may fail on each, each may fault or have a process that exits at any time | one CPU at a time in `init_cpu`, `smp_init` returns only when all are up, booting ends, a report begins only when every running CPU is halted, a single panic is reported unless a CPU is stuck in an exit |
| `smp_count` | 2 CPUs | violation, see below |
| `vmm_boot` | 6 pages or fewer, regions of 1 and 2 pages, a leaf table per 4 pages, an ELF segment, a device page | disjoint regions, intact list, no page mapped twice, mapped after being freed, or lost, at every point of failure |
| `paging` | 3 levels of 2 entries, 8 pages for tables or fewer, all trees they allow, with and without `LARGE_PAGES` | exact translation at every step, `virt_to_phys` inverts `vmap`, no stale translation cached on the executing CPU, no table lost |
| `heap` | pool of 28 bytes, header 4, alignment 2, requests of 0, 1, 2, 5, 9 | tiling, intact held blocks, sorted and joined free list, NULL only when nothing fits, calls return |
| `boot` | every MADT of up to 3 of 10 entries, also cut short; 5 inputs, vectors of 36 values, 4 nested panics | lists agree with the table, only the timer's input enabled and led to its handler, booting ends, a panic after `lapic_init` reports its own cause first, one before it reports nothing; it ends halted unless a CPU is stuck in an exit or the panic is preempted by a process that never gives the CPU back |
| `boot_early` | one MADT | violation, see below |
| `spaces` | 5 modules of up to 3 headers, pages of 2 bytes, 0 to 17 free frames in one or more pieces, copies of 0, 1, 3, 4 bytes at every address | the whole image in frames of its own, copies exact at page and region ends, no frame used twice, and exactly the frames of the stack pages that were mapped over are lost |
| `spaces_stack` | the same | violation, see below |

Bounds. Two CPUs are enough for every race on one lock, three for a panic with
two victims and for a CPU before and one after the boot CPU. Seven pages in
words of four give a run that crosses a word, a reserved page inside a word and
a last word that is not full; the cache of two overflows. Tables of two to four
slots are full, partly empty and wrap around. The heap's proportions are the
kernel's (header twice the alignment); 28 bytes hold four smallest blocks, so a
block can be freed between two free or two used neighbours, and the requests
leave remainders just below and just above the split threshold. Six pages hold a
context, its root, a table and a region with its descriptor or three regions
without pages of their own, and run out at every allocation; the initial states
include every smaller number. Three levels of two entries have a top, a middle
(where large pages sit) and a last level, two user and one kernel subtree; the
kernel's four levels add a second middle one, handled by the same step. Three entries of the MADT are an I/O APIC with two
overrides, which is `ListMax`, or with a malformed entry anywhere; five inputs and 36
vectors put the spurious vector and the spill into the delivery mode among them.
`Depth` cuts off the nesting of `kpanic`, which after `lapic_init` is at most two calls
deep if frame pointers are sound, and has no end before it or if they are not.
Addresses of one process are told apart by page only, so pages of two bytes show
a copy that starts or ends inside a page; 17 frames are more than the largest
module needs, so memory runs out at every allocation and not at all. After one
copy regions and tree are what they were, so one copy per process is enough (the
action constraint `OneCopy`; the proofs have no such bound).
At least one module is handed over by the boot loader (`ModCounts`): `emk_entry` reads
`modules[0]` without a check. `Mod64`,
`Mod32` are only larger than the counters can legitimately be, which is all that
wrap-around needs. `MaxPolls` stands for ten million polls: any number of steps
of other CPUs may happen between two polls, so small values lose no
interleaving.

Fairness. `PMM`: a CPU that holds the lock keeps executing; no fairness of the
lock itself. `Sched`: the PIT ticks for ever on the CPUs it reaches (`ticking`), and boot code and handlers, which run
with interrupts off, finish unless they spin; processes owe nothing. `SmpBoot`:
each CPU executes its code once it has come to life (a CPU that is told to start
may never do so), a handler returns unless it is that of an exit (the action `Exit`), an interrupt is eventually taken
by a CPU that has its flag on again and again (strong fairness of `Die`); faults
are never required. `kpanic` does not turn interrupts off, so a tick may preempt it;
the fairness of the panic steps rests on the scheduler giving the CPU back
(`NoStarvation`), and `PanicReported` says only that the report begins.
`Heap`: a call, once begun, goes on. `Boot`: the boot CPU executes its code (weak
fairness of `BootStep`, in which every failure is a choice); `kpanic`, which a tick may
interrupt again and again, goes on whenever the CPU comes back to it often enough
(strong fairness), and the PIT ticks again and again, so that it does come back;
the other CPUs take the die trap unless one of them is stuck (weak fairness of `PeersHalt`,
which is what `PanicReported` shows of `SmpBoot`); exceptions, system calls and exits are never required.

Deadlock checking is off where the machine really stops: after a panic, when a
CPU halts for lack of processes, when all of them are wedged, after `vdestroy`, or
when a table cannot be allocated and the kernel panics. `VMM`, `Paging` and `Spaces` have
safety properties only and assume no fairness.

## 4. Where code and comments disagree

* `sched_halt`: `sys/sched.c` announces "No processes remaining on CPU %d.
  Halting.", but an exiting process never gets there: `sched_terminate` calls
  `sched_tick` with the table's lock held and `sched_tick` waits for that lock.
* `smp_count`: `smp_init` reads `started_cpus != cpu_count` as "Not all CPUs
  started"; a CPU sets `ready` before it counts itself, so the comparison can fail
  with every CPU up.
* `boot_early`: `kpanic` has a report for CPU "???", and `emk_entry` panics with a message
  when a response of the boot loader is missing; but `kpanic` first sends the die
  interrupt, and `lapic_send_ipi` panics while there is no local APIC. Before
  `lapic_init` a panic calls itself until the stack is full; it repeats "LAPIC not
  initialized for IPI" and never reports its cause.
* `spaces_stack`: `sched_spawn` allocates "4 pages ~16KB" of stack at 0x10000 in the
  process's address space and then maps the kernel's regions over it, of which the
  heap's pool, 512 pages from 0x2000 on, covers these addresses: the process starts
  on the kernel's heap.

Known limits that the passing runs state as assumptions: `valloc` takes a gap of any
size and `vallocat` computes the end of the region before the gap from the new size,
so that calls outside the kernel's patterns make regions overlap; `vfree` of the first
region finds the empty root descriptor, which starts at the same address, and
removes that one, as in the self-test of `emk_entry`; a CPU still in `init_cpu` is not
waited for by `kpanic`, so `PanicStopsRunning` is about running CPUs; the wedged CPU of
`sched_halt` keeps its `ready` flag, so that after one exit no other CPU's panic is ever
reported (`PanicReported` and `PanicEnds` except it); the frames of the stack that
`spaces_stack` shows to be mapped over, and a frame whose `vmap` fails for want of a table, are lost until
the machine is restarted.

## 5. What is proved

Every theorem holds for all values of the constants that satisfy the assumption of
the module it is about (`PMMAssumption`, `SchedAssumption`, ...), which TLC evaluates in
the runs. The invariants of the runs are not inductive; each proof module
defines an inductive invariant (`IInv`), one lemma per action or group of actions shows that a step
keeps it, and the invariants follow from it.

**`PMMProofs`**: any number of CPUs, pages and cache slots, any word size and set of
request sizes. `ExclusiveCorrect`, `AccountingCorrect`, `CacheCorrect`,
`ConservationCorrect` are the invariants of the run `pmm`, `Refinement` is
`Spec => ImplementsPageAllocator`. `IInv` adds to the types (`TypeCorrect`): exactly the CPU in
a locked section holds the lock (`LockInv`); a pending request is well formed and
lies inside the bitmap or starts at its end (`ReqInv`); the pages a CPU is giving
back are usable, have their bit set, have no holder and are given back by no
other CPU (`ReturningInv`); and while a multi-page `palloc` is in flight nothing is
or becomes cached (the discipline of the callers carried through the call). The
last one is what exclusive ownership needs: a scan for one page happens only
with an empty cache, a scan for several only under the discipline, so no page a
scan takes is still in the cache. The refinement maps a page to free, held or returning
from its bit and its owner count, and uses the same invariant.

**`SchedProofs`**: any number of CPUs and processes, tables of any size, both builds.
`TableCompactCorrect`, `CurrentIsExecutingCorrect`, `ContextIntegrityCorrect`. The second says nothing of
a CPU on which a process has terminated another, hence nothing of reaping. `IInv` adds to the
types (`TypeCorrect`) who holds `sched->lock` (`LockInv`); that a control block in a table is not freed and in no
second slot, on any CPU (`OwnInv`), which is what the shift inside the search needs;
what `count` says at each label (`CountInv`); that a RUNNING process is in the slot
`current_pid` names and in the registers (`RunInv`); that what executes was spawned on
its CPU (`RegsInv`); and, for a CPU on which no process has terminated another, that the
current slot, the registers and the RUNNING state agree outside the search, and no
process inside it has unsaved registers (`CalmInv`).

**`SmpBootProofs`**: any number of CPUs, any index of the boot CPU, any number of polls.
`InitSerializedCorrect`, `BootedMeansAllUpCorrect`, `PanicStopsRunningCorrect`. The core of
`IInv` is `StartInv`: a CPU that was told to start and has not finished `init_cpu` is the one
the boot CPU polls, or the one it gave up on, after which it starts no other and runs
no `init_cpu` itself. `CountInv` ties `started_cpus` to the CPUs past their increment (a
cardinality), `ReadyInv` and `FlagInv` say when `ready` and the interrupt flag are set, `UpInv`
and `WaitInv` what the wait of `kpanic` has seen of the CPUs that were running.

**`HeapProofs`**: any pool, header, alignment and requests. `TilingCorrect`,
`HeldIntactCorrect`, `ListSortedCorrect`, and the action property `NullMeansNoFitCorrect`. The
free list is described without following it: the head points to the lowest free
block and each `next` to the first free block above (`ListInv`), which is stable under the
splits, insertions and joins. `WalkInv` says where a walk stands (`kmalloc` has passed only blocks
that are too small, `kfree` only blocks below its own), `ApartInv` that free
neighbours exist only around the block that is being freed.

**`VMMProofs`**: any amount of memory, region sizes, segments and table span.
`RegionsDisjointCorrect`, `ListIntactCorrect`, `MappedOnceCorrect`, `NoStrayMappingCorrect`,
`NothingLostCorrect`. The list is the least set with the root that `next` does not leave;
`LeastAppend`, `LeastPush` and `LeastRemove` say what an insertion behind the last region, one
in front and a removal do to it. The key of `IInv` is `OrderInv`: along the list a region
starts no later than the one before it ends, so that neither gap test of `valloc` and
`vallocat` ever succeeds before the last region, and an empty region (the root) starts
where the next one does. With `CallInv` this settles what `vfree` finds: the last region, or
an empty one at the same address (`FreedRegion`). `UseInv` gives every page one use,
counting those `vadd` was handed and has not mapped yet (`Hand`); `LoopInv` says which pages of
a region a mapping or unmapping loop has yet to reach.

**`PagingProofs`**: any number of levels, entries and pages, any ranges and calls, with and
without large pages. `TranslationCorrect`, `VirtToPhysCorrect`, `TlbCorrect`, `TablesCorrect`. The
invariant says that the tables can be labelled (there is an `L` that gives each page for
tables a level, the block of addresses it is responsible for, and the tree it belongs to,
0 for the kernel half that all trees share) such that: the roots are the tables of the
top level, unused tables are free and no two tables in use have the same label
(`TreeInv`, `Distinct`); an entry above the last level leads to a table with the label of
that entry, and allows what the last level may take away (`EntryInv`), and every table but a
root is led to (`ParentInv`); the upper halves of the roots agree (`SharedInv`); the labelled
tables and the free pages are all there were at the start (`WholeInv`); and the entry that
ends the walk for an address says what `flat` says (`MeansInv`). `WalkInv` places a running call at
the table with the label of its address and level, `LargeInv` and `InitInv` say what
`paging_init` has yet to map, `TlbInv` what is cached. A label determines its table, so a
write to one entry changes the translation of exactly the addresses of its block, which is
the heart of `Translation`; that a new table is cleared before it is linked is what keeps
`EntryInv`. What the MMU and `virt_to_phys` find is then an induction over the levels. The
library's induction theorems cannot be used, so it is done with sets: a set of numbers
without a least element is empty (`LeastNumber`, from the theorem that the order of the
natural numbers is well founded), hence a set with 0 and all successors has all numbers up to `N` (`UpTo`),
and a function that is given by its first value and its steps exists and is the one that
the recursive definition names (`Recursion`).

**`BootProofs`**: every firmware table, list capacity, number of inputs and depth of nested calls of
`kpanic`. `CauseReportedFirstCorrect`: `TopInv` tells from where the innermost call is what has been
printed: after `lapic_init` the reports of the calls that have not returned, in order, then
the backtrace, and nothing else; before it one complaint for each nested call and no report.
`ListedRightCorrect`, `TimerRoutedCorrect`: `ScanInv` ties the byte offset of the scan to the
number of entries it has passed, so that it ends exactly behind the last one; `ListInv`
gives for each list an increasing map to the entries it was filled from, which hits all
of them unless the list is full. Its injectivity gives the cardinality, and its order that
the first override `irq_to_gsi` finds is the first one of the table. `RedInv` says what the
redirection entries are at each stage. The registers of all inputs of the firmware's I/O APIC have an index of 8 bits
(`16 + 2 * Pins <= VecMod`), hence there are fewer inputs than vectors, and a vector spills at most one bit into the delivery mode.

**`SpacesProofs`**: any memory, modules, page size, table span, regions of the kernel and
number of copies. `FramesAccountedCorrect`, `CopiesInsideCorrect`, `ImageIntactCorrect`. The
invariant has three layers. `FrameInv` is about frames alone: each has one use (`UseOK`), each
region its own descriptor (`ListOK`, from which the cardinality follows by a bijection),
and the loop over a segment has the frames it is about to map. `SpaceInv` builds on it:
`Layout` says that the list holds the segments from the highest down, then the root, then
the stack, and that segments share no page. Because of that order only the end of the list has room
for the stack (`RoomAtEnd`), and a copy is allowed exactly in segments (`AllowedFacts`: the
flags of the stack's region lack the user bit). `LoopInv` says that the frames of the
segment being mapped are mapped at their own page or not yet, and `MemInv` that a frame
of the process is mapped once, page 0 never (so a failed load, whose entry is 0, cannot
start), and what each page of a loaded segment holds, byte by byte. `LostInv` counts the
frames that nothing leads to: none until the kernel's regions are mapped, then as many as
stack pages that were mapped over. `DomInv` says which pages can be mapped at all and
`StackInv` that a page of the stack keeps its frame until the loop of `sched_spawn` comes to
it, so that each step of that loop loses one frame or none.

Every invariant and every action property of the runs, and the refinement, is proved. Only
model-checked is liveness (`LockReleased`, `NoStarvation`, `Reaped`, `BootEnds`, `PanicReported`,
`CallsReturn`, `BootDecides`, `PanicEnds`): liveness under fairness is out of the prover's reach.

## 6. Not modelled, and the plan

Not modelled yet: the arithmetic of `pmm_init`; what a table walk does inside a large
page; the TLBs of CPUs other than the executing one, which `vunmap` leaves alone; the build with `DISABLE_TIMER`.
Not to be modelled: formatting, string routines, descriptor tables, register-level I/O,
assembly stubs, `external/` and `boot/limine.h`, the init program. I/O APICs after the
first and `ioapic_mask` have no caller.

Next, in this order:

1. An abstract address space (disjoint regions, each fully mapped) implemented by
   `VMM` under the kernel's call patterns.
2. `PMMScan`: the loop over words and bits of `palloc`, shown to compute `FirstFit` with the
   induction of `PagingProofs`; `PMMInit`: the sizes and the placement of the bitmap.
