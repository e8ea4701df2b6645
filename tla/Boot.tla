------------------------------- MODULE Boot --------------------------------
(***************************************************************************)
(* emk_entry (emk.c) from its first check to the running system, composed  *)
(* of the interrupt routing it sets up (Routing) and of what a failed      *)
(* check leads to (Panic).  smp_init is one stage here; SmpBoot has its    *)
(* steps.                                                                  *)
(***************************************************************************)
EXTENDS Routing, Panic

CONSTANTS None,      \* no init= on the command line
          InitKeys,  \* values of init=, with None
          ModCounts  \* numbers of modules the boot loader may hand over

ASSUME BootAssumption == InitKeys \subseteq Nat \cup {None} /\ ModCounts \subseteq Nat \ {0}

VARIABLES stage,     \* what emk_entry executes next
          mod_idx    \* the module chosen, and how many there are

entry == <<stage, mod_idx>>
vars == <<firmware, madt, ioapic, lapic_base, cpus, panic, entry>>

\* The parts of emk_entry in their order.
Stages == <<"limine", "tables", "memory", "paging", "vmm", "heap", "acpi", "find_madt", "madt",
            "mp", "lapic", "smp_early", "ioapic", "timer", "smp", "unmask", "init", "load", "run">>

\* The parts with a check of something that is not modelled here: a response of
\* the boot loader, an allocation, a table of the firmware, a CPU that starts.
Checked == {"limine", "memory", "paging", "vmm", "heap", "acpi", "find_madt", "mp", "lapic",
            "smp_early", "ioapic", "smp", "load"}

NextStage(s) == Stages[(CHOOSE k \in DOMAIN Stages : Stages[k] = s) + 1]

Init ==
    /\ RoutingInit /\ PanicInit
    /\ stage = "limine"
    /\ mod_idx = None

\* The boot code is at stage s and goes on to the next.
Executing(s) == stage = s /\ frames = <<>>
Advance(s) ==
    /\ Executing(s)
    /\ stage' = NextStage(s)

\* A check fails: kpanic(NULL, ...), with the interrupt flag as it is.  In
\* smp_init some of the other CPUs may be up by then.
KpanicNull ==
    /\ frames' = <<Call(FALSE, "ok")>>
    /\ peers' \in IF stage = "smp" THEN {"quiet", "ready"} ELSE {peers}
    /\ UNCHANGED <<said, kprintf_lock, running, flag, other, halted, entry>>

----------------------------------------------------------------------------
\* The stages whose effects the other modules describe.
Initialise(s) ==
    /\ s \in {"limine", "tables", "memory", "paging", "vmm", "heap", "acpi", "mp"}
    /\ Advance(s)
    /\ UNCHANGED <<firmware, madt, ioapic, lapic_base, cpus, panic, mod_idx>>

CheckFails(s) ==
    /\ Executing(s) /\ s \in Checked
    /\ KpanicNull
    /\ UNCHANGED <<firmware, madt, ioapic, lapic_base, cpus>>

FindMadt ==
    /\ Advance("find_madt") /\ MadtStart
    /\ UNCHANGED <<firmware, ioapic, lapic_base, cpus, panic, mod_idx>>

ScanMadt ==
    /\ Executing("madt") /\ MadtEntry
    /\ UNCHANGED <<firmware, ioapic, lapic_base, cpus, panic, entry>>

ScanFails ==
    /\ Executing("madt") /\ MadtInvalid
    /\ KpanicNull
    /\ UNCHANGED <<firmware, madt, ioapic, lapic_base, cpus>>

ScanDone ==
    /\ Advance("madt") /\ ~ Scanning
    /\ UNCHANGED <<firmware, madt, ioapic, lapic_base, cpus, panic, mod_idx>>

LapicInit ==
    /\ Advance("lapic")
    /\ lapic_base' = TRUE
    /\ UNCHANGED <<firmware, madt, ioapic, cpus, panic, mod_idx>>

SmpEarlyInit ==
    /\ Advance("smp_early")
    /\ cpus' = "known"
    /\ UNCHANGED <<firmware, madt, ioapic, lapic_base, panic, mod_idx>>

\* cpu_count is stored before it is compared with MAX_CPUS.
TooManyCpus ==
    /\ Executing("smp_early")
    /\ cpus' = "over"
    /\ KpanicNull
    /\ UNCHANGED <<firmware, madt, ioapic, lapic_base>>

\* smp_init returns: the other CPUs, if there are any, have set their flags.
SmpInit ==
    /\ Advance("smp")
    /\ peers' \in {"quiet", "ready"}
    /\ UNCHANGED <<firmware, madt, ioapic, lapic_base, cpus, frames, said, kprintf_lock, running,
                   flag, other, halted, mod_idx>>

SetUpIoapic ==
    /\ Advance("ioapic") /\ IoapicInit
    /\ UNCHANGED <<firmware, madt, lapic_base, cpus, panic, mod_idx>>

IoapicFails ==
    /\ Executing("ioapic") /\ NoIoapic
    /\ KpanicNull
    /\ UNCHANGED <<firmware, madt, ioapic, lapic_base, cpus>>

SetUpTimer ==
    /\ Advance("timer") /\ PitInit
    /\ UNCHANGED <<firmware, madt, lapic_base, cpus, panic, mod_idx>>

TimerFails ==
    /\ Executing("timer") /\ InvalidGsi
    /\ KpanicNull
    /\ UNCHANGED <<firmware, madt, ioapic, lapic_base, cpus>>

UnmaskTimer ==
    /\ Advance("unmask") /\ Unmask
    /\ UNCHANGED <<firmware, madt, lapic_base, cpus, panic, mod_idx>>

\* The value of init= on the command line, or none when the key is absent or
\* there is no memory for the copy.
get_key == InitKeys

\* Module 0 unless the key is the number of a module.  (The early return before
\* it cannot happen: the first stage has checked both responses.)
ChooseInit ==
    /\ Advance("init")
    /\ \E key \in get_key, count \in ModCounts :
         mod_idx' = IF key \in 0 .. count - 1 THEN <<key, count>> ELSE <<0, count>>
    /\ UNCHANGED <<firmware, madt, ioapic, lapic_base, cpus, panic>>

\* The module is loaded and spawned, interrupts are enabled: the CPU has its
\* kernel thread and the new process.
StartInit ==
    /\ Advance("load")
    /\ flag' = TRUE /\ other' = "user"
    /\ UNCHANGED <<firmware, madt, ioapic, lapic_base, cpus, frames, said, kprintf_lock, running,
                   halted, peers, mod_idx>>

\* An exception in a process, or in a handler, which has interrupts off.
Exception ==
    /\ Executing("run") /\ running = "main"
    /\ \E chain \in {"ok", "bad"} : frames' = <<Call(TRUE, chain)>>
    /\ flag' \in BOOLEAN
    /\ UNCHANGED <<firmware, madt, ioapic, lapic_base, cpus, said, kprintf_lock, running, other,
                   halted, peers, entry>>

BootStep ==
    \/ \E s \in {Stages[k] : k \in DOMAIN Stages} : Initialise(s) \/ CheckFails(s)
    \/ FindMadt \/ ScanMadt \/ ScanFails \/ ScanDone \/ LapicInit \/ SmpEarlyInit \/ TooManyCpus
    \/ SmpInit \/ SetUpIoapic \/ IoapicFails \/ SetUpTimer \/ TimerFails \/ UnmaskTimer \/ ChooseInit
    \/ StartInit

CpuStep ==
    PanicStep \/ Preempt \/ OtherLogs \/ OtherPrints \/ OtherExits \/ PeersHalt \/ PeerExits

Next ==
    \/ BootStep
    \/ Exception
    \/ CpuStep /\ UNCHANGED <<firmware, madt, ioapic, lapic_base, cpus, entry>>

\* The boot code goes on; a process that is given the CPU again and again makes
\* progress, the PIT ticks again and again, and the other CPUs take the die trap
\* unless one of them is stuck (SmpBoot).  Nothing has to fail, nobody to exit.
Fairness ==
    /\ WF_vars(BootStep)
    /\ SF_vars(PanicStep /\ UNCHANGED <<firmware, madt, ioapic, lapic_base, cpus, entry>>)
    /\ WF_vars(PeersHalt /\ UNCHANGED <<firmware, madt, ioapic, lapic_base, cpus, entry>>)
    /\ WF_vars(OtherPrints /\ UNCHANGED <<firmware, madt, ioapic, lapic_base, cpus, entry>>)
    /\ SF_vars(running = "other" /\ Preempt
               /\ UNCHANGED <<firmware, madt, ioapic, lapic_base, cpus, entry>>)

Spec == Init /\ [][Next]_vars /\ Fairness

----------------------------------------------------------------------------
(***************************************************************************)
(* Properties                                                              *)
(***************************************************************************)
TypeOK ==
    /\ stage \in {Stages[k] : k \in DOMAIN Stages}
    /\ mod_idx # None => mod_idx[1] < mod_idx[2]
    /\ \A g \in 0 .. Pins - 1 : red[g].vec \in 0 .. VecMod - 1 /\ red[g].mode \in 0 .. 7
    /\ kprintf_lock \in {"free", "main"} /\ running \in {"main", "other"}
    /\ other \in {"absent", "user", "log", "exit"} /\ peers \in {"quiet", "ready", "stuck"}
    /\ cpus \in {"none", "known", "over"} /\ Len(frames) <= Depth

\* The entries of type t, and the global interrupt the firmware's table assigns
\* to the timer.
Of(t) == {i \in DOMAIN table : table[i].type = t}
TimerGsi ==
    LET isos == {i \in Of(IOAPIC_SRC_OVR) : table[i].irq = 0}
    IN  IF isos = {} THEN 0 ELSE table[Min(isos)].gsi

\* From ioapic_init until smp_init has returned no input of the I/O APIC is
\* enabled; afterwards exactly the timer's is, with the vector whose handler is
\* registered, fixed delivery and the boot CPU (or all) as its target.  The
\* timer's override must be among the first ListMax.
TimerRouted ==
    /\ TypeOK
    /\ stage \in {"timer", "smp", "unmask"} => \A g \in 0 .. Pins - 1 : red[g].mask
    /\ stage \in {"init", "load", "run"} /\ Cardinality(Of(IOAPIC_SRC_OVR)) <= ListMax =>
         /\ \A g \in 0 .. Pins - 1 : ~ red[g].mask <=> g = TimerGsi
         /\ red[TimerGsi] = Word(FALSE, PIT_VECTOR, IF Broadcast THEN AllCpus ELSE BspId)
         /\ handler

\* What madt_init has listed lies inside the table with all its fields, in the
\* table's order, and when the scan is over no entry was skipped or listed
\* twice, up to the capacity of the lists.
ListedRight ==
    \A t \in Listed :
        /\ \A k \in DOMAIN lists[t] :
             /\ lists[t][k].off + Size[t] <= tableLen
             /\ k > 1 => lists[t][k].off >= lists[t][k - 1].off + Size[t]
        /\ stage \in {"mp", "lapic", "smp_early", "ioapic"} =>
             Len(lists[t]) = Min({Cardinality(Of(t)), ListMax})

\* After lapic_init the first thing kpanic prints is the report of its cause, with
\* get_cpu_local's complaint in front of it if smp_early_init has not run; when the
\* CPU halts each nested call has printed its own report once, outermost first,
\* and the innermost its backtrace.  Before lapic_init no report is printed at
\* all, neither the cause's nor another: only one line for each nested call.
\* (More than MAX_CPUS processors excepted.)
CauseReportedFirst ==
    cpus # "over" =>
        /\ lapic_base /\ said # <<>> => said[1] = Line("report", 1)
        /\ ~ lapic_base => \A k \in DOMAIN said : said[k] = Line("no_lapic", k)
        /\ halted => /\ lapic_base
                     /\ said = [n \in 1 .. Len(frames) + 1 |->
                                 IF n <= Len(frames) THEN Line("report", n)
                                 ELSE Line("backtrace", Len(frames))]

\* Booting comes to an end: the system runs, or a check has failed.
BootDecides == <>(stage = "run" \/ frames # <<>>)

\* A panic that begins after lapic_init, in code whose frame pointers can be
\* followed, ends with the CPU halted, unless another CPU is stuck in an exit with
\* its ready flag set.  If it began with interrupts on it may instead be
\* preempted, and the process that gets the CPU never gives it back: it waits,
\* interrupts off, for the console the panic holds, or for its table's lock in
\* an exit.
ConsoleStuck == other = "log" /\ kprintf_lock = "main"
PanicEnds ==
    (frames # <<>> /\ frames[1].chain = "ok" /\ lapic_base /\ cpus # "over")
        ~> \/ halted \/ peers = "stuck"
           \/ flag /\ running = "other" /\ (ConsoleStuck \/ other = "exit")

\* "=== Kernel panic: '%s' on CPU ??? @ 0x%.16llx ===": a panic before the CPUs
\* are known is reported as well.
EarlyPanicReported == (frames # <<>> /\ cpus = "none") ~> \E k \in DOMAIN said : said[k].what = "report"
=============================================================================
