------------------------------ MODULE SmpBoot ------------------------------
(***************************************************************************)
(* Starting the processors and stopping them: smp_init on the boot CPU,    *)
(* smp_entry on the others (arch/smp.c), kpanic (sys/kpanic.c) and the die *)
(* trap (arch/idt.c).  CPUs are numbered as in cpu_locals.  A CPU in       *)
(* init_cpu uses the kernel heap and the kernel address space, neither of  *)
(* which has a lock.                                                       *)
(*                                                                         *)
(* `ready' is an ordinary bool polled without a barrier; the builds of the *)
(* kernel (-O2 and -Os) reload it in every iteration and take the last     *)
(* value read as the loop's outcome, and so does the model.                *)
(***************************************************************************)
EXTENDS Integers, FiniteSets

CONSTANTS NCpus,     \* cpu_count
          Bsp,       \* index of the boot CPU
          MaxPolls,  \* CPU_START_TIMEOUT, ten million in the kernel
          InitFails, \* may init_cpu panic (out of memory)?
          Faults,    \* CPUs that may raise an exception once they run
          Exits      \* CPUs with processes that may make the exit system call

Cpu == 0 .. NCpus - 1

ASSUME SmpAssumption ==
    /\ NCpus \in Nat \ {0} /\ Bsp \in Cpu /\ MaxPolls \in Nat
    /\ InitFails \in BOOLEAN /\ Faults \subseteq Cpu /\ Exits \subseteq Cpu

VARIABLES pc,       \* what each CPU executes
          ready,    \* cpu_locals[i].ready
          started,  \* started_cpus
          go,       \* info->goto_address has been stored
          i,        \* loop index of smp_init
          timeout,  \* polls made of the current CPU
          ifon,     \* the interrupt flag
          ipi,      \* a 0xFE interrupt is pending
          j,        \* loop index of each CPU's kpanic
          ctx,      \* its argument: the registers of an exception, or NULL
          up,       \* ghost: the CPUs that were running when c panicked
          panicked  \* ghost: the CPUs that have called kpanic

vars == <<pc, ready, started, go, i, timeout, ifon, ipi, j, ctx, up, panicked>>
boot == <<started, go, i, timeout>>
ghosts == <<up, panicked>>
panics == <<ipi, j, ctx, ghosts>>

Init ==
    /\ pc = [c \in Cpu |-> IF c = Bsp THEN "loop" ELSE "parked"]
    /\ ready = [c \in Cpu |-> FALSE]
    /\ started = 0
    /\ go = [c \in Cpu |-> FALSE]
    /\ i = 0
    /\ timeout = 0
    /\ ifon = [c \in Cpu |-> FALSE]
    /\ ipi = [c \in Cpu |-> FALSE]
    /\ j = [c \in Cpu |-> 0]
    /\ ctx = [c \in Cpu |-> FALSE]
    /\ up = [c \in Cpu |-> {}]
    /\ panicked = {}

Goto(c, l) == pc' = [pc EXCEPT ![c] = l]

----------------------------------------------------------------------------
(***************************************************************************)
(* kpanic                                                                  *)
(***************************************************************************)

\* The CPUs that run the kernel with their local APIC enabled; an interrupt
\* sent to a CPU that is not that far may be lost.
Listening == {c \in Cpu : pc[c] \notin {"parked", "init"}}

\* kpanic's first step: 0xFE goes to all CPUs but the sender.
SendDie(c) ==
    \E lost \in SUBSET (Cpu \ Listening) :
        ipi' = [d \in Cpu |-> ipi[d] \/ (d # c /\ d \notin lost)]

Kpanic(c, exception) ==
    /\ Goto(c, "wait")
    /\ ctx' = [ctx EXCEPT ![c] = exception]
    /\ SendDie(c)
    /\ j' = [j EXCEPT ![c] = 0]
    /\ up' = [up EXCEPT ![c] = {d \in Cpu \ {c} : pc[d] = "run"}]
    /\ panicked' = panicked \cup {c}

\* Mutant: the wait stops one CPU early.
WaitNextShort(c) ==
    /\ pc[c] = "wait"
    /\ j[c] < NCpus
    /\ j[c] = c \/ ~ ready[j[c]] \/ j[c] = NCpus - 1
    /\ j' = [j EXCEPT ![c] = @ + 1]
    /\ UNCHANGED <<pc, ready, boot, ifon, ipi, ctx, ghosts>>

\* The loop over the other CPUs moves on once the current one is not ready.
WaitNext(c) ==
    /\ pc[c] = "wait"
    /\ j[c] < NCpus
    /\ j[c] = c \/ ~ ready[j[c]]
    /\ j' = [j EXCEPT ![c] = @ + 1]
    /\ UNCHANGED <<pc, ready, boot, ifon, ipi, ctx, ghosts>>

Report(c) ==
    /\ pc[c] = "wait" /\ j[c] = NCpus
    /\ Goto(c, "report")
    /\ UNCHANGED <<ready, boot, ifon, panics>>

\* A panic that was not raised by an exception faults in its backtrace, which
\* reads through NULL, and is followed by a second one: see Panic.
BacktraceFaults(c) ==
    /\ pc[c] = "report" /\ ~ ctx[c]
    /\ Kpanic(c, TRUE)
    /\ UNCHANGED <<ready, boot, ifon>>

\* hcf: interrupts off, halted for good.
Hcf(c) ==
    /\ pc[c] = "report" /\ ctx[c]
    /\ Goto(c, "halted")
    /\ ifon' = [ifon EXCEPT ![c] = FALSE]
    /\ UNCHANGED <<ready, boot, panics>>

\* Mutant: die halts without saying so.
DieSilent(c) ==
    /\ ipi[c] /\ ifon[c]
    /\ Goto(c, "dead")
    /\ ifon' = [ifon EXCEPT ![c] = FALSE]
    /\ ipi' = [ipi EXCEPT ![c] = FALSE]
    /\ UNCHANGED <<ready, boot, j, ctx, ghosts>>

\* The die trap, taken when interrupts are on, also by a CPU that is itself in
\* kpanic after an exception (a trap gate leaves the flag on).
Die(c) ==
    /\ ipi[c] /\ ifon[c]
    /\ Goto(c, "dead")
    /\ ready' = [ready EXCEPT ![c] = FALSE]
    /\ ifon' = [ifon EXCEPT ![c] = FALSE]
    /\ ipi' = [ipi EXCEPT ![c] = FALSE]
    /\ UNCHANGED <<boot, j, ctx, ghosts>>

\* A running CPU enters or leaves an interrupt or system call handler.
Handler(c) ==
    /\ pc[c] = "run"
    /\ ifon' = [ifon EXCEPT ![c] = ~ @]
    /\ UNCHANGED <<pc, ready, boot, panics>>

\* The handler of the exit system call does not return: sched_terminate calls
\* sched_tick with the table's lock held, and sched_tick spins on it with
\* interrupts off (see Sched).  The caller may also be a process that a tick
\* has switched to in the middle of a kpanic with interrupts on.
Exit(c) ==
    /\ c \in Exits
    /\ \/ pc[c] = "run"
       \/ pc[c] \in {"wait", "report"} /\ ifon[c]
    /\ Goto(c, "wedged")
    /\ ifon' = [ifon EXCEPT ![c] = FALSE]
    /\ UNCHANGED <<ready, boot, panics>>

\* An exception in a running CPU; the interrupt flag stays as it was.
Fault(c) ==
    /\ c \in Faults
    /\ pc[c] = "run"
    /\ Kpanic(c, TRUE)
    /\ UNCHANGED <<ready, boot, ifon>>

----------------------------------------------------------------------------
(***************************************************************************)
(* smp_init on the boot CPU.                                               *)
(***************************************************************************)
BspInit ==
    /\ pc[Bsp] = "loop" /\ i = Bsp
    /\ Goto(Bsp, "init")
    /\ UNCHANGED <<ready, boot, ifon, panics>>

BspReady ==
    /\ pc[Bsp] = "init"
    /\ Goto(Bsp, "loop")
    /\ ready' = [ready EXCEPT ![Bsp] = TRUE]
    /\ started' = started + 1
    /\ i' = i + 1
    /\ UNCHANGED <<go, timeout, ifon, panics>>

BspStartAp ==
    /\ pc[Bsp] = "loop" /\ i < NCpus /\ i # Bsp
    /\ Goto(Bsp, "poll")
    /\ go' = [go EXCEPT ![i] = TRUE]
    /\ timeout' = 0
    /\ UNCHANGED <<ready, started, i, ifon, panics>>

\* Mutant: the boot CPU does not wait for the CPU it started.
BspPollSkips ==
    /\ pc[Bsp] = "poll"
    /\ Goto(Bsp, "loop")
    /\ i' = i + 1
    /\ UNCHANGED <<ready, started, go, timeout, ifon, panics>>

BspPollReady ==
    /\ pc[Bsp] = "poll"
    /\ ready[i]
    /\ Goto(Bsp, "loop")
    /\ i' = i + 1
    /\ UNCHANGED <<ready, started, go, timeout, ifon, panics>>

\* Mutant: the polls are not counted.
BspPollForever ==
    /\ pc[Bsp] = "poll"
    /\ ~ ready[i] /\ timeout < MaxPolls
    /\ UNCHANGED vars

BspPollAgain ==
    /\ pc[Bsp] = "poll"
    /\ ~ ready[i] /\ timeout < MaxPolls
    /\ timeout' = timeout + 1
    /\ UNCHANGED <<pc, ready, started, go, i, ifon, panics>>

BspPollTimeout ==
    /\ pc[Bsp] = "poll"
    /\ ~ ready[i] /\ timeout = MaxPolls
    /\ Kpanic(Bsp, FALSE)
    /\ UNCHANGED <<ready, boot, ifon>>

\* The final comparison of started_cpus with cpu_count.
BspAllStarted ==
    /\ pc[Bsp] = "loop" /\ i = NCpus
    /\ started = NCpus
    /\ Goto(Bsp, "booted")
    /\ UNCHANGED <<ready, boot, ifon, panics>>

BspNotAllStarted ==
    /\ pc[Bsp] = "loop" /\ i = NCpus
    /\ started # NCpus
    /\ Kpanic(Bsp, FALSE)
    /\ UNCHANGED <<ready, boot, ifon>>

\* emk_entry unmasks the timer, loads init and enables interrupts.
BspRun ==
    /\ pc[Bsp] = "booted"
    /\ Goto(Bsp, "run")
    /\ ifon' = [ifon EXCEPT ![Bsp] = TRUE]
    /\ UNCHANGED <<ready, boot, panics>>

----------------------------------------------------------------------------
(***************************************************************************)
(* smp_entry on the others.                                                *)
(***************************************************************************)
\* Mutant: a CPU announces itself before init_cpu.
ApInitEarly(c) ==
    /\ pc[c] = "parked" /\ go[c]
    /\ Goto(c, "init")
    /\ ready' = [ready EXCEPT ![c] = TRUE]
    /\ started' = started + 1
    /\ UNCHANGED <<go, i, timeout, ifon, panics>>

ApInit(c) ==
    /\ pc[c] = "parked" /\ go[c]
    /\ Goto(c, "init")
    /\ UNCHANGED <<ready, boot, ifon, panics>>

\* sched_init or sched_spawn fails, on this or on the boot CPU.
InitPanic(c) ==
    /\ InitFails
    /\ pc[c] = "init"
    /\ Kpanic(c, FALSE)
    /\ UNCHANGED <<ready, boot, ifon>>

\* init_cpu has returned: ready is set first ...
ApReady(c) ==
    /\ pc[c] = "init" /\ c # Bsp
    /\ Goto(c, "ready")
    /\ ready' = [ready EXCEPT ![c] = TRUE]
    /\ UNCHANGED <<boot, ifon, panics>>

\* ... then the CPU is counted ...
ApCount(c) ==
    /\ pc[c] = "ready"
    /\ Goto(c, "counted")
    /\ started' = started + 1
    /\ UNCHANGED <<ready, go, i, timeout, ifon, panics>>

\* ... and interrupts are enabled.
ApRun(c) ==
    /\ pc[c] = "counted"
    /\ Goto(c, "run")
    /\ ifon' = [ifon EXCEPT ![c] = TRUE]
    /\ UNCHANGED <<ready, boot, panics>>

----------------------------------------------------------------------------
BspStep ==
    \/ BspInit \/ BspReady \/ BspStartAp \/ BspPollReady \/ BspPollAgain
    \/ BspPollTimeout \/ BspAllStarted \/ BspNotAllStarted \/ BspRun

\* A CPU that has come to life; one that is told to start may never do so.
ApStep(c) == InitPanic(c) \/ ApReady(c) \/ ApCount(c) \/ ApRun(c)

PanicStep(c) == WaitNext(c) \/ Report(c) \/ BacktraceFaults(c) \/ Hcf(c)

Next ==
    \/ BspInit \/ BspReady \/ BspStartAp \/ BspPollReady \/ BspPollAgain
    \/ BspPollTimeout \/ BspAllStarted \/ BspNotAllStarted \/ BspRun
    \/ \E c \in Cpu :
         \/ ApInit(c) \/ InitPanic(c) \/ ApReady(c) \/ ApCount(c) \/ ApRun(c)
         \/ Handler(c) \/ Exit(c) \/ Fault(c) \/ Die(c) \/ WaitNext(c)
         \/ Report(c) \/ BacktraceFaults(c) \/ Hcf(c)

\* Every CPU keeps executing its code and takes a pending interrupt when its
\* flag allows; a handler other than exit's returns, and no exception or exit
\* has to happen.  (A tick that preempts kpanic gives the CPU back after the
\* other processes' turns, unless one of them exits.)
Fairness ==
    /\ WF_vars(BspStep)
    /\ \A c \in Cpu : /\ WF_vars(ApStep(c)) /\ SF_vars(Die(c)) /\ WF_vars(PanicStep(c))
                      /\ WF_vars(~ ifon[c] /\ Handler(c))

Spec == Init /\ [][Next]_vars /\ Fairness

----------------------------------------------------------------------------
(***************************************************************************)
(* Properties                                                              *)
(***************************************************************************)
Labels == {"parked", "init", "ready", "counted", "run", "loop", "poll", "booted",
           "wait", "report", "halted", "dead", "wedged"}

TypeOK ==
    /\ pc \in [Cpu -> Labels]
    /\ ready \in [Cpu -> BOOLEAN] /\ go \in [Cpu -> BOOLEAN]
    /\ ifon \in [Cpu -> BOOLEAN] /\ ipi \in [Cpu -> BOOLEAN]
    /\ started \in 0 .. NCpus /\ i \in 0 .. NCpus /\ timeout \in 0 .. MaxPolls
    /\ j \in [Cpu -> 0 .. NCpus] /\ ctx \in [Cpu -> BOOLEAN] /\ up \in [Cpu -> SUBSET Cpu]
    /\ panicked \subseteq Cpu

\* At most one CPU is inside init_cpu, where the unlocked heap and kernel
\* address space are used, however long a CPU takes to start.
InitSerialized ==
    /\ TypeOK
    /\ \A c, d \in Cpu : pc[c] = "init" /\ pc[d] = "init" => c = d

\* Once smp_init has returned every CPU has finished init_cpu: the timer that
\* emk_entry unmasks next cannot reach a CPU without a scheduler.
BootedMeansAllUp ==
    pc[Bsp] \in {"booted", "run"} => \A c \in Cpu : pc[c] \notin {"parked", "init", "loop", "poll"}

\* A panic is reported only after every CPU that was running when it began
\* has been halted by the die trap; in particular two CPUs of a running system
\* never print their panics over one another.
PanicStopsRunning == \A c \in Cpu : pc[c] = "report" => \A d \in up[c] : pc[d] = "dead"

\* Booting comes to an end, even if a CPU never answers: all CPUs run (or got
\* stuck in a process's exit since), or some CPU has panicked.
BootEnds ==
    <>(\/ \A c \in Cpu : pc[c] \in {"run", "wedged"}
       \/ \E c \in Cpu : pc[c] \in {"wait", "report", "halted"})

\* When a CPU panics in a system that is up, its kpanic does not wait for ever:
\* the report is printed, unless a second CPU panics as well or a CPU, this one
\* or another, is stuck in the handler of a process's exit.  (Two CPUs that
\* panic with interrupts on can each be halted by the other's die trap; a stuck
\* CPU never takes the trap and stays ready.)
PanicReported ==
    \A c \in Cpu : (pc[c] = "wait" /\ up[c] = Cpu \ {c}) ~>
                       \/ pc[c] = "report" \/ panicked # {c}
                       \/ \E d \in Cpu : pc[d] = "wedged"

\* The assertion at the end of smp_init: a CPU that was seen ready has been
\* counted in started_cpus.
AllCountedAtCheck == pc[Bsp] = "loop" /\ i = NCpus => started = NCpus
=============================================================================
