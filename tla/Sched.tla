------------------------------- MODULE Sched -------------------------------
(***************************************************************************)
(* The per-CPU round-robin scheduler, kernel/src/sys/sched.c, with the     *)
(* system calls (sys/syscall.c, arch/idt.c) and the timer interrupt that   *)
(* drive it.  Every CPU owns one table; interrupts are off from the entry  *)
(* of a handler to its iretq, so only the interrupted code of the same CPU *)
(* is suspended by a handler, while other CPUs go on.                      *)
(*                                                                         *)
(* The registers of a CPU are abstracted to whose they are (regs), a saved *)
(* context to whose registers it holds (ctx), and stale[p] says that p has *)
(* executed since its context was last saved.                              *)
(***************************************************************************)
EXTENDS Integers, FiniteSets

CONSTANTS CPU,        \* the processors
          Proc,       \* pids, and the control blocks of the processes that get them
          NULL,       \* empty table slot; also the boot thread's registers
          MaxProcs,   \* PROC_MAX_PROCS_PER_CPU, 512 in the kernel
          Bsp,        \* the boot CPU
          Exiting,    \* processes that make system calls, exit among them
          Killable,   \* processes another process may terminate
          MayFail,    \* may spawning run out of table slots or memory?
          Mod32       \* 2^32: count is a uint32_t

ASSUME SchedAssumption ==
    /\ IsFiniteSet(CPU) /\ IsFiniteSet(Proc) /\ Proc \subseteq Nat /\ NULL \notin Proc
    /\ MaxProcs \in Nat \ {0}
    /\ Bsp \in CPU /\ Exiting \subseteq Proc /\ Killable \subseteq Proc
    /\ MayFail \in BOOLEAN
    /\ Mod32 \in Nat /\ Mod32 > MaxProcs

VARIABLES procs,        \* sched->procs: the table of each CPU
          count,        \* sched->count
          current_pid,  \* sched->current_pid, an index into procs
          lock,         \* sched->lock
          state,        \* pcb->state; "unused" before kmalloc, "freed" after kfree
          timeslice,    \* pcb->timeslice
          ctx,          \* pcb->ctx: whose registers are saved there
          errno,        \* pcb->errno is set
          regs,         \* whose registers are in the CPU
          stale,        \* ghost: executed since ctx was saved
          pc,           \* what the CPU is executing
          start_pid,    \* local of sched_tick
          ticking,      \* CPUs the PIT's redirection entry delivers to
          killed        \* ghost: CPUs on which a process has terminated another

vars == <<procs, count, current_pid, lock, state, timeslice, ctx, errno, regs, stale, pc, start_pid,
          ticking, killed>>
tables == <<procs, count, current_pid>>
threads == <<ctx, errno, regs, stale>>

Slot == 0 .. MaxProcs - 1

\* Mutant: a slice of two ticks.
TwoTicks == 2
PROC_DEFAULT_TIME == 1

\* sched_init on every CPU; interrupts are still off.  The build decides which
\* CPUs tick: only the boot CPU, or with BROADCAST_PIT (off by default) all.
Init ==
    /\ procs = [c \in CPU |-> [i \in Slot |-> NULL]]
    /\ count = [c \in CPU |-> 0]
    /\ current_pid = [c \in CPU |-> 0]
    /\ lock = [c \in CPU |-> FALSE]
    /\ state = [p \in Proc |-> "unused"]
    /\ timeslice = [p \in Proc |-> 0]
    /\ ctx = [p \in Proc |-> NULL]
    /\ errno = [p \in Proc |-> FALSE]
    /\ regs = [c \in CPU |-> NULL]
    /\ stale = [p \in Proc |-> FALSE]
    /\ pc = [c \in CPU |-> "boot"]
    /\ start_pid = [c \in CPU |-> 0]
    /\ ticking \in {{Bsp}, CPU}
    /\ killed = {}

----------------------------------------------------------------------------
(***************************************************************************)
(* Booting: sched_spawn is called with interrupts off, by init_cpu and, on *)
(* the boot CPU, by emk_entry.  kpanic stops this CPU and sends 0xFE to    *)
(* the others.                                                             *)
(***************************************************************************)

\* global_pid_counter: pids are given out in turn, on whichever CPU.
NextPid(p) == state[p] = "unused" /\ \A q \in Proc : state[q] = "unused" => p <= q

Spawn(c, p) ==
    /\ pc[c] = "boot" /\ ~ lock[c]
    /\ NextPid(p)
    /\ count[c] < MaxProcs
    /\ state' = [state EXCEPT ![p] = "READY"]
    /\ ctx' = [ctx EXCEPT ![p] = p]
    /\ timeslice' = [timeslice EXCEPT ![p] = PROC_DEFAULT_TIME]
    /\ procs' = [procs EXCEPT ![c][count[c]] = p]
    /\ count' = [count EXCEPT ![c] = @ + 1]
    /\ UNCHANGED <<current_pid, lock, errno, regs, stale, pc, start_pid, ticking, killed>>

\* No slot, or no memory for the control block: the lock is released first.
SpawnRefused(c) ==
    /\ MayFail
    /\ pc[c] = "boot" /\ ~ lock[c]
    /\ pc' = [pc EXCEPT ![c] = "panic"]
    /\ UNCHANGED <<tables, lock, state, timeslice, threads, start_pid, ticking, killed>>

\* No memory for the stack: the control block is freed and count, which was
\* not incremented yet, is decremented.
SpawnNoStack(c, p) ==
    /\ MayFail
    /\ pc[c] = "boot" /\ ~ lock[c]
    /\ NextPid(p)
    /\ count[c] < MaxProcs
    /\ state' = [state EXCEPT ![p] = "freed"]
    /\ count' = [count EXCEPT ![c] = (@ - 1) % Mod32]
    /\ pc' = [pc EXCEPT ![c] = "panic"]
    /\ UNCHANGED <<procs, current_pid, lock, timeslice, threads, start_pid, ticking, killed>>

\* sti at the end of smp_entry and emk_entry.
EnableInterrupts(c) ==
    /\ pc[c] = "boot"
    /\ pc' = [pc EXCEPT ![c] = "run"]
    /\ UNCHANGED <<tables, lock, state, timeslice, threads, start_pid, ticking, killed>>

\* The die trap that another CPU's kpanic sends.
Die(c) ==
    /\ \E d \in CPU \ {c} : pc[d] = "panic"
    /\ pc[c] = "run"
    /\ pc' = [pc EXCEPT ![c] = "dead"]
    /\ UNCHANGED <<tables, lock, state, timeslice, threads, start_pid, ticking, killed>>

----------------------------------------------------------------------------
(***************************************************************************)
(* The processes.                                                          *)
(***************************************************************************)

\* The process whose registers the CPU holds executes.
Work(c) ==
    /\ pc[c] = "run" /\ regs[c] # NULL
    /\ stale' = [stale EXCEPT ![regs[c]] = TRUE]
    /\ UNCHANGED <<tables, lock, state, timeslice, ctx, errno, regs, pc, start_pid, ticking, killed>>

\* sched_get_current, read without the lock.
sched_get_current(c) ==
    IF current_pid[c] < count[c] THEN procs[c][current_pid[c]] ELSE NULL

\* A system call with an unknown number: errno of the current process is set.
SyscallUnknown(c) ==
    /\ pc[c] = "run" /\ regs[c] \in Exiting
    /\ sched_get_current(c) # NULL
    /\ errno' = [errno EXCEPT ![sched_get_current(c)] = TRUE]
    /\ UNCHANGED <<tables, lock, state, timeslice, ctx, regs, stale, pc, start_pid, ticking, killed>>

\* sys_exit up to proc_exit's first release: the exit code is stored under the
\* lock in the process of slot current_pid.
SyscallExit(c) ==
    /\ pc[c] = "run" /\ regs[c] \in Exiting
    /\ sched_get_current(c) # NULL
    /\ ~ lock[c]
    /\ pc' = [pc EXCEPT ![c] = "exit"]
    /\ UNCHANGED <<tables, lock, state, timeslice, threads, start_pid, ticking, killed>>

\* sched_terminate of the current process: it is marked and, with the lock
\* still held, sched_tick is called.
TerminateSelf(c) ==
    /\ pc[c] = "exit" /\ ~ lock[c]
    /\ lock' = [lock EXCEPT ![c] = TRUE]
    /\ state' = [state EXCEPT ![procs[c][current_pid[c]]] = "TERMINATED"]
    /\ pc' = [pc EXCEPT ![c] = "nested_tick"]
    /\ UNCHANGED <<tables, timeslice, threads, start_pid, ticking, killed>>

\* sched_terminate of a process in another slot, called by a process with
\* interrupts off: it is marked and left to a later tick.
Terminate(c, i) ==
    /\ pc[c] = "run" /\ regs[c] # NULL /\ ~ lock[c]
    /\ i < count[c] /\ i # current_pid[c] /\ procs[c][i] \in Killable
    /\ state' = [state EXCEPT ![procs[c][i]] = "TERMINATED"]
    /\ killed' = killed \cup {c}
    /\ UNCHANGED <<tables, lock, timeslice, threads, pc, start_pid, ticking>>

----------------------------------------------------------------------------
(***************************************************************************)
(* sched_tick                                                              *)
(***************************************************************************)

\* The PIT interrupt reaches a CPU with interrupts on.
Timer(c) ==
    /\ c \in ticking
    /\ pc[c] = "run"
    /\ pc' = [pc EXCEPT ![c] = "tick"]
    /\ UNCHANGED <<tables, lock, state, timeslice, threads, start_pid, ticking, killed>>

\* An empty table: nothing to schedule, the interrupted code goes on.
TickEmpty(c) ==
    /\ pc[c] = "tick" /\ ~ lock[c]
    /\ count[c] = 0
    /\ pc' = [pc EXCEPT ![c] = "run"]
    /\ UNCHANGED <<tables, lock, state, timeslice, threads, start_pid, ticking, killed>>

\* Mutant: the interrupted registers are not saved.
TickSaveForgets(c) ==
    /\ pc[c] \in {"tick", "nested_tick"} /\ ~ lock[c]
    /\ count[c] > 0
    /\ lock' = [lock EXCEPT ![c] = TRUE]
    /\ LET p == procs[c][current_pid[c]] IN
         IF p # NULL /\ state[p] = "RUNNING"
         THEN /\ state' = [state EXCEPT ![p] = "READY"]
              /\ UNCHANGED <<ctx, stale, timeslice>>
         ELSE UNCHANGED <<ctx, stale, timeslice, state>>
    /\ start_pid' = [start_pid EXCEPT ![c] = current_pid[c]]
    /\ pc' = [pc EXCEPT ![c] = "scan"]
    /\ UNCHANGED <<tables, errno, regs, ticking, killed>>

\* The lock is taken; the running process is saved and its slice charged.  The
\* nested call of TerminateSelf waits here for the lock its own CPU holds.
TickSave(c) ==
    /\ pc[c] \in {"tick", "nested_tick"} /\ ~ lock[c]
    /\ count[c] > 0
    /\ lock' = [lock EXCEPT ![c] = TRUE]
    /\ LET p == procs[c][current_pid[c]] IN
         IF p # NULL /\ state[p] = "RUNNING"
         THEN /\ ctx' = [ctx EXCEPT ![p] = regs[c]]
              /\ stale' = [stale EXCEPT ![p] = FALSE]
              /\ timeslice' = [timeslice EXCEPT ![p] = IF @ = 1 THEN PROC_DEFAULT_TIME ELSE @ - 1]
              /\ state' = [state EXCEPT ![p] = IF timeslice[p] = 1 THEN "READY" ELSE @]
         ELSE UNCHANGED <<ctx, stale, timeslice, state>>
    /\ start_pid' = [start_pid EXCEPT ![c] = current_pid[c]]
    /\ pc' = [pc EXCEPT ![c] = "scan"]
    /\ UNCHANGED <<tables, errno, regs, ticking, killed>>

\* Mutant: the last slot is not cleared when the others move down.
ShiftKeepsLast(c, i) ==
    [procs EXCEPT ![c] =
        [j \in Slot |-> IF j >= i /\ j < count[c] - 1 THEN procs[c][j + 1] ELSE procs[c][j]]]

\* Slot i is removed and the slots after it move down.
Shift(c, i) ==
    [procs EXCEPT ![c] =
        [j \in Slot |-> CASE j < i \/ j >= count[c] -> procs[c][j]
                          [] j >= i /\ j < count[c] - 1 -> procs[c][j + 1]
                          [] j = count[c] - 1 -> NULL]]

\* One iteration of the search: the next slot, cyclically; a terminated
\* process found there is destroyed and the search goes on.
\* Mutant: the search always starts at the first slot.
NextSlotFirst(c) == 0
NextSlot(c) == (current_pid[c] + 1) % MaxProcs
SearchOn(c) == NextSlot(c) # start_pid[c]

ScanEmpty(c) ==
    /\ pc[c] = "scan"
    /\ procs[c][NextSlot(c)] = NULL
    /\ current_pid' = [current_pid EXCEPT ![c] = NextSlot(c)]
    /\ pc' = [pc EXCEPT ![c] = IF SearchOn(c) /\ count[c] > 0 THEN "scan" ELSE "none"]
    /\ UNCHANGED <<procs, count, lock, state, timeslice, threads, start_pid, ticking, killed>>

\* Mutant: a terminated process is passed over, not destroyed.
ScanReapSkips(c) ==
    /\ pc[c] = "scan"
    /\ procs[c][NextSlot(c)] # NULL
    /\ state[procs[c][NextSlot(c)]] = "TERMINATED"
    /\ current_pid' = [current_pid EXCEPT ![c] = NextSlot(c)]
    /\ pc' = [pc EXCEPT ![c] = IF SearchOn(c) THEN "scan" ELSE "none"]
    /\ UNCHANGED <<procs, count, lock, state, timeslice, threads, start_pid, ticking, killed>>

ScanReap(c) ==
    /\ pc[c] = "scan"
    /\ procs[c][NextSlot(c)] # NULL
    /\ state[procs[c][NextSlot(c)]] = "TERMINATED"
    /\ current_pid' = [current_pid EXCEPT ![c] = NextSlot(c)]
    /\ state' = [state EXCEPT ![procs[c][NextSlot(c)]] = "freed"]
    /\ procs' = Shift(c, NextSlot(c))
    /\ count' = [count EXCEPT ![c] = @ - 1]
    /\ pc' = [pc EXCEPT ![c] = IF SearchOn(c) /\ count[c] - 1 > 0 THEN "scan" ELSE "none"]
    /\ UNCHANGED <<lock, timeslice, threads, start_pid, ticking, killed>>

ScanFound(c) ==
    /\ pc[c] = "scan"
    /\ procs[c][NextSlot(c)] # NULL
    /\ state[procs[c][NextSlot(c)]] # "TERMINATED"
    /\ current_pid' = [current_pid EXCEPT ![c] = NextSlot(c)]
    /\ pc' = [pc EXCEPT ![c] = "found"]
    /\ UNCHANGED <<procs, count, lock, state, timeslice, threads, start_pid, ticking, killed>>

\* The search came round without a live process: slot 0 is tried.
ScanFallback(c) ==
    /\ pc[c] = "none" /\ count[c] > 0
    /\ current_pid' = [current_pid EXCEPT ![c] = 0]
    /\ pc' = [pc EXCEPT ![c] = "found"]
    /\ UNCHANGED <<procs, count, lock, state, timeslice, threads, start_pid, ticking, killed>>

\* The chosen process gets the CPU if it is ready; the handler returns.
Dispatch(c) ==
    /\ pc[c] = "found"
    /\ LET p == procs[c][current_pid[c]] IN
         IF state[p] = "READY"
         THEN /\ state' = [state EXCEPT ![p] = "RUNNING"]
              /\ regs' = [regs EXCEPT ![c] = ctx[p]]
         ELSE UNCHANGED <<state, regs>>
    /\ lock' = [lock EXCEPT ![c] = FALSE]
    /\ pc' = [pc EXCEPT ![c] = "run"]
    /\ UNCHANGED <<tables, timeslice, ctx, errno, stale, start_pid, ticking, killed>>

\* No process is left: the CPU halts with interrupts off.
Halt(c) ==
    /\ pc[c] = "none" /\ count[c] = 0
    /\ lock' = [lock EXCEPT ![c] = FALSE]
    /\ pc' = [pc EXCEPT ![c] = "halted"]
    /\ UNCHANGED <<tables, state, timeslice, threads, start_pid, ticking, killed>>

----------------------------------------------------------------------------
TickStep(c) ==
    \/ TickEmpty(c) \/ TickSave(c) \/ ScanEmpty(c) \/ ScanReap(c) \/ ScanFound(c)
    \/ ScanFallback(c) \/ Dispatch(c) \/ Halt(c)

Next ==
    \E c \in CPU :
        \/ \E p \in Proc : Spawn(c, p)
        \/ SpawnRefused(c)
        \/ \E p \in Proc : SpawnNoStack(c, p)
        \/ EnableInterrupts(c)
        \/ Die(c)
        \/ Work(c)
        \/ SyscallUnknown(c)
        \/ SyscallExit(c)
        \/ TerminateSelf(c)
        \/ \E i \in Slot : Terminate(c, i)
        \/ Timer(c)
        \/ TickEmpty(c)
        \/ TickSave(c)
        \/ ScanEmpty(c)
        \/ ScanReap(c)
        \/ ScanFound(c)
        \/ ScanFallback(c)
        \/ Dispatch(c)
        \/ Halt(c)

\* The PIT ticks for ever, boot code and handlers run to their end unless they
\* spin.  Nothing is assumed of the processes.
Fairness ==
    \A c \in CPU :
        /\ WF_vars(EnableInterrupts(c)) /\ WF_vars(Timer(c))
        /\ WF_vars(TickStep(c)) /\ WF_vars(TerminateSelf(c))

Spec == Init /\ [][Next]_vars /\ Fairness

----------------------------------------------------------------------------
(***************************************************************************)
(* Properties                                                              *)
(***************************************************************************)

Live(p) == state[p] \in {"READY", "RUNNING", "TERMINATED"}
On(p, c) == \E i \in Slot : procs[c][i] = p

TypeOK ==
    /\ procs \in [CPU -> [Slot -> Proc \cup {NULL}]]
    /\ count \in [CPU -> 0 .. Mod32 - 1]
    /\ current_pid \in [CPU -> Slot]
    /\ lock \in [CPU -> BOOLEAN]
    /\ state \in [Proc -> {"unused", "READY", "RUNNING", "TERMINATED", "freed"}]
    /\ timeslice \in [Proc -> 0 .. PROC_DEFAULT_TIME]
    /\ ctx \in [Proc -> Proc \cup {NULL}]
    /\ errno \in [Proc -> BOOLEAN]
    /\ regs \in [CPU -> Proc \cup {NULL}]
    /\ stale \in [Proc -> BOOLEAN]
    /\ pc \in [CPU -> {"boot", "run", "dead", "panic", "halted", "exit", "nested_tick",
                       "tick", "scan", "none", "found"}]
    /\ start_pid \in [CPU -> Slot]
    /\ ticking \subseteq CPU
    /\ killed \subseteq CPU

\* Spawning and the removal of terminated processes keep each table compact:
\* the first count slots, and no others, hold control blocks that are not
\* freed, and no control block is in two slots or on two CPUs.
TableCompact ==
    /\ \A c \in CPU : pc[c] # "panic" =>
         \A i \in Slot : /\ procs[c][i] # NULL <=> i < count[c]
                         /\ procs[c][i] # NULL => Live(procs[c][i])
    /\ \A c, d \in CPU : \A i, j \in Slot :
         procs[c][i] = procs[d][j] /\ procs[c][i] # NULL => c = d /\ i = j

\* While a process executes it is the one sched_get_current names, so a system
\* call acts on its caller; it alone is RUNNING on its CPU.  That is so as long
\* as no process of the CPU was terminated by another one.
CurrentIsExecuting ==
    \A c \in CPU \ killed : pc[c] = "run" /\ regs[c] # NULL =>
        /\ sched_get_current(c) = regs[c]
        /\ \A i \in Slot : procs[c][i] # NULL =>
             (state[procs[c][i]] = "RUNNING" <=> procs[c][i] = regs[c])

\* Saved contexts are never mixed up and never lag behind: a process of the
\* table that is not executing resumes exactly where it was interrupted (again,
\* unless one of its CPU was terminated by another), and none is on two CPUs.
ContextIntegrity ==
    /\ \A p \in Proc : Live(p) => ctx[p] = p
    /\ \A c \in CPU \ killed : \A i \in Slot :
         procs[c][i] \notin {NULL, regs[c]} => ~ stale[procs[c][i]]
    /\ \A c, d \in CPU : regs[c] = regs[d] /\ regs[c] # NULL => c = d

\* What may keep a process waiting for its CPU's scheduler for ever: the kernel
\* panicked, its CPU is wedged in an exit, or its CPU gets no timer interrupt,
\* as every CPU but the boot CPU in the default build.
Wedged(c) == pc[c] = "nested_tick" /\ lock[c]
Stopped(p) ==
    \E c \in CPU : pc[c] = "panic" \/ (On(p, c) /\ (Wedged(c) \/ c \notin ticking))

\* A ready process of a CPU that ticks gets the CPU, or is terminated, unless
\* the kernel panicked or that very CPU is wedged in an exit; in particular
\* neither a wedged CPU nor one without a timer stops the others.
NoStarvation == \A p \in Proc : state[p] = "READY" ~> state[p] # "READY" \/ Stopped(p)

\* A process that was terminated is eventually destroyed and leaves the table,
\* with the same exceptions.
Reaped == \A p \in Proc : state[p] = "TERMINATED" ~> state[p] = "freed" \/ Stopped(p)

\* "No processes remaining on CPU %d. Halting.": a CPU whose processes have
\* all exited halts.
HaltsWhenDone ==
    \A c \in CPU :
        (count[c] > 0 /\ \A i \in Slot : procs[c][i] # NULL => state[procs[c][i]] = "TERMINATED")
            ~> pc[c] = "halted"
=============================================================================
