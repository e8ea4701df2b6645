------------------------------- MODULE Panic -------------------------------
(***************************************************************************)
(* One CPU inside kpanic (sys/kpanic.c): calls that nest because a step of *)
(* kpanic fails itself, the console lock (util/kprintf.c), and the timer   *)
(* tick that may take the CPU away from a panic that began with interrupts *)
(* on.  How the other CPUs are stopped is in SmpBoot; here they are one    *)
(* value, peers: none has its ready flag set, some have, or one has it for *)
(* good.                                                                   *)
(*                                                                         *)
(* The panicking context is "main": the boot code, or the process that was *)
(* interrupted.  "other" is any other process of the same CPU, which makes *)
(* system calls that log, or exits, and does not fault itself.             *)
(***************************************************************************)
EXTENDS Integers, Sequences

CONSTANT Depth    \* calls of kpanic that fit on the stack

ASSUME PanicAssumption == Depth \in Nat /\ Depth > 2

VARIABLES lapic_base,   \* lapic_init has stored the address
          cpus,         \* cpu_count: 0, the CPUs in cpu_locals, or more than MAX_CPUS
          frames,       \* the calls of kpanic that have not returned, outermost first
          said,         \* what was printed, see Line
          kprintf_lock, \* who holds the console
          running,      \* which context executes
          flag,         \* the interrupt flag of main
          other,        \* what the other process does: user code, waiting to log, exit
          halted,       \* hcf
          peers         \* the ready flags of the other CPUs: "quiet", "ready" or "stuck"

panic == <<frames, said, kprintf_lock, running, flag, other, halted, peers>>

PanicInit ==
    /\ lapic_base = FALSE
    /\ cpus = "none"
    /\ frames = <<>> /\ said = <<>>
    /\ kprintf_lock = "free"
    /\ running = "main" /\ flag = FALSE
    /\ other = "absent"
    /\ halted = FALSE
    /\ peers = "quiet"

\* What call n prints: its report, its backtrace, or lapic_send_ipi's line about
\* the missing local APIC.  While no CPU is known get_cpu_local prints a
\* complaint of its own in front of the report.
Line(what, n) ==
    [what |-> what, call |-> n,
     before |-> IF what = "report" /\ cpus = "none" THEN "no_cpu" ELSE "nothing"]

\* A call of kpanic.  ctx: it was given the registers of an exception; chain:
\* the saved frame pointers can be followed to their end.
Call(ctx, chain) == [ctx |-> ctx, chain |-> chain, at |-> "send"]

Panicking == frames # <<>> /\ running = "main" /\ ~ halted
Top == frames[Len(frames)]
At(l) == Panicking /\ Top.at = l
Goto(l) == frames' = [frames EXCEPT ![Len(frames)].at = l]

\* The current call ends in another one, on top of it.  The last one that fits
\* runs into whatever lies below the stack, and nothing is claimed of it.
Nest(f) ==
    /\ Len(frames) < Depth
    /\ frames' = Append(frames, f)

----------------------------------------------------------------------------
\* kpanic: stop the other CPUs ...
SendDie ==
    /\ At("send") /\ lapic_base
    /\ Goto("wait")
    /\ UNCHANGED <<said, kprintf_lock, running, flag, other, halted, peers>>

\* ... but lapic_send_ipi logs and panics itself while there is no local APIC.
SendDieEarly ==
    /\ At("send") /\ ~ lapic_base
    /\ kprintf_lock = "free"
    /\ said' = Append(said, Line("no_lapic", Len(frames)))
    /\ Nest(Call(FALSE, "ok"))
    /\ UNCHANGED <<kprintf_lock, running, flag, other, halted, peers>>

\* Mutant: the backtrace comes before the report.
OthersHaltedTrace ==
    /\ At("wait") /\ cpus # "over" /\ peers = "quiet"
    /\ Goto("trace")
    /\ UNCHANGED <<said, kprintf_lock, running, flag, other, halted, peers>>

\* The loop over cpu_locals is over: no other CPU has its ready flag set.  (It
\* is not entered before smp_early_init.)
OthersHalted ==
    /\ At("wait") /\ cpus # "over" /\ peers = "quiet"
    /\ Goto("report")
    /\ UNCHANGED <<said, kprintf_lock, running, flag, other, halted, peers>>

\* With cpu_count above MAX_CPUS the loop reads past cpu_locals, and no entry
\* may have this CPU's number: the flag found there is clear, or stays set, or
\* get_cpu_local returned NULL and the read of cpu_index faults.
WaitPastEnd ==
    /\ At("wait") /\ cpus = "over"
    /\ Goto("report") \/ Goto("stuck") \/ Nest(Call(TRUE, "ok"))
    /\ UNCHANGED <<said, kprintf_lock, running, flag, other, halted, peers>>

\* The lines of the report, each of which takes and releases the console.
PrintBegin ==
    /\ At("report") /\ kprintf_lock = "free"
    /\ kprintf_lock' = "main"
    /\ Goto("printing")
    /\ UNCHANGED <<said, running, flag, other, halted, peers>>

\* Mutant: the console is not released.
PrintEndKeeps ==
    /\ At("printing")
    /\ said' = Append(said, Line("report", Len(frames)))
    /\ Goto("trace")
    /\ UNCHANGED <<kprintf_lock, running, flag, other, halted, peers>>

PrintEnd ==
    /\ At("printing")
    /\ kprintf_lock' = "free"
    /\ said' = Append(said, Line("report", Len(frames)))
    /\ Goto("trace")
    /\ UNCHANGED <<running, flag, other, halted, peers>>

\* backtrace is given kpanic's argument, not the registers it has captured:
\* NULL is read through unless the panic came from an exception, and a frame
\* pointer that does not lead to a frame is followed as well.  The page fault
\* calls kpanic; its frame chain passes through the interrupted code.
BacktraceFaults ==
    /\ At("trace") /\ kprintf_lock = "free"
    /\ ~ Top.ctx \/ Top.chain = "bad"
    /\ Nest(Call(TRUE, IF Top.ctx THEN "bad" ELSE "ok"))
    /\ UNCHANGED <<said, kprintf_lock, running, flag, other, halted, peers>>

Backtrace ==
    /\ At("trace") /\ kprintf_lock = "free"
    /\ Top.ctx /\ Top.chain = "ok"
    /\ said' = Append(said, Line("backtrace", Len(frames)))
    /\ Goto("hcf")
    /\ UNCHANGED <<kprintf_lock, running, flag, other, halted, peers>>

Hcf ==
    /\ At("hcf")
    /\ halted' = TRUE /\ flag' = FALSE
    /\ UNCHANGED <<frames, said, kprintf_lock, running, other, peers>>

----------------------------------------------------------------------------
(***************************************************************************)
(* The CPU's processes                                                     *)
(***************************************************************************)
InterruptsOn == IF running = "main" THEN flag ELSE other = "user"

\* A timer interrupt: sched_tick gives the CPU to the next process.
Preempt ==
    /\ ~ halted /\ InterruptsOn /\ other # "absent"
    /\ running' = IF running = "main" THEN "other" ELSE "main"
    /\ UNCHANGED <<frames, said, kprintf_lock, flag, other, halted, peers>>

\* The other process enters sys_kping, with interrupts off ...
OtherLogs ==
    /\ ~ halted /\ running = "other" /\ other = "user"
    /\ other' = "log"
    /\ UNCHANGED <<frames, said, kprintf_lock, running, flag, halted, peers>>

\* ... and takes and releases the console.
OtherPrints ==
    /\ ~ halted /\ running = "other" /\ other = "log"
    /\ kprintf_lock = "free"
    /\ other' = "user"
    /\ UNCHANGED <<frames, said, kprintf_lock, running, flag, halted, peers>>

\* The other process makes the exit system call: sched_terminate calls
\* sched_tick, which spins on the lock its caller holds, interrupts off.
OtherExits ==
    /\ ~ halted /\ running = "other" /\ other = "user"
    /\ other' = "exit"
    /\ UNCHANGED <<frames, said, kprintf_lock, running, flag, halted, peers>>

----------------------------------------------------------------------------
(***************************************************************************)
(* The other CPUs                                                          *)
(***************************************************************************)
\* They take the die trap that some call has sent, and clear their flags.
PeersHalt ==
    /\ peers = "ready"
    /\ \E k \in DOMAIN frames : frames[k].at # "send"
    /\ peers' = "quiet"
    /\ UNCHANGED <<frames, said, kprintf_lock, running, flag, other, halted>>

\* One never will: a process of it has made the exit system call.
PeerExits ==
    /\ peers = "ready"
    /\ peers' = "stuck"
    /\ UNCHANGED <<frames, said, kprintf_lock, running, flag, other, halted>>

PanicStep ==
    \/ SendDie \/ SendDieEarly \/ OthersHalted \/ WaitPastEnd \/ PrintBegin \/ PrintEnd
    \/ BacktraceFaults \/ Backtrace \/ Hcf
=============================================================================
