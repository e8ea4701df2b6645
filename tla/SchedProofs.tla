---------------------------- MODULE SchedProofs ----------------------------
(***************************************************************************)
(* Proofs about Sched, for any number of CPUs and processes and tables of  *)
(* any size: the tables stay compact, counters and slices keep their       *)
(* range, the process named as current is the one that executes, and saved *)
(* contexts are not mixed up.                                              *)
(***************************************************************************)
EXTENDS Sched, TLAPS

\* sched->lock is held inside the search, and for ever by an exit.
LockInv == \A c \in CPU : lock[c] <=> pc[c] \in {"nested_tick", "scan", "none", "found"}

\* Control blocks in a table are not freed, and in no second slot.
OwnInv ==
    /\ \A c \in CPU : \A i \in Slot : procs[c][i] # NULL => Live(procs[c][i])
    /\ \A c, d \in CPU : \A i, j \in Slot :
         procs[c][i] = procs[d][j] /\ procs[c][i] # NULL => c = d /\ i = j

\* The first count slots are used; a search runs only over a table in use, and
\* what it has found is in the table.  After a panic in sched_spawn count says
\* nothing any more.
CountOK(c) ==
    pc[c] # "panic" =>
        /\ count[c] \in 0 .. MaxProcs
        /\ \A i \in Slot : procs[c][i] # NULL <=> i < count[c]
        /\ pc[c] = "scan" => count[c] > 0
        /\ pc[c] = "found" => procs[c][current_pid[c]] # NULL
CountInv == \A c \in CPU : CountOK(c)

\* A process in use has a full slice and its own context; one that was never
\* spawned has not executed.
PcbInv ==
    \A p \in Proc :
        /\ Live(p) => timeslice[p] = PROC_DEFAULT_TIME /\ ctx[p] = p
        /\ state[p] = "unused" => ~ stale[p]

\* A RUNNING process is the current one of its CPU and has its registers.
RunOK(c) ==
    \A i \in Slot :
        procs[c][i] # NULL /\ state[procs[c][i]] = "RUNNING" =>
            i = current_pid[c] /\ regs[c] = procs[c][i] /\ pc[c] \in {"run", "tick", "exit", "dead"}
RunInv == \A c \in CPU : RunOK(c)

\* What executes on a CPU was spawned there.
RegsInv ==
    \A c \in CPU : regs[c] # NULL =>
        /\ pc[c] # "boot" /\ state[regs[c]] # "unused"
        /\ \A d \in CPU : regs[d] = regs[c] \/ On(regs[c], d) => c = d

\* Where no process was terminated by another: only an exit leaves a terminated
\* process, what executes is current and RUNNING, and nothing that has executed
\* is left unsaved.
CalmOK(c) ==
    /\ \A i \in Slot : procs[c][i] # NULL /\ state[procs[c][i]] = "TERMINATED" => pc[c] = "nested_tick"
    /\ pc[c] \in {"run", "tick", "exit"} /\ regs[c] # NULL =>
         procs[c][current_pid[c]] = regs[c] /\ state[regs[c]] = "RUNNING"
    /\ \A i \in Slot : procs[c][i] # NULL /\ stale[procs[c][i]] =>
         procs[c][i] = regs[c] /\ pc[c] \notin {"scan", "none", "found"}
CalmInv == \A c \in CPU \ killed : CalmOK(c)

IInv ==
    /\ TypeOK /\ LockInv /\ OwnInv /\ CountInv /\ PcbInv /\ RunInv /\ RegsInv /\ CalmInv

----------------------------------------------------------------------------
\* The invariant holds after sched_init on every CPU.
LEMMA InitIInv == Init => IInv
<1> SUFFICES ASSUME Init PROVE IInv
  OBVIOUS
<1> USE SchedAssumption DEF Slot
<1>1. TypeOK
  BY DEF Init, TypeOK, PROC_DEFAULT_TIME
<1>2. LockInv /\ CountInv /\ PcbInv
  BY DEF Init, LockInv, CountInv, CountOK, PcbInv, Live
<1>3. OwnInv /\ RunInv /\ RegsInv /\ CalmInv
  BY DEF Init, OwnInv, RunInv, RunOK, RegsInv, CalmInv, CalmOK
<1> QED
  BY <1>1, <1>2, <1>3 DEF IInv

----------------------------------------------------------------------------
(***************************************************************************)
(* What a step leaves alone.                                               *)
(***************************************************************************)

\* A step of another CPU: the table, the registers and the place of CPU d and
\* the control blocks it uses are as before.
SameCpu(d) ==
    /\ procs'[d] = procs[d] /\ count'[d] = count[d] /\ current_pid'[d] = current_pid[d]
    /\ pc'[d] = pc[d] /\ regs'[d] = regs[d]
    /\ \A i \in Slot : procs[d][i] # NULL =>
         state'[procs[d][i]] = state[procs[d][i]] /\ stale'[procs[d][i]] = stale[procs[d][i]]
    /\ regs[d] # NULL => state'[regs[d]] = state[regs[d]]

\* The invariants of a CPU are kept by such a step.
LEMMA SameCpuKeeps ==
    ASSUME NEW d \in CPU, SameCpu(d)
    PROVE  /\ CountOK(d) => CountOK(d)'
           /\ RunOK(d) => RunOK(d)'
           /\ CalmOK(d) => CalmOK(d)'
<1>1. CountOK(d) => CountOK(d)'
  BY DEF SameCpu, CountOK
<1>2. RunOK(d) => RunOK(d)'
  BY DEF SameCpu, RunOK
<1>3. CalmOK(d) => CalmOK(d)'
  BY DEF SameCpu, CalmOK
<1> QED
  BY <1>1, <1>2, <1>3

\* So only the CPU that takes the step is left to be looked at.
LEMMA OneCpu ==
    ASSUME IInv, NEW c \in CPU, \A d \in CPU \ {c} : SameCpu(d), killed' = killed,
           CountOK(c)', RunOK(c)', c \notin killed => CalmOK(c)'
    PROVE  CountInv' /\ RunInv' /\ CalmInv'
  BY SameCpuKeeps DEF IInv, CountInv, RunInv, CalmInv

\* The tables stay disjoint while they are left alone and no process in use is freed.
LEMMA OwnFrame ==
    ASSUME TypeOK, OwnInv, procs' = procs, \A q \in Proc : Live(q) => Live(q)'
    PROVE  OwnInv'
<1>1. \A c \in CPU : \A i \in Slot : procs[c][i] # NULL => procs[c][i] \in Proc
  BY DEF TypeOK
<1>2. \A c \in CPU : \A i \in Slot : procs[c][i] # NULL => Live(procs[c][i])
  BY DEF OwnInv
<1>3. \A c \in CPU : \A i \in Slot : procs'[c][i] # NULL => state'[procs'[c][i]] \in {"READY", "RUNNING", "TERMINATED"}
  BY <1>1, <1>2 DEF Live
<1>4. \A c, d \in CPU : \A i, j \in Slot :
         procs'[c][i] = procs'[d][j] /\ procs'[c][i] # NULL => c = d /\ i = j
  BY DEF OwnInv
<1> QED
  BY <1>3, <1>4 DEF OwnInv, Live

LEMMA NextSlotIsSlot ==
    ASSUME TypeOK, NEW c \in CPU
    PROVE  NextSlot(c) \in Slot
<1>1. current_pid[c] \in Nat
  BY SchedAssumption DEF TypeOK, Slot
<1> QED
  BY <1>1, SchedAssumption DEF NextSlot, Slot

LEMMA PcbFrame ==
    ASSUME PcbInv, UNCHANGED <<timeslice, ctx, stale>>,
           \A q \in Proc : (Live(q)' => Live(q)) /\ (state'[q] = "unused" => state[q] = "unused")
    PROVE  PcbInv'
  BY DEF PcbInv, Live

\* What executes stays where it was spawned while the registers are left alone,
\* no CPU boots again and no control block is unused again.
LEMMA RegsFrame ==
    ASSUME TypeOK, RegsInv, UNCHANGED <<procs, regs>>,
           \A d \in CPU : pc'[d] = "boot" => pc[d] = "boot",
           \A q \in Proc : state'[q] = "unused" => state[q] = "unused"
    PROVE  RegsInv'
<1>1. \A d \in CPU : regs[d] # NULL => regs[d] \in Proc
  BY DEF TypeOK
<1> QED
  BY <1>1 DEF RegsInv, On

----------------------------------------------------------------------------
\* A refused spawn stops the CPU.
LEMMA SpawnRefusedKeeps ==
    ASSUME IInv, NEW c \in CPU, SpawnRefused(c)
    PROVE  IInv'
<1> USE SchedAssumption DEF Slot
<1>1. TypeOK'
  BY DEF IInv, TypeOK, SpawnRefused, tables, threads
<1>2. LockInv'
  BY DEF IInv, TypeOK, LockInv, SpawnRefused, tables, threads
<1>3. OwnInv'
  BY OwnFrame DEF IInv, Live, SpawnRefused, tables, threads
<1>4. CountInv'
  BY DEF IInv, TypeOK, CountInv, CountOK, SpawnRefused, tables, threads
<1>5. PcbInv'
  BY PcbFrame DEF IInv, Live, SpawnRefused, tables, threads
<1>6. RunInv'
  BY DEF IInv, TypeOK, RunInv, RunOK, SpawnRefused, tables, threads
<1>7. RegsInv'
  BY RegsFrame DEF IInv, TypeOK, SpawnRefused, tables, threads
<1>8. CalmInv'
  BY DEF IInv, TypeOK, CalmInv, CalmOK, SpawnRefused, tables, threads
<1> QED
  BY <1>1, <1>2, <1>3, <1>4, <1>5, <1>6, <1>7, <1>8 DEF IInv

\* The boot thread enables interrupts.
LEMMA EnableInterruptsKeeps ==
    ASSUME IInv, NEW c \in CPU, EnableInterrupts(c)
    PROVE  IInv'
<1> USE SchedAssumption DEF Slot
<1>1. TypeOK'
  BY DEF IInv, TypeOK, EnableInterrupts, tables, threads
<1>2. LockInv'
  BY DEF IInv, TypeOK, LockInv, EnableInterrupts, tables, threads
<1>3. OwnInv'
  BY OwnFrame DEF IInv, Live, EnableInterrupts, tables, threads
<1>4. CountInv'
  BY DEF IInv, TypeOK, CountInv, CountOK, EnableInterrupts, tables, threads
<1>5. PcbInv'
  BY PcbFrame DEF IInv, Live, EnableInterrupts, tables, threads
<1>6. RunInv'
  BY DEF IInv, TypeOK, RunInv, RunOK, EnableInterrupts, tables, threads
<1>7. RegsInv'
  BY RegsFrame DEF IInv, TypeOK, EnableInterrupts, tables, threads
<1>8. CalmInv'
  BY DEF IInv, TypeOK, CalmInv, CalmOK, RegsInv, EnableInterrupts, tables, threads
<1> QED
  BY <1>1, <1>2, <1>3, <1>4, <1>5, <1>6, <1>7, <1>8 DEF IInv

\* The die trap.
LEMMA DieKeeps ==
    ASSUME IInv, NEW c \in CPU, Die(c)
    PROVE  IInv'
<1> USE SchedAssumption DEF Slot
<1>1. TypeOK'
  BY DEF IInv, TypeOK, Die, tables, threads
<1>2. LockInv'
  BY DEF IInv, TypeOK, LockInv, Die, tables, threads
<1>3. OwnInv'
  BY OwnFrame DEF IInv, Live, Die, tables, threads
<1>4. CountInv'
  BY DEF IInv, TypeOK, CountInv, CountOK, Die, tables, threads
<1>5. PcbInv'
  BY PcbFrame DEF IInv, Live, Die, tables, threads
<1>6. RunInv'
  BY DEF IInv, TypeOK, RunInv, RunOK, Die, tables, threads
<1>7. RegsInv'
  BY RegsFrame DEF IInv, TypeOK, Die, tables, threads
<1>8. CalmInv'
  BY DEF IInv, TypeOK, CalmInv, CalmOK, Die, tables, threads
<1> QED
  BY <1>1, <1>2, <1>3, <1>4, <1>5, <1>6, <1>7, <1>8 DEF IInv

\* A system call with an unknown number.
LEMMA SyscallUnknownKeeps ==
    ASSUME IInv, NEW c \in CPU, SyscallUnknown(c)
    PROVE  IInv'
<1> USE SchedAssumption DEF Slot
<1>1. TypeOK'
  BY DEF IInv, TypeOK, SyscallUnknown, sched_get_current, tables, threads
<1>2. LockInv'
  BY DEF IInv, TypeOK, LockInv, SyscallUnknown, sched_get_current, tables, threads
<1>3. OwnInv'
  BY OwnFrame DEF IInv, Live, SyscallUnknown, sched_get_current, tables, threads
<1>4. CountInv'
  BY DEF IInv, TypeOK, CountInv, CountOK, SyscallUnknown, sched_get_current, tables, threads
<1>5. PcbInv'
  BY PcbFrame DEF IInv, Live, SyscallUnknown, sched_get_current, tables, threads
<1>6. RunInv'
  BY DEF IInv, TypeOK, RunInv, RunOK, SyscallUnknown, sched_get_current, tables, threads
<1>7. RegsInv'
  BY RegsFrame DEF IInv, TypeOK, SyscallUnknown, sched_get_current, tables, threads
<1>8. CalmInv'
  BY DEF IInv, TypeOK, CalmInv, CalmOK, SyscallUnknown, sched_get_current, tables, threads
<1> QED
  BY <1>1, <1>2, <1>3, <1>4, <1>5, <1>6, <1>7, <1>8 DEF IInv

\* proc_exit up to the call of sched_terminate.
LEMMA SyscallExitKeeps ==
    ASSUME IInv, NEW c \in CPU, SyscallExit(c)
    PROVE  IInv'
<1> USE SchedAssumption DEF Slot
<1>1. TypeOK'
  BY DEF IInv, TypeOK, SyscallExit, sched_get_current, tables, threads
<1>2. LockInv'
  BY DEF IInv, TypeOK, LockInv, SyscallExit, sched_get_current, tables, threads
<1>3. OwnInv'
  BY OwnFrame DEF IInv, Live, SyscallExit, sched_get_current, tables, threads
<1>4. CountInv'
  BY DEF IInv, TypeOK, CountInv, CountOK, SyscallExit, sched_get_current, tables, threads
<1>5. PcbInv'
  BY PcbFrame DEF IInv, Live, SyscallExit, sched_get_current, tables, threads
<1>6. RunInv'
  BY DEF IInv, TypeOK, RunInv, RunOK, SyscallExit, sched_get_current, tables, threads
<1>7. RegsInv'
  BY RegsFrame DEF IInv, TypeOK, SyscallExit, sched_get_current, tables, threads
<1>8. CalmInv'
  BY DEF IInv, TypeOK, CalmInv, CalmOK, SyscallExit, sched_get_current, tables, threads
<1> QED
  BY <1>1, <1>2, <1>3, <1>4, <1>5, <1>6, <1>7, <1>8 DEF IInv

\* The timer interrupt.
LEMMA TimerKeeps ==
    ASSUME IInv, NEW c \in CPU, Timer(c)
    PROVE  IInv'
<1> USE SchedAssumption DEF Slot
<1>1. TypeOK'
  BY DEF IInv, TypeOK, Timer, tables, threads
<1>2. LockInv'
  BY DEF IInv, TypeOK, LockInv, Timer, tables, threads
<1>3. OwnInv'
  BY OwnFrame DEF IInv, Live, Timer, tables, threads
<1>4. CountInv'
  BY DEF IInv, TypeOK, CountInv, CountOK, Timer, tables, threads
<1>5. PcbInv'
  BY PcbFrame DEF IInv, Live, Timer, tables, threads
<1>6. RunInv'
  BY DEF IInv, TypeOK, RunInv, RunOK, Timer, tables, threads
<1>7. RegsInv'
  BY RegsFrame DEF IInv, TypeOK, Timer, tables, threads
<1>8. CalmInv'
  BY DEF IInv, TypeOK, CalmInv, CalmOK, Timer, tables, threads
<1> QED
  BY <1>1, <1>2, <1>3, <1>4, <1>5, <1>6, <1>7, <1>8 DEF IInv

\* A tick on an empty table.
LEMMA TickEmptyKeeps ==
    ASSUME IInv, NEW c \in CPU, TickEmpty(c)
    PROVE  IInv'
<1> USE SchedAssumption DEF Slot
<1>1. TypeOK'
  BY DEF IInv, TypeOK, TickEmpty, tables, threads
<1>2. LockInv'
  BY DEF IInv, TypeOK, LockInv, TickEmpty, tables, threads
<1>3. OwnInv'
  BY OwnFrame DEF IInv, Live, TickEmpty, tables, threads
<1>4. CountInv'
  BY DEF IInv, TypeOK, CountInv, CountOK, TickEmpty, tables, threads
<1>5. PcbInv'
  BY PcbFrame DEF IInv, Live, TickEmpty, tables, threads
<1>6. RunInv'
  BY DEF IInv, TypeOK, RunInv, RunOK, TickEmpty, tables, threads
<1>7. RegsInv'
  BY RegsFrame DEF IInv, TypeOK, TickEmpty, tables, threads
<1>8. CalmInv'
  BY DEF IInv, TypeOK, CalmInv, CalmOK, TickEmpty, tables, threads
<1> QED
  BY <1>1, <1>2, <1>3, <1>4, <1>5, <1>6, <1>7, <1>8 DEF IInv

\* An empty slot in the search.
LEMMA ScanEmptyKeeps ==
    ASSUME IInv, NEW c \in CPU, ScanEmpty(c)
    PROVE  IInv'
<1> USE SchedAssumption DEF Slot
<1>1. TypeOK'
  BY NextSlotIsSlot DEF IInv, TypeOK, ScanEmpty, tables, threads
<1>2. LockInv'
  BY DEF IInv, TypeOK, LockInv, ScanEmpty, tables, threads
<1>3. OwnInv'
  BY OwnFrame DEF IInv, Live, ScanEmpty, tables, threads
<1>4. CountInv'
  BY DEF IInv, TypeOK, CountInv, CountOK, ScanEmpty, tables, threads
<1>5. PcbInv'
  BY PcbFrame DEF IInv, Live, ScanEmpty, tables, threads
<1>6. RunInv'
  BY DEF IInv, TypeOK, RunInv, RunOK, ScanEmpty, tables, threads
<1>7. RegsInv'
  BY RegsFrame DEF IInv, TypeOK, ScanEmpty, tables, threads
<1>8. CalmInv'
  BY DEF IInv, TypeOK, CalmInv, CalmOK, ScanEmpty, tables, threads
<1> QED
  BY <1>1, <1>2, <1>3, <1>4, <1>5, <1>6, <1>7, <1>8 DEF IInv

\* A live process in the search.
LEMMA ScanFoundKeeps ==
    ASSUME IInv, NEW c \in CPU, ScanFound(c)
    PROVE  IInv'
<1> USE SchedAssumption DEF Slot
<1>1. TypeOK'
  BY NextSlotIsSlot DEF IInv, TypeOK, ScanFound, tables, threads
<1>2. LockInv'
  BY DEF IInv, TypeOK, LockInv, ScanFound, tables, threads
<1>3. OwnInv'
  BY OwnFrame DEF IInv, Live, ScanFound, tables, threads
<1>4. CountInv'
  BY DEF IInv, TypeOK, CountInv, CountOK, ScanFound, tables, threads
<1>5. PcbInv'
  BY PcbFrame DEF IInv, Live, ScanFound, tables, threads
<1>6. RunInv'
  BY DEF IInv, TypeOK, RunInv, RunOK, ScanFound, tables, threads
<1>7. RegsInv'
  BY RegsFrame DEF IInv, TypeOK, ScanFound, tables, threads
<1>8. CalmInv'
  BY DEF IInv, TypeOK, CalmInv, CalmOK, ScanFound, tables, threads
<1> QED
  BY <1>1, <1>2, <1>3, <1>4, <1>5, <1>6, <1>7, <1>8 DEF IInv

\* The fallback to slot 0.
LEMMA ScanFallbackKeeps ==
    ASSUME IInv, NEW c \in CPU, ScanFallback(c)
    PROVE  IInv'
<1> USE SchedAssumption DEF Slot
<1>1. TypeOK'
  BY DEF IInv, TypeOK, ScanFallback, tables, threads
<1>2. LockInv'
  BY DEF IInv, TypeOK, LockInv, ScanFallback, tables, threads
<1>3. OwnInv'
  BY OwnFrame DEF IInv, Live, ScanFallback, tables, threads
<1>4. CountInv'
  BY DEF IInv, TypeOK, CountInv, CountOK, ScanFallback, tables, threads
<1>5. PcbInv'
  BY PcbFrame DEF IInv, Live, ScanFallback, tables, threads
<1>6. RunInv'
  BY DEF IInv, TypeOK, RunInv, RunOK, ScanFallback, tables, threads
<1>7. RegsInv'
  BY RegsFrame DEF IInv, TypeOK, ScanFallback, tables, threads
<1>8. CalmInv'
  BY DEF IInv, TypeOK, CalmInv, CalmOK, ScanFallback, tables, threads
<1> QED
  BY <1>1, <1>2, <1>3, <1>4, <1>5, <1>6, <1>7, <1>8 DEF IInv

\* The CPU halts.
LEMMA HaltKeeps ==
    ASSUME IInv, NEW c \in CPU, Halt(c)
    PROVE  IInv'
<1> USE SchedAssumption DEF Slot
<1>1. TypeOK'
  BY DEF IInv, TypeOK, Halt, tables, threads
<1>2. LockInv'
  BY DEF IInv, TypeOK, LockInv, Halt, tables, threads
<1>3. OwnInv'
  BY OwnFrame DEF IInv, Live, Halt, tables, threads
<1>4. CountInv'
  BY DEF IInv, TypeOK, CountInv, CountOK, Halt, tables, threads
<1>5. PcbInv'
  BY PcbFrame DEF IInv, Live, Halt, tables, threads
<1>6. RunInv'
  BY DEF IInv, TypeOK, RunInv, RunOK, Halt, tables, threads
<1>7. RegsInv'
  BY RegsFrame DEF IInv, TypeOK, Halt, tables, threads
<1>8. CalmInv'
  BY DEF IInv, TypeOK, CalmInv, CalmOK, Halt, tables, threads
<1> QED
  BY <1>1, <1>2, <1>3, <1>4, <1>5, <1>6, <1>7, <1>8 DEF IInv

\* A process executes: its saved context lags behind.
LEMMA WorkKeeps ==
    ASSUME IInv, NEW c \in CPU, Work(c)
    PROVE  IInv'
<1> USE SchedAssumption DEF Slot
<1> DEFINE r == regs[c]
<1>a. /\ r \in Proc /\ pc[c] = "run" /\ stale' = [stale EXCEPT ![r] = TRUE]
      /\ UNCHANGED <<procs, count, current_pid, lock, state, timeslice, ctx, errno, regs, pc, start_pid, ticking, killed>>
  BY DEF IInv, TypeOK, Work, tables
<1>b. \A q \in Proc : stale'[q] = IF q = r THEN TRUE ELSE stale[q]
  BY <1>a DEF IInv, TypeOK
<1>c. \A d \in CPU \ {c} : \A i \in Slot : procs[d][i] # r
  BY <1>a DEF IInv, RegsInv, On
<1>d. \A d \in CPU : \A i \in Slot : procs[d][i] # NULL => procs[d][i] \in Proc
  BY DEF IInv, TypeOK
<1>1. TypeOK'
  BY <1>a DEF IInv, TypeOK
<1>2. LockInv'
  BY <1>a DEF IInv, LockInv
<1>3. OwnInv'
  BY <1>a, OwnFrame DEF IInv, Live
<1>4. CountInv' /\ RunInv' /\ CalmInv'
  <2>1. \A d \in CPU \ {c} : SameCpu(d)
    BY <1>a, <1>b, <1>c, <1>d DEF SameCpu
  <2>2. CountOK(c)' /\ RunOK(c)'
    BY <1>a DEF IInv, CountInv, CountOK, RunInv, RunOK
  <2>3. c \notin killed => CalmOK(c)'
    BY <1>a, <1>b, <1>d DEF IInv, CalmInv, CalmOK
  <2> QED
    BY <1>a, <2>1, <2>2, <2>3, OneCpu
<1>5. PcbInv'
  <2>1. state[r] # "unused"
    BY <1>a DEF IInv, RegsInv
  <2> QED
    BY <1>a, <1>b, <2>1 DEF IInv, PcbInv, Live
<1>6. RegsInv'
  BY <1>a, RegsFrame DEF IInv
<1> QED
  BY <1>1, <1>2, <1>3, <1>4, <1>5, <1>6 DEF IInv

\* sched_spawn puts a fresh control block into the first free slot.
LEMMA SpawnKeeps ==
    ASSUME IInv, NEW c \in CPU, NEW p \in Proc, Spawn(c, p)
    PROVE  IInv'
<1> USE SchedAssumption DEF Slot
<1>a. /\ pc[c] = "boot" /\ ~ lock[c] /\ count[c] < MaxProcs /\ state[p] = "unused"
      /\ count' = [count EXCEPT ![c] = @ + 1] /\ procs' = [procs EXCEPT ![c][count[c]] = p]
      /\ state' = [state EXCEPT ![p] = "READY"] /\ ctx' = [ctx EXCEPT ![p] = p]
      /\ timeslice' = [timeslice EXCEPT ![p] = PROC_DEFAULT_TIME]
      /\ UNCHANGED <<current_pid, lock, errno, regs, stale, pc, start_pid, ticking, killed>>
  BY DEF Spawn, NextPid
<1>b. count[c] \in Slot /\ \A i \in Slot : procs[c][i] # NULL <=> i < count[c]
  BY <1>a DEF IInv, CountInv, CountOK
<1>c. \A i \in Slot : procs'[c][i] = IF i = count[c] THEN p ELSE procs[c][i]
  BY <1>a, <1>b DEF IInv, TypeOK
<1>d. \A d \in CPU \ {c} : procs'[d] = procs[d] /\ count'[d] = count[d]
  BY <1>a DEF IInv, TypeOK
<1>e. \A q \in Proc : state'[q] = IF q = p THEN "READY" ELSE state[q]
  BY <1>a DEF IInv, TypeOK
<1>f. \A d \in CPU : \A i \in Slot : procs[d][i] # NULL => procs[d][i] \in Proc /\ procs[d][i] # p
  <2>1. \A d \in CPU : \A i \in Slot : procs[d][i] # NULL => procs[d][i] \in Proc
    BY DEF IInv, TypeOK
  <2>2. \A d \in CPU : \A i \in Slot : procs[d][i] # NULL => Live(procs[d][i])
    BY DEF IInv, OwnInv
  <2> QED
    BY <1>a, <2>1, <2>2 DEF Live
<1>g. \A d \in CPU : regs[d] # p /\ (regs[d] # NULL => regs[d] \in Proc)
  BY <1>a DEF IInv, TypeOK, RegsInv
<1>h. p # NULL
  OBVIOUS
<1>1. TypeOK'
  <2>1. procs' \in [CPU -> [Slot -> Proc \cup {NULL}]]
    BY <1>a DEF IInv, TypeOK
  <2>2. count' \in [CPU -> 0 .. Mod32 - 1]
    BY <1>a, <1>b DEF IInv, TypeOK
  <2>3. state' \in [Proc -> {"unused", "READY", "RUNNING", "TERMINATED", "freed"}]
    BY <1>a DEF IInv, TypeOK
  <2>4. timeslice' \in [Proc -> 0 .. PROC_DEFAULT_TIME] /\ ctx' \in [Proc -> Proc \cup {NULL}]
    BY <1>a DEF IInv, TypeOK, PROC_DEFAULT_TIME
  <2> QED
    BY <1>a, <2>1, <2>2, <2>3, <2>4 DEF IInv, TypeOK
<1>2. LockInv'
  BY <1>a DEF IInv, LockInv
<1>3. OwnInv'
  <2>1. ASSUME NEW d \in CPU, NEW i \in Slot, procs'[d][i] # NULL
        PROVE  \/ d = c /\ i = count[c] /\ procs'[d][i] = p
               \/ procs'[d][i] = procs[d][i] /\ procs[d][i] # p /\ procs[d][i] \in Proc
    BY <2>1, <1>c, <1>d, <1>f
  <2>2. ASSUME NEW d \in CPU, NEW i \in Slot, procs'[d][i] # NULL
        PROVE  state'[procs'[d][i]] \in {"READY", "RUNNING", "TERMINATED"}
    <3>1. procs[d][i] # NULL => Live(procs[d][i])
      BY DEF IInv, OwnInv
    <3> QED
      BY <2>1, <2>2, <3>1, <1>e DEF Live
  <2>3. \A d, e \in CPU : \A i, j \in Slot :
          procs'[d][i] = procs'[e][j] /\ procs'[d][i] # NULL => d = e /\ i = j
    BY <2>1 DEF IInv, OwnInv
  <2> QED
    BY <2>2, <2>3 DEF OwnInv, Live
<1>4. CountInv' /\ RunInv' /\ CalmInv'
  <2>1. \A d \in CPU \ {c} : SameCpu(d)
    BY <1>a, <1>d, <1>e, <1>f, <1>g DEF SameCpu
  <2>2. CountOK(c)'
    <3>1. count'[c] = count[c] + 1 /\ pc'[c] = "boot"
      BY <1>a DEF IInv, TypeOK
    <3>2. \A i \in Slot : procs'[c][i] # NULL <=> i < count'[c]
      BY <3>1, <1>b, <1>c, <1>h
    <3> QED
      BY <3>1, <3>2, <1>b DEF CountOK
  <2>3. RunOK(c)'
    BY <1>a, <1>c, <1>e, <1>f DEF IInv, RunInv, RunOK
  <2>4. c \notin killed => CalmOK(c)'
    <3>1. regs[c] = NULL
      BY <1>a DEF IInv, RegsInv
    <3>2. ~ stale[p] 
      BY <1>a DEF IInv, PcbInv
    <3> QED
      BY <3>1, <3>2, <1>a, <1>c, <1>e, <1>f DEF IInv, CalmInv, CalmOK
  <2> QED
    BY <1>a, <2>1, <2>2, <2>3, <2>4, OneCpu
<1>5. PcbInv'
  BY <1>a, <1>e DEF IInv, TypeOK, PcbInv, Live
<1>6. RegsInv'
  <2>1. \A d, e \in CPU : \A i \in Slot : procs'[e][i] = regs[d] /\ regs[d] # NULL => procs[e][i] = regs[d]
    BY <1>c, <1>d, <1>g
  <2>2. \A d \in CPU : regs[d] # NULL => state'[regs[d]] # "unused"
    BY <1>e, <1>g DEF IInv, RegsInv
  <2> QED
    BY <1>a, <2>1, <2>2 DEF IInv, RegsInv, On
<1> QED
  BY <1>1, <1>2, <1>3, <1>4, <1>5, <1>6 DEF IInv

\* A failed spawn stops the CPU with a count that may have wrapped around.
LEMMA SpawnNoStackKeeps ==
    ASSUME IInv, NEW c \in CPU, NEW p \in Proc, SpawnNoStack(c, p)
    PROVE  IInv'
<1> USE SchedAssumption DEF Slot
<1>a. /\ pc[c] = "boot" /\ ~ lock[c] /\ state[p] = "unused" /\ pc' = [pc EXCEPT ![c] = "panic"]
      /\ count' = [count EXCEPT ![c] = (@ - 1) % Mod32] /\ state' = [state EXCEPT ![p] = "freed"]
      /\ UNCHANGED <<procs, current_pid, lock, timeslice, ctx, errno, regs, stale, start_pid, ticking, killed>>
  BY DEF SpawnNoStack, NextPid, threads
<1>b. pc'[c] = "panic" /\ \A d \in CPU \ {c} : pc'[d] = pc[d] /\ count'[d] = count[d]
  BY <1>a DEF IInv, TypeOK
<1>e. \A q \in Proc : state'[q] = IF q = p THEN "freed" ELSE state[q]
  BY <1>a DEF IInv, TypeOK
<1>f. \A d \in CPU : \A i \in Slot : procs[d][i] # NULL => procs[d][i] \in Proc /\ procs[d][i] # p
  <2>1. \A d \in CPU : \A i \in Slot : procs[d][i] # NULL => procs[d][i] \in Proc
    BY DEF IInv, TypeOK
  <2>2. \A d \in CPU : \A i \in Slot : procs[d][i] # NULL => Live(procs[d][i])
    BY DEF IInv, OwnInv
  <2> QED
    BY <1>a, <2>1, <2>2 DEF Live
<1>g. \A d \in CPU : regs[d] # p /\ (regs[d] # NULL => regs[d] \in Proc)
  BY <1>a DEF IInv, TypeOK, RegsInv
<1>1. TypeOK'
  <2>1. (count[c] - 1) % Mod32 \in 0 .. Mod32 - 1
    BY DEF IInv, TypeOK
  <2>2. count' \in [CPU -> 0 .. Mod32 - 1]
    BY <1>a, <2>1 DEF IInv, TypeOK
  <2>3. state' \in [Proc -> {"unused", "READY", "RUNNING", "TERMINATED", "freed"}]
    BY <1>a DEF IInv, TypeOK
  <2> QED
    BY <1>a, <2>2, <2>3 DEF IInv, TypeOK
<1>2. LockInv'
  BY <1>a, <1>b DEF IInv, LockInv
<1>3. OwnInv'
  BY <1>a, <1>e, OwnFrame DEF IInv, Live
<1>4. CountInv' /\ RunInv' /\ CalmInv'
  <2>1. \A d \in CPU \ {c} : SameCpu(d)
    BY <1>a, <1>b, <1>e, <1>f, <1>g DEF SameCpu
  <2>2. CountOK(c)'
    BY <1>b DEF CountOK
  <2>3. RunOK(c)'
    BY <1>a, <1>e, <1>f DEF IInv, RunInv, RunOK
  <2>4. c \notin killed => CalmOK(c)'
    BY <1>a, <1>b, <1>e, <1>f DEF IInv, CalmInv, CalmOK
  <2> QED
    BY <1>a, <2>1, <2>2, <2>3, <2>4, OneCpu
<1>5. PcbInv'
  BY <1>a, <1>e DEF IInv, PcbInv, Live
<1>6. RegsInv'
  BY <1>a, <1>b, <1>e, RegsFrame DEF IInv
<1> QED
  BY <1>1, <1>2, <1>3, <1>4, <1>5, <1>6 DEF IInv

\* An exiting process is marked and its CPU keeps the lock.
LEMMA TerminateSelfKeeps ==
    ASSUME IInv, NEW c \in CPU, TerminateSelf(c)
    PROVE  IInv'
<1> USE SchedAssumption DEF Slot
<1> DEFINE p == procs[c][current_pid[c]]
<1>a. /\ pc[c] = "exit" /\ lock' = [lock EXCEPT ![c] = TRUE] /\ state' = [state EXCEPT ![p] = "TERMINATED"]
      /\ pc' = [pc EXCEPT ![c] = "nested_tick"]
      /\ UNCHANGED <<procs, count, current_pid, timeslice, ctx, errno, regs, stale, start_pid, ticking, killed>>
  BY DEF TerminateSelf, tables, threads
<1>b. pc'[c] = "nested_tick" /\ \A d \in CPU \ {c} : pc'[d] = pc[d]
  BY <1>a DEF IInv, TypeOK
<1>c. p # NULL => p \in Proc /\ Live(p)
  BY DEF IInv, TypeOK, OwnInv
<1>e. \A q \in Proc : state'[q] = IF q = p THEN "TERMINATED" ELSE state[q]
  BY <1>a DEF IInv, TypeOK
<1>f. \A d \in CPU \ {c} : \A i \in Slot : procs[d][i] # NULL => procs[d][i] \in Proc /\ procs[d][i] # p
  BY DEF IInv, TypeOK, OwnInv
<1>g. \A d \in CPU \ {c} : regs[d] # NULL => regs[d] \in Proc /\ regs[d] # p
  BY DEF IInv, TypeOK, RegsInv, On
<1>h. \A i \in Slot : procs[c][i] # NULL => procs[c][i] \in Proc
  BY DEF IInv, TypeOK
<1>i. \A q \in Proc : q = p => Live(q)
  BY <1>c
<1>1. TypeOK'
  BY <1>a DEF IInv, TypeOK
<1>2. LockInv'
  BY <1>a DEF IInv, TypeOK, LockInv
<1>3. OwnInv'
  BY <1>a, <1>e, OwnFrame DEF IInv, Live
<1>4. CountInv' /\ RunInv' /\ CalmInv'
  <2>1. \A d \in CPU \ {c} : SameCpu(d)
    BY <1>a, <1>b, <1>e, <1>f, <1>g DEF SameCpu
  <2>2. CountOK(c)'
    BY <1>a, <1>b DEF IInv, CountInv, CountOK
  <2>3. RunOK(c)'
    <3>1. \A i \in Slot : procs[c][i] # NULL /\ state[procs[c][i]] = "RUNNING" => i = current_pid[c]
      BY DEF IInv, RunInv, RunOK
    <3>2. ASSUME NEW i \in Slot, procs[c][i] # NULL PROVE state'[procs[c][i]] # "RUNNING"
      <4>1. CASE i = current_pid[c]
        BY <3>2, <4>1, <1>e, <1>h
      <4>2. CASE i # current_pid[c]
        BY <3>1, <3>2, <4>2, <1>e, <1>h
      <4> QED
        BY <4>1, <4>2
    <3> QED
      BY <3>2, <1>a DEF RunOK
  <2>4. c \notin killed => CalmOK(c)'
    BY <1>a, <1>b, <1>e, <1>h DEF IInv, CalmInv, CalmOK
  <2> QED
    BY <1>a, <2>1, <2>2, <2>3, <2>4, OneCpu
<1>5. PcbInv'
  BY <1>a, <1>e, <1>i DEF IInv, PcbInv, Live
<1>6. RegsInv'
  BY <1>a, <1>b, <1>e, RegsFrame DEF IInv
<1> QED
  BY <1>1, <1>2, <1>3, <1>4, <1>5, <1>6 DEF IInv

\* A process marks another one of its CPU.
LEMMA TerminateKeeps ==
    ASSUME IInv, NEW c \in CPU, NEW k \in Slot, Terminate(c, k)
    PROVE  IInv'
<1> USE SchedAssumption DEF Slot
<1> DEFINE p == procs[c][k]
<1>a. /\ p \in Proc /\ pc[c] = "run" /\ state' = [state EXCEPT ![p] = "TERMINATED"] /\ killed' = killed \cup {c}
      /\ UNCHANGED <<procs, count, current_pid, lock, timeslice, ctx, errno, regs, stale, pc, start_pid, ticking>>
  BY DEF Terminate, tables, threads
<1>c. p # NULL /\ Live(p)
  BY <1>a DEF IInv, OwnInv
<1>e. \A q \in Proc : state'[q] = IF q = p THEN "TERMINATED" ELSE state[q]
  BY <1>a DEF IInv, TypeOK
<1>f. \A d \in CPU \ {c} : \A i \in Slot : procs[d][i] # NULL => procs[d][i] \in Proc /\ procs[d][i] # p
  BY <1>c DEF IInv, TypeOK, OwnInv
<1>g. \A d \in CPU \ {c} : regs[d] # NULL => regs[d] \in Proc /\ regs[d] # p
  BY <1>c DEF IInv, TypeOK, RegsInv, On
<1>h. \A i \in Slot : procs[c][i] # NULL => procs[c][i] \in Proc
  BY DEF IInv, TypeOK
<1>1. TypeOK'
  BY <1>a DEF IInv, TypeOK
<1>2. LockInv'
  BY <1>a DEF IInv, LockInv
<1>3. OwnInv'
  BY <1>a, <1>e, OwnFrame DEF IInv, Live
<1>4. CountInv' /\ RunInv' /\ CalmInv'
  <2>1. \A d \in CPU \ {c} : SameCpu(d)
    BY <1>a, <1>e, <1>f, <1>g DEF SameCpu
  <2>2. CountOK(c)'
    BY <1>a DEF IInv, CountInv, CountOK
  <2>3. RunOK(c)'
    BY <1>a, <1>e, <1>h DEF IInv, RunInv, RunOK
  <2> QED
    BY <1>a, <2>1, <2>2, <2>3, SameCpuKeeps DEF IInv, CountInv, RunInv, CalmInv
<1>5. PcbInv'
  <2>1. \A q \in Proc : (Live(q)' => Live(q)) /\ (state'[q] = "unused" => state[q] = "unused")
    BY <1>c, <1>e DEF Live
  <2> QED
    BY <1>a, <2>1, PcbFrame DEF IInv
<1>6. RegsInv'
  BY <1>a, <1>e, RegsFrame DEF IInv
<1> QED
  BY <1>1, <1>2, <1>3, <1>4, <1>5, <1>6 DEF IInv

\* A tick saves the process that was interrupted.
LEMMA TickSaveKeeps ==
    ASSUME IInv, NEW c \in CPU, TickSave(c)
    PROVE  IInv'
<1> USE SchedAssumption DEF Slot
<1> DEFINE p == procs[c][current_pid[c]]
           saves == p # NULL /\ state[p] = "RUNNING"
<1>a. /\ pc[c] = "tick" /\ ~ lock[c] /\ count[c] > 0 /\ lock' = [lock EXCEPT ![c] = TRUE]
      /\ start_pid' = [start_pid EXCEPT ![c] = current_pid[c]] /\ pc' = [pc EXCEPT ![c] = "scan"]
      /\ UNCHANGED <<procs, count, current_pid, errno, regs, ticking, killed>>
  BY DEF IInv, LockInv, TickSave, tables
<1>b. ~ saves => UNCHANGED <<ctx, stale, timeslice, state>>
  BY DEF TickSave
<1>c. saves => /\ p \in Proc /\ regs[c] = p /\ ctx' = ctx /\ timeslice' = timeslice
               /\ stale' = [stale EXCEPT ![p] = FALSE] /\ state' = [state EXCEPT ![p] = "READY"]
  <2> SUFFICES ASSUME saves PROVE p \in Proc /\ regs[c] = p /\ ctx' = ctx /\ timeslice' = timeslice
               /\ stale' = [stale EXCEPT ![p] = FALSE] /\ state' = [state EXCEPT ![p] = "READY"]
    OBVIOUS
  <2>1. p \in Proc /\ regs[c] = p
    BY DEF IInv, TypeOK, RunInv, RunOK
  <2>2. timeslice[p] = 1 /\ ctx[p] = p
    BY <2>1 DEF IInv, PcbInv, Live, PROC_DEFAULT_TIME
  <2>3. ctx' = [ctx EXCEPT ![p] = regs[c]] /\ stale' = [stale EXCEPT ![p] = FALSE]
    BY DEF TickSave
  <2>4. /\ timeslice' = [timeslice EXCEPT ![p] = IF @ = 1 THEN PROC_DEFAULT_TIME ELSE @ - 1]
        /\ state' = [state EXCEPT ![p] = IF timeslice[p] = 1 THEN "READY" ELSE @]
    BY DEF TickSave
  <2> QED
    BY <2>1, <2>2, <2>3, <2>4 DEF IInv, TypeOK, PROC_DEFAULT_TIME
<1>d. pc'[c] = "scan" /\ \A d \in CPU \ {c} : pc'[d] = pc[d]
  BY <1>a DEF IInv, TypeOK
<1>e. \A q \in Proc : /\ state'[q] = IF saves /\ q = p THEN "READY" ELSE state[q]
                      /\ stale'[q] = IF saves /\ q = p THEN FALSE ELSE stale[q]
  BY <1>b, <1>c DEF IInv, TypeOK
<1>f. \A d \in CPU \ {c} : \A i \in Slot : procs[d][i] # NULL => procs[d][i] \in Proc /\ procs[d][i] # p
  BY DEF IInv, TypeOK, OwnInv
<1>g. \A d \in CPU \ {c} : regs[d] # NULL => regs[d] \in Proc /\ regs[d] # p
  BY DEF IInv, TypeOK, RegsInv, On
<1>h. current_pid[c] \in Slot /\ \A i \in Slot : procs[c][i] # NULL => procs[c][i] \in Proc
  BY DEF IInv, TypeOK
<1>1. TypeOK'
  <2>1. start_pid' \in [CPU -> Slot] /\ lock' \in [CPU -> BOOLEAN]
    BY <1>a, <1>h DEF IInv, TypeOK
  <2>2. state' \in [Proc -> {"unused", "READY", "RUNNING", "TERMINATED", "freed"}] /\ stale' \in [Proc -> BOOLEAN]
    BY <1>b, <1>c DEF IInv, TypeOK
  <2>3. ctx' = ctx /\ timeslice' = timeslice
    BY <1>b, <1>c
  <2> QED
    BY <1>a, <2>1, <2>2, <2>3 DEF IInv, TypeOK
<1>2. LockInv'
  BY <1>a DEF IInv, TypeOK, LockInv
<1>3. OwnInv'
  BY <1>a, <1>e, OwnFrame DEF IInv, Live
<1>4. CountInv' /\ RunInv' /\ CalmInv'
  <2>1. \A d \in CPU \ {c} : SameCpu(d)
    <3>1. \A d \in CPU \ {c} : \A i \in Slot : procs[d][i] # NULL => state'[procs[d][i]] = state[procs[d][i]]
      BY <1>e, <1>f
    <3>2. \A d \in CPU \ {c} : \A i \in Slot : procs[d][i] # NULL => stale'[procs[d][i]] = stale[procs[d][i]]
      BY <1>e, <1>f
    <3>3. \A d \in CPU \ {c} : regs[d] # NULL => state'[regs[d]] = state[regs[d]]
      BY <1>e, <1>g
    <3> HIDE DEF p, saves
    <3> QED
      BY <3>1, <3>2, <3>3, <1>a, <1>d DEF SameCpu
  <2>2. CountOK(c)'
    BY <1>a, <1>d DEF IInv, CountInv, CountOK
  <2>3. RunOK(c)'
    <3>1. \A i \in Slot : procs[c][i] # NULL /\ state[procs[c][i]] = "RUNNING" => i = current_pid[c]
      BY DEF IInv, RunInv, RunOK
    <3>2. ASSUME NEW i \in Slot, procs[c][i] # NULL PROVE state'[procs[c][i]] # "RUNNING"
      <4>1. CASE i = current_pid[c]
        BY <3>2, <4>1, <1>e, <1>h
      <4>2. CASE i # current_pid[c]
        BY <3>1, <3>2, <4>2, <1>e, <1>h
      <4> QED
        BY <4>1, <4>2
    <3> QED
      BY <3>2, <1>a DEF RunOK
  <2>4. c \notin killed => CalmOK(c)'
    <3> SUFFICES ASSUME c \notin killed PROVE CalmOK(c)'
      OBVIOUS
    <3>1. CalmOK(c)
      BY DEF IInv, CalmInv
    <3>2. \A i \in Slot : procs[c][i] # NULL => state[procs[c][i]] # "TERMINATED"
      BY <3>1, <1>a DEF CalmOK
    <3>3. \A i \in Slot : procs[c][i] # NULL => ~ stale'[procs[c][i]]
      BY <3>1, <1>a, <1>c, <1>e, <1>h DEF CalmOK
    <3> QED
      BY <3>2, <3>3, <1>a, <1>d, <1>e, <1>h DEF CalmOK
  <2> QED
    BY <1>a, <2>1, <2>2, <2>3, <2>4, OneCpu
<1>5. PcbInv'
  BY <1>b, <1>c, <1>e DEF IInv, PcbInv, Live
<1>6. RegsInv'
  BY <1>a, <1>d, <1>e, RegsFrame DEF IInv
<1> QED
  BY <1>1, <1>2, <1>3, <1>4, <1>5, <1>6 DEF IInv

\* A terminated process is removed and the slots after it move down.
LEMMA ScanReapKeeps ==
    ASSUME IInv, NEW c \in CPU, ScanReap(c)
    PROVE  IInv'
<1> USE SchedAssumption DEF Slot
<1> DEFINE n == NextSlot(c)
           v == procs[c][n]
<1>a. n \in Slot
  BY NextSlotIsSlot DEF IInv
<1>b. /\ pc[c] = "scan" /\ v # NULL /\ v \in Proc /\ state[v] = "TERMINATED"
      /\ current_pid' = [current_pid EXCEPT ![c] = n] /\ state' = [state EXCEPT ![v] = "freed"]
      /\ procs' = Shift(c, n) /\ count' = [count EXCEPT ![c] = @ - 1]
      /\ UNCHANGED <<lock, timeslice, ctx, errno, regs, stale, start_pid, ticking, killed>>
  <2>1. v \in Proc \cup {NULL}
    BY <1>a DEF IInv, TypeOK
  <2> QED
    BY <2>1 DEF ScanReap, threads
<1>c. count[c] \in 1 .. MaxProcs /\ n < count[c] /\ \A i \in Slot : procs[c][i] # NULL <=> i < count[c]
  BY <1>a, <1>b DEF IInv, CountInv, CountOK
<1>d. /\ pc'[c] \in {"scan", "none"} /\ (pc'[c] = "scan" => count[c] > 1)
      /\ \A d \in CPU \ {c} : pc'[d] = pc[d] /\ count'[d] = count[d] /\ current_pid'[d] = current_pid[d]
      /\ count'[c] = count[c] - 1 /\ pc' \in [CPU -> {"boot", "run", "dead", "panic", "halted", "exit", "nested_tick",
                       "tick", "scan", "none", "found"}]
  <2>1. pc' = [pc EXCEPT ![c] = IF SearchOn(c) /\ count[c] - 1 > 0 THEN "scan" ELSE "none"]
    BY DEF ScanReap
  <2> QED
    BY <2>1, <1>b, <1>c DEF IInv, TypeOK
<1>e. procs' = [procs EXCEPT ![c] = procs'[c]]
  BY <1>b DEF IInv, TypeOK, Shift
<1>k. /\ DOMAIN procs'[c] = Slot
      /\ procs'[c] = [j \in Slot |-> procs'[c][j]]
      /\ \A i \in Slot : procs'[c][i] = IF i < n \/ i >= count[c] THEN procs[c][i]
                                        ELSE IF i < count[c] - 1 THEN procs[c][i + 1] ELSE NULL
  <2> DEFINE moved == [j \in Slot |-> CASE j < n \/ j >= count[c] -> procs[c][j]
                                        [] j >= n /\ j < count[c] - 1 -> procs[c][j + 1]
                                        [] j = count[c] - 1 -> NULL]
  <2>1. procs'[c] = moved
    BY <1>b DEF IInv, TypeOK, Shift
  <2>2. ASSUME NEW i \in Slot
        PROVE  moved[i] = IF i < n \/ i >= count[c] THEN procs[c][i]
                          ELSE IF i < count[c] - 1 THEN procs[c][i + 1] ELSE NULL
    <3>1. i \in Nat /\ n \in Nat /\ count[c] \in Nat
      BY <1>a, <1>c
    <3>2. CASE i < n \/ i >= count[c]
      BY <3>1, <3>2, <1>c
    <3>3. CASE ~ (i < n \/ i >= count[c]) /\ i < count[c] - 1
      BY <3>1, <3>3, <1>c
    <3>4. CASE ~ (i < n \/ i >= count[c]) /\ ~ (i < count[c] - 1)
      BY <3>1, <3>4, <1>c
    <3> QED
      BY <3>2, <3>3, <3>4
  <2> QED
    BY <2>1, <2>2
<1>f. \A q \in Proc : state'[q] = IF q = v THEN "freed" ELSE state[q]
  BY <1>b DEF IInv, TypeOK
<1>g. \A d \in CPU : \A i \in Slot : procs[d][i] # NULL => procs[d][i] \in Proc
  BY DEF IInv, TypeOK
<1>h. \A d, e \in CPU : \A i, j \in Slot :
        procs[d][i] = procs[e][j] /\ procs[d][i] # NULL => d = e /\ i = j
  BY DEF IInv, OwnInv
<1>n. n \in Nat /\ count[c] \in Nat /\ n < count[c] /\ count[c] <= MaxProcs /\ \A i \in Slot : i \in Nat
  BY <1>a, <1>c
<1>i. \A i \in Slot : procs'[c][i] # NULL =>
        \E j \in Slot : j # n /\ j = (IF i < n THEN i ELSE i + 1) /\ procs'[c][i] = procs[c][j]
  <2> SUFFICES ASSUME NEW i \in Slot, procs'[c][i] # NULL
               PROVE  \E j \in Slot : j # n /\ j = (IF i < n THEN i ELSE i + 1) /\ procs'[c][i] = procs[c][j]
    OBVIOUS
  <2> HIDE DEF n
  <2>1. CASE i < n
    BY <2>1, <1>k, <1>n
  <2>2. CASE i >= n
    <3>1. i < count[c]
      BY <2>2, <1>c, <1>k, <1>n
    <3>2. i < count[c] - 1 /\ procs'[c][i] = procs[c][i + 1]
      BY <2>2, <3>1, <1>k, <1>n
    <3> QED
      BY <2>2, <3>2, <1>n
  <2> QED
    BY <2>1, <2>2, <1>n
<1>l. \A d \in CPU \ {c} : procs'[d] = procs[d]
  BY <1>e DEF IInv, TypeOK
<1>j. \A d \in CPU : \A i \in Slot : procs'[d][i] # NULL =>
        procs'[d][i] # v /\ procs'[d][i] \in Proc /\ \E j \in Slot : procs'[d][i] = procs[d][j]
  <2> SUFFICES ASSUME NEW d \in CPU, NEW i \in Slot, procs'[d][i] # NULL
               PROVE  procs'[d][i] # v /\ procs'[d][i] \in Proc /\ \E j \in Slot : procs'[d][i] = procs[d][j]
    OBVIOUS
  <2>1. CASE d = c
    <3>1. PICK j \in Slot : j # n /\ procs'[c][i] = procs[c][j]
      BY <1>i, <2>1
    <3> QED
      BY <3>1, <2>1, <1>a, <1>g, <1>h
  <2>2. CASE d # c
    <3>1. procs'[d][i] = procs[d][i]
      BY <1>l, <2>2
    <3>2. procs[d][i] # v
      BY <1>a, <1>b, <1>h, <2>2
    <3> QED
      BY <3>1, <3>2, <1>g
  <2> QED
    BY <2>1, <2>2
<1>1. TypeOK'
  <2>1. procs'[c] \in [Slot -> Proc \cup {NULL}]
    <3>1. \A i \in Slot : procs'[c][i] \in Proc \cup {NULL}
      BY <1>j
    <3> QED
      BY <1>k, <3>1
  <2>2. procs' \in [CPU -> [Slot -> Proc \cup {NULL}]]
    BY <2>1, <1>e DEF IInv, TypeOK
  <2>3. count' \in [CPU -> 0 .. Mod32 - 1]
    BY <1>b, <1>c DEF IInv, TypeOK
  <2>4. current_pid' \in [CPU -> Slot]
    BY <1>a, <1>b DEF IInv, TypeOK
  <2>5. state' \in [Proc -> {"unused", "READY", "RUNNING", "TERMINATED", "freed"}]
    BY <1>b DEF IInv, TypeOK
  <2> QED
    BY <1>b, <1>d, <2>2, <2>3, <2>4, <2>5 DEF IInv, TypeOK
<1>2. LockInv'
  BY <1>b, <1>d DEF IInv, LockInv
<1>3. OwnInv'
  <2>1. ASSUME NEW d \in CPU, NEW i \in Slot, procs'[d][i] # NULL
        PROVE  state'[procs'[d][i]] \in {"READY", "RUNNING", "TERMINATED"}
    <3>1. PICK j \in Slot : procs'[d][i] = procs[d][j] /\ procs[d][j] # v /\ procs[d][j] \in Proc
      BY <2>1, <1>j
    <3>2. Live(procs[d][j])
      BY <3>1, <2>1 DEF IInv, OwnInv
    <3> QED
      BY <3>1, <3>2, <1>f DEF Live
  <2>2. ASSUME NEW d \in CPU, NEW e \in CPU, NEW i \in Slot, NEW j \in Slot,
               procs'[d][i] = procs'[e][j], procs'[d][i] # NULL
        PROVE  d = e /\ i = j
    <3>1. d = e
      BY <1>h, <1>j, <2>2
    <3>2. CASE d = c
      BY <2>2, <3>1, <3>2, <1>a, <1>h, <1>i
    <3>3. CASE d # c
      BY <2>2, <3>1, <3>3, <1>l, <1>h
    <3> QED
      BY <3>1, <3>2, <3>3
  <2> QED
    BY <2>1, <2>2 DEF OwnInv, Live
<1>m. \A d \in CPU \ {c} : regs[d] # NULL => regs[d] \in Proc /\ regs[d] # v
  BY <1>a, <1>b DEF IInv, TypeOK, RegsInv, On
<1>4. CountInv' /\ RunInv' /\ CalmInv'
  <2>1. \A d \in CPU \ {c} : SameCpu(d)
    <3>1. \A d \in CPU \ {c} : \A i \in Slot : procs[d][i] # NULL => procs[d][i] \in Proc /\ procs[d][i] # v
      BY <1>a, <1>b, <1>g, <1>h
    <3> QED
      BY <3>1, <1>b, <1>d, <1>f, <1>l, <1>m DEF SameCpu
  <2>2. CountOK(c)'
    <3>1. ASSUME NEW i \in Slot PROVE procs'[c][i] # NULL <=> i < count[c] - 1
      <4> HIDE DEF n
      <4>1. CASE i < n
        <5>1. procs'[c][i] = procs[c][i]
          BY <4>1, <1>k
        <5>2. i < count[c] /\ i < count[c] - 1
          BY <4>1, <1>n
        <5> QED
          BY <5>1, <5>2, <1>c
      <4>2. CASE i >= count[c]
        BY <4>2, <1>c, <1>k, <1>n
      <4>3. CASE i >= n /\ i < count[c] - 1
        <5>1. procs'[c][i] = procs[c][i + 1] /\ i + 1 \in Slot /\ i + 1 < count[c]
          BY <4>3, <1>k, <1>n
        <5> QED
          BY <4>3, <5>1, <1>c
      <4>4. CASE i >= n /\ i = count[c] - 1
        BY <4>4, <1>k, <1>n
      <4> QED
        BY <4>1, <4>2, <4>3, <4>4, <1>n
    <3> QED
      BY <3>1, <1>c, <1>d DEF CountOK
  <2>3. RunOK(c)'
    <3>1. \A i \in Slot : procs[c][i] # NULL => state[procs[c][i]] # "RUNNING"
      BY <1>b DEF IInv, RunInv, RunOK
    <3>2. \A i \in Slot : procs'[c][i] # NULL => state'[procs'[c][i]] # "RUNNING"
      <4> SUFFICES ASSUME NEW i \in Slot, procs'[c][i] # NULL PROVE state'[procs'[c][i]] # "RUNNING"
        OBVIOUS
      <4>1. PICK j \in Slot : procs'[c][i] = procs[c][j] /\ procs[c][j] # v /\ procs[c][j] \in Proc
        BY <1>j
      <4> QED
        BY <3>1, <4>1, <1>f
    <3> QED
      BY <3>2 DEF RunOK
  <2>4. c \in killed
    BY <1>a, <1>b DEF IInv, CalmInv, CalmOK
  <2> QED
    BY <1>b, <2>1, <2>2, <2>3, <2>4, OneCpu
<1>5. PcbInv'
  BY <1>b, <1>f DEF IInv, PcbInv, Live
<1>6. RegsInv'
  <2>1. ASSUME NEW d \in CPU, NEW e \in CPU, NEW i \in Slot, regs[d] # NULL, procs'[e][i] = regs[d]
        PROVE  d = e
    BY <2>1, <1>j DEF IInv, RegsInv, On
  <2>2. \A d \in CPU : regs[d] # NULL => state'[regs[d]] # "unused" /\ pc'[d] # "boot"
    <3>1. \A d \in CPU : regs[d] # NULL => regs[d] \in Proc /\ state[regs[d]] # "unused" /\ pc[d] # "boot"
      BY DEF IInv, TypeOK, RegsInv
    <3> QED
      BY <3>1, <1>d, <1>f
  <2> QED
    BY <1>b, <2>1, <2>2 DEF IInv, RegsInv, On
<1> QED
  BY <1>1, <1>2, <1>3, <1>4, <1>5, <1>6 DEF IInv

\* The chosen process gets the CPU.
LEMMA DispatchKeeps ==
    ASSUME IInv, NEW c \in CPU, Dispatch(c)
    PROVE  IInv'
<1> USE SchedAssumption DEF Slot
<1> DEFINE p == procs[c][current_pid[c]]
           goes == state[p] = "READY"
<1>a. /\ pc[c] = "found" /\ lock' = [lock EXCEPT ![c] = FALSE] /\ pc' = [pc EXCEPT ![c] = "run"]
      /\ UNCHANGED <<procs, count, current_pid, timeslice, ctx, errno, stale, start_pid, ticking, killed>>
  BY DEF Dispatch, tables
<1>b. current_pid[c] \in Slot /\ p \in Proc /\ Live(p) /\ ctx[p] = p /\ p # NULL
  <2>1. p # NULL
    BY <1>a DEF IInv, CountInv, CountOK
  <2>2. current_pid[c] \in Slot /\ p \in Proc
    BY <2>1 DEF IInv, TypeOK
  <2>3. Live(p)
    BY <2>1, <2>2 DEF IInv, OwnInv
  <2> QED
    BY <2>1, <2>2, <2>3 DEF IInv, PcbInv
<1>c. goes => state' = [state EXCEPT ![p] = "RUNNING"] /\ regs' = [regs EXCEPT ![c] = p]
  BY <1>b DEF Dispatch
<1>d. ~ goes => UNCHANGED <<state, regs>>
  BY DEF Dispatch
<1>e. \A q \in Proc : state'[q] = IF goes /\ q = p THEN "RUNNING" ELSE state[q]
  BY <1>c, <1>d DEF IInv, TypeOK
<1>f. \A d \in CPU : regs'[d] = IF goes /\ d = c THEN p ELSE regs[d]
  BY <1>c, <1>d DEF IInv, TypeOK
<1>g. \A d \in CPU : (regs[d] # NULL => regs[d] \in Proc) /\ \A i \in Slot : procs[d][i] # NULL => procs[d][i] \in Proc
  BY DEF IInv, TypeOK
<1>h. \A i \in Slot : procs[c][i] # NULL => state[procs[c][i]] # "RUNNING"
  BY <1>a DEF IInv, RunInv, RunOK
<1>i. \A d \in CPU : \A i \in Slot : procs[d][i] = p => d = c /\ i = current_pid[c]
  BY <1>b DEF IInv, OwnInv
<1>j. \A d \in CPU : regs[d] = p => d = c
  BY <1>b DEF IInv, RegsInv, On
<1>k. pc'[c] = "run" /\ \A d \in CPU \ {c} : pc'[d] = pc[d]
  BY <1>a DEF IInv, TypeOK
<1>1. TypeOK'
  <2>1. state' \in [Proc -> {"unused", "READY", "RUNNING", "TERMINATED", "freed"}]
    <3>1. state \in [Proc -> {"unused", "READY", "RUNNING", "TERMINATED", "freed"}]
      BY DEF IInv, TypeOK
    <3>2. state' = state \/ state' = [state EXCEPT ![p] = "RUNNING"]
      BY <1>c, <1>d
    <3> QED
      BY <3>1, <3>2
  <2>2. regs' \in [CPU -> Proc \cup {NULL}]
    BY <1>b, <1>c, <1>d DEF IInv, TypeOK
  <2> QED
    BY <1>a, <2>1, <2>2 DEF IInv, TypeOK
<1>2. LockInv'
  BY <1>a DEF IInv, TypeOK, LockInv
<1>3. OwnInv'
  BY <1>a, <1>e, OwnFrame DEF IInv, Live
<1>4. CountInv' /\ RunInv' /\ CalmInv'
  <2>1. \A d \in CPU \ {c} : SameCpu(d)
    BY <1>a, <1>e, <1>f, <1>g, <1>i, <1>j, <1>k DEF SameCpu
  <2>2. CountOK(c)'
    BY <1>a, <1>k DEF IInv, CountInv, CountOK
  <2>3. RunOK(c)'
    BY <1>a, <1>e, <1>f, <1>g, <1>h, <1>i, <1>k DEF RunOK
  <2>4. c \notin killed => CalmOK(c)'
    <3> SUFFICES ASSUME c \notin killed PROVE CalmOK(c)'
      OBVIOUS
    <3>1. \A i \in Slot : procs[c][i] # NULL => state[procs[c][i]] # "TERMINATED" /\ ~ stale[procs[c][i]]
      BY <1>a DEF IInv, CalmInv, CalmOK
    <3>2. goes
      BY <3>1, <1>b, <1>h DEF Live
    <3> QED
      BY <3>1, <3>2, <1>a, <1>b, <1>e, <1>f, <1>g DEF CalmOK
  <2> QED
    BY <1>a, <2>1, <2>2, <2>3, <2>4, OneCpu
<1>5. PcbInv'
  BY <1>a, <1>b, <1>e DEF IInv, PcbInv, Live
<1>6. RegsInv'
  <2>1. \A d \in CPU : regs'[d] # NULL => pc'[d] # "boot" /\ state'[regs'[d]] # "unused"
    <3>1. \A d \in CPU : regs[d] # NULL => state[regs[d]] # "unused" /\ pc[d] # "boot"
      BY DEF IInv, RegsInv
    <3>2. \A q \in Proc : state'[q] = "unused" => state[q] = "unused"
      BY <1>e
    <3>3. state'[p] # "unused"
      BY <1>b, <1>e DEF Live
    <3>4. ASSUME NEW d \in CPU, regs'[d] # NULL PROVE pc'[d] # "boot" /\ state'[regs'[d]] # "unused"
      <4>1. CASE regs'[d] = p /\ d = c
        BY <4>1, <3>3, <1>k
      <4>2. CASE regs'[d] = regs[d]
        BY <4>2, <3>1, <3>2, <3>4, <1>g, <1>k
      <4> QED
        BY <4>1, <4>2, <1>f
    <3> QED
      BY <3>4
  <2>2. \A d, e \in CPU : regs'[d] # NULL /\ regs'[e] = regs'[d] => d = e
    BY <1>f, <1>j DEF IInv, RegsInv
  <2>3. ASSUME NEW d \in CPU, NEW e \in CPU, NEW i \in Slot, regs'[d] # NULL, procs[e][i] = regs'[d]
        PROVE  d = e
    <3>1. CASE goes /\ d = c
      BY <2>3, <3>1, <1>f, <1>i
    <3>2. CASE ~ (goes /\ d = c)
      BY <2>3, <3>2, <1>f DEF IInv, RegsInv, On
    <3> QED
      BY <3>1, <3>2
  <2> QED
    BY <1>a, <2>1, <2>2, <2>3 DEF RegsInv, On
<1> QED
  BY <1>1, <1>2, <1>3, <1>4, <1>5, <1>6 DEF IInv

----------------------------------------------------------------------------
\* Every step keeps the invariant.
LEMMA NextIInv == IInv /\ [Next]_vars => IInv'
<1> SUFFICES ASSUME IInv, [Next]_vars PROVE IInv'
  OBVIOUS
<1>1. CASE UNCHANGED vars
  BY <1>1 DEF IInv, TypeOK, LockInv, OwnInv, CountInv, CountOK, PcbInv, RunInv, RunOK, RegsInv, CalmInv, CalmOK, Live, On, vars
<1>2. ASSUME NEW c \in CPU, NEW p \in Proc, Spawn(c, p) \/ SpawnNoStack(c, p) PROVE IInv'
  BY <1>2, SpawnKeeps, SpawnNoStackKeeps
<1>3. ASSUME NEW c \in CPU, NEW i \in Slot, Terminate(c, i) PROVE IInv'
  BY <1>3, TerminateKeeps
<1>4. ASSUME NEW c \in CPU, SpawnRefused(c) \/ EnableInterrupts(c) \/ Die(c) PROVE IInv'
  BY <1>4, SpawnRefusedKeeps, EnableInterruptsKeeps, DieKeeps
<1>5. ASSUME NEW c \in CPU, Work(c) \/ SyscallUnknown(c) \/ SyscallExit(c) \/ TerminateSelf(c) PROVE IInv'
  BY <1>5, WorkKeeps, SyscallUnknownKeeps, SyscallExitKeeps, TerminateSelfKeeps
<1>6. ASSUME NEW c \in CPU, Timer(c) \/ TickEmpty(c) \/ TickSave(c) PROVE IInv'
  BY <1>6, TimerKeeps, TickEmptyKeeps, TickSaveKeeps
<1>7. ASSUME NEW c \in CPU, ScanEmpty(c) \/ ScanReap(c) \/ ScanFound(c) \/ ScanFallback(c) PROVE IInv'
  BY <1>7, ScanEmptyKeeps, ScanReapKeeps, ScanFoundKeeps, ScanFallbackKeeps
<1>8. ASSUME NEW c \in CPU, Dispatch(c) \/ Halt(c) PROVE IInv'
  BY <1>8, DispatchKeeps, HaltKeeps
<1> QED
  BY <1>1, <1>2, <1>3, <1>4, <1>5, <1>6, <1>7, <1>8 DEF Next

\* The scheduler never leaves the inductive invariant, whatever the CPUs, the
\* processes and the table size.
THEOREM Invariance == Spec => []IInv
  BY InitIInv, NextIInv, PTL DEF Spec

----------------------------------------------------------------------------
\* sched_spawn, sched_terminate and sched_tick keep their variables in range:
\* in particular current_pid is always an index of the table, and the slice of
\* a process never goes below zero.
THEOREM TypeCorrect == Spec => []TypeOK
<1>1. IInv => TypeOK
  BY DEF IInv
<1> QED
  BY <1>1, Invariance, PTL

\* Spawning and reaping keep each table compact, with no freed control block in
\* it and none in two slots or on two CPUs.
THEOREM TableCompactCorrect == Spec => []TableCompact
<1>1. IInv => TableCompact
  BY DEF IInv, OwnInv, CountInv, CountOK, TableCompact
<1> QED
  BY <1>1, Invariance, PTL

\* Where no process terminates another, sched_get_current names the process
\* that executes, and only that one is RUNNING.
THEOREM CurrentIsExecutingCorrect == Spec => []CurrentIsExecuting
<1>1. IInv => CurrentIsExecuting
  <2> SUFFICES ASSUME IInv, NEW c \in CPU \ killed, pc[c] = "run", regs[c] # NULL
               PROVE  /\ sched_get_current(c) = regs[c]
                      /\ \A i \in Slot : procs[c][i] # NULL =>
                           (state[procs[c][i]] = "RUNNING" <=> procs[c][i] = regs[c])
    BY DEF CurrentIsExecuting
  <2>1. current_pid[c] \in Slot /\ procs[c][current_pid[c]] = regs[c] /\ state[regs[c]] = "RUNNING"
    BY DEF IInv, TypeOK, CalmInv, CalmOK
  <2>2. sched_get_current(c) = regs[c]
    BY <2>1 DEF IInv, CountInv, CountOK, sched_get_current
  <2> QED
    BY <2>1, <2>2 DEF IInv, RunInv, RunOK
<1> QED
  BY <1>1, Invariance, PTL

\* A saved context holds its own process's registers and, where no process
\* terminates another, is up to date; no process is in two CPUs' registers.
THEOREM ContextIntegrityCorrect == Spec => []ContextIntegrity
<1>1. IInv => ContextIntegrity
  BY DEF IInv, PcbInv, CalmInv, CalmOK, RegsInv, ContextIntegrity
<1> QED
  BY <1>1, Invariance, PTL
=============================================================================
