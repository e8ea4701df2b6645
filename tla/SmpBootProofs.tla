--------------------------- MODULE SmpBootProofs ---------------------------
(***************************************************************************)
(* Proofs about SmpBoot, for any number of CPUs and any number of polls:   *)
(* init_cpu is never executed by two CPUs at once, smp_init returns only   *)
(* when every CPU has left it, and a panic is reported only when the CPUs  *)
(* that were running have been halted.                                     *)
(***************************************************************************)
EXTENDS SmpBoot, FiniteSetTheorems, TLAPS

\* Labels of smp_entry belong to the other CPUs, labels of smp_init to the boot
\* CPU.
RoleInv ==
    /\ pc[Bsp] \notin {"parked", "ready", "counted"}
    /\ \A c \in Cpu \ {Bsp} : pc[c] \notin {"loop", "poll", "booted"}

\* A CPU that was told to start and has not finished init_cpu is the one the
\* boot CPU polls, or the one it gave up on.
StartInv ==
    \A c \in Cpu \ {Bsp} :
        /\ pc[c] # "parked" => go[c]
        /\ go[c] /\ pc[c] \in {"parked", "init"} =>
             c = i /\ pc[Bsp] \in {"poll", "wait", "report", "halted", "dead", "wedged"}

\* The loop of smp_init has started every CPU below its index.
LoopInv ==
    /\ pc[Bsp] \in {"loop", "init", "poll"} => \A c \in Cpu \ {Bsp} : c < i => go[c]
    /\ pc[Bsp] = "poll" => i < NCpus /\ i # Bsp
    /\ pc[Bsp] = "init" => i = Bsp

\* ready is set exactly from the end of init_cpu to the die trap.
ReadyInv ==
    /\ \A c \in Cpu \ {Bsp} : pc[c] \in {"parked", "init"} => ~ ready[c]
    /\ \A c \in Cpu : pc[c] \in {"ready", "counted", "run", "booted"} => ready[c]
    /\ \A c \in Cpu : pc[c] = "dead" => ~ ready[c]
    /\ pc[Bsp] \in {"loop", "init", "poll"} => (ready[Bsp] <=> i > Bsp)

\* Interrupts are on only in a CPU that runs, or panics after it ran.
FlagInv == \A c \in Cpu : ifon[c] => pc[c] \in {"run", "wait", "report"} /\ ready[c]

\* started_cpus counts the CPUs that have passed their increment.
Counted == {c \in Cpu : pc[c] = "dead" \/ (ready[c] /\ pc[c] # "ready")}
CountInv == started = Cardinality(Counted)

\* A CPU that ran when another one panicked is ready until the die trap.
UpInv == \A c \in Cpu : \A d \in up[c] : d # c /\ (ready[d] \/ pc[d] = "dead")

\* The wait of kpanic has seen the CPUs below its index dead.
WaitInv ==
    \A c \in Cpu : \A d \in up[c] :
        /\ pc[c] = "wait" /\ d < j[c] => pc[d] = "dead"
        /\ pc[c] = "report" => pc[d] = "dead"

IInv ==
    /\ TypeOK /\ RoleInv /\ StartInv /\ LoopInv /\ ReadyInv /\ FlagInv /\ CountInv
    /\ BootedMeansAllUp /\ UpInv /\ WaitInv

----------------------------------------------------------------------------
\* CPUs are natural numbers.
LEMMA CpuNat == Cpu \subseteq Nat /\ IsFiniteSet(Cpu) /\ Cardinality(Cpu) = NCpus
<1>1. IsFiniteSet(Cpu) /\ Cardinality(Cpu) = NCpus
  BY SmpAssumption, FS_Interval DEF Cpu
<1> QED
  BY <1>1, SmpAssumption DEF Cpu

\* The counter of started CPUs stays within its range: started_cpus is the size
\* of a set of CPUs.
LEMMA CountedBound == Counted \subseteq Cpu /\ IsFiniteSet(Counted) /\ Cardinality(Counted) \in 0 .. NCpus
<1>1. Counted \subseteq Cpu
  BY DEF Counted
<1>2. IsFiniteSet(Counted) /\ Cardinality(Counted) <= NCpus
  BY <1>1, CpuNat, FS_Subset
<1> QED
  BY <1>1, <1>2, FS_CardinalityType, SmpAssumption

\* A CPU is counted for the first time when it passes its increment.
LEMMA CountedGrows ==
    ASSUME IInv, NEW c \in Cpu \ Counted, Counted' = Counted \cup {c}, started' = started + 1
    PROVE  CountInv' /\ started' \in 0 .. NCpus
<1>1. Cardinality(Counted') = Cardinality(Counted) + 1
  BY CountedBound, FS_AddElement
<1>2. CountInv'
  BY <1>1 DEF IInv, CountInv
<1>3. Cardinality(Counted') \in 0 .. NCpus
  <2>1. Counted' \subseteq Cpu
    BY CountedBound
  <2>2. IsFiniteSet(Counted') /\ Cardinality(Counted') <= NCpus
    BY <2>1, CpuNat, FS_Subset
  <2> QED
    BY <2>2, FS_CardinalityType, SmpAssumption
<1> QED
  BY <1>2, <1>3 DEF CountInv

\* The invariant holds when smp_init is called.
LEMMA InitIInv == Init => IInv
<1> SUFFICES ASSUME Init PROVE IInv
  OBVIOUS
<1> USE SmpAssumption, CpuNat
<1>1. TypeOK
  BY DEF Init, TypeOK, Labels
<1>2. RoleInv /\ StartInv /\ LoopInv /\ ReadyInv /\ FlagInv
  BY DEF Init, RoleInv, StartInv, LoopInv, ReadyInv, FlagInv
<1>3. CountInv
  <2>1. Counted = {}
    BY DEF Init, Counted
  <2> QED
    BY <2>1, FS_EmptySet DEF Init, CountInv
<1>4. BootedMeansAllUp /\ UpInv /\ WaitInv
  BY DEF Init, BootedMeansAllUp, UpInv, WaitInv
<1> QED
  BY <1>1, <1>2, <1>3, <1>4 DEF IInv

----------------------------------------------------------------------------
\* Whatever calls kpanic, the invariant survives: the caller is alive and is not
\* between setting ready and counting itself.
LEMMA KpanicKeeps ==
    ASSUME IInv, NEW c \in Cpu, NEW e \in BOOLEAN, Kpanic(c, e), UNCHANGED <<ready, boot, ifon>>,
           pc[c] \in {"report", "run", "poll", "loop", "init"}
    PROVE  IInv'
<1> USE SmpAssumption, CpuNat
<1>1. pc' = [pc EXCEPT ![c] = "wait"] /\ j' = [j EXCEPT ![c] = 0]
  BY DEF Kpanic, Goto
<1>2. TypeOK'
  <2>1. ipi' \in [Cpu -> BOOLEAN]
    BY DEF IInv, TypeOK, Kpanic, SendDie
  <2>2. up' \in [Cpu -> SUBSET Cpu] /\ panicked' \subseteq Cpu
    BY DEF IInv, TypeOK, Kpanic
  <2> QED
    BY <1>1, <2>1, <2>2 DEF IInv, TypeOK, Labels, Kpanic, boot
<1>3. RoleInv' /\ StartInv' /\ LoopInv'
  BY <1>1 DEF IInv, TypeOK, RoleInv, StartInv, LoopInv, boot
<1>4. ReadyInv' /\ FlagInv'
  BY <1>1 DEF IInv, TypeOK, ReadyInv, FlagInv, boot
<1>5. CountInv'
  <2>1. Counted' = Counted
    BY <1>1 DEF IInv, TypeOK, Counted
  <2> QED
    BY <2>1 DEF IInv, CountInv, boot
<1>6. BootedMeansAllUp'
  BY <1>1 DEF IInv, TypeOK, BootedMeansAllUp
<1>7. UpInv'
  BY <1>1 DEF IInv, TypeOK, UpInv, ReadyInv, Kpanic
<1>8. WaitInv'
  BY <1>1 DEF IInv, TypeOK, WaitInv, Kpanic
<1> QED
  BY <1>2, <1>3, <1>4, <1>5, <1>6, <1>7, <1>8 DEF IInv
\* The other steps of kpanic and the die trap.
LEMMA PanicKeeps ==
    ASSUME IInv, NEW c \in Cpu, WaitNext(c) \/ Report(c) \/ Hcf(c) \/ Die(c) \/ Handler(c)
           \/ Exit(c)
    PROVE  IInv'
<1> USE SmpAssumption, CpuNat
<1>1. CASE WaitNext(c)
  <2>1. TypeOK'
    BY <1>1 DEF IInv, TypeOK, WaitNext, boot, ghosts
  <2>2. WaitInv'
    BY <1>1 DEF IInv, TypeOK, WaitInv, UpInv, WaitNext, ghosts
  <2>3. Counted' = Counted
    BY <1>1 DEF WaitNext, Counted
  <2> QED
    BY <1>1, <2>1, <2>2, <2>3
       DEF IInv, RoleInv, StartInv, LoopInv, ReadyInv, FlagInv, CountInv, BootedMeansAllUp, UpInv,
           WaitNext, boot, ghosts
<1>2. CASE Report(c)
  <2>1. pc' = [pc EXCEPT ![c] = "report"] /\ UNCHANGED <<ready, boot, ifon, panics>> /\ pc[c] = "wait"
    BY <1>2 DEF Report, Goto
  <2>2. TypeOK'
    BY <2>1 DEF IInv, TypeOK, Labels, boot, panics, ghosts
  <2>3. WaitInv'
    <3>1. \A d \in up[c] : d < j[c]
      BY <1>2 DEF IInv, TypeOK, Report, Cpu
    <3> QED
      BY <2>1, <3>1 DEF IInv, TypeOK, WaitInv, panics, ghosts
  <2>4. Counted' = Counted
    BY <2>1 DEF IInv, TypeOK, Counted
  <2> QED
    BY <2>1, <2>2, <2>3, <2>4
       DEF IInv, TypeOK, RoleInv, StartInv, LoopInv, ReadyInv, FlagInv, CountInv, BootedMeansAllUp,
           UpInv, boot, panics, ghosts
<1>3. CASE Hcf(c)
  <2>1. pc' = [pc EXCEPT ![c] = "halted"] /\ ifon' = [ifon EXCEPT ![c] = FALSE]
        /\ UNCHANGED <<ready, boot, panics>> /\ pc[c] = "report"
    BY <1>3 DEF Hcf, Goto
  <2>2. TypeOK'
    BY <2>1 DEF IInv, TypeOK, Labels, boot, panics, ghosts
  <2>3. Counted' = Counted
    BY <2>1 DEF IInv, TypeOK, Counted
  <2> QED
    BY <2>1, <2>2, <2>3
       DEF IInv, TypeOK, RoleInv, StartInv, LoopInv, ReadyInv, FlagInv, CountInv, BootedMeansAllUp,
           UpInv, WaitInv, boot, panics, ghosts
<1>4. CASE Die(c)
  <2>1. pc' = [pc EXCEPT ![c] = "dead"] /\ ifon' = [ifon EXCEPT ![c] = FALSE]
        /\ ready' = [ready EXCEPT ![c] = FALSE] /\ ipi' = [ipi EXCEPT ![c] = FALSE]
        /\ UNCHANGED <<boot, j, ctx, ghosts>>
    BY <1>4 DEF Die, Goto
  <2>2. pc[c] \in {"run", "wait", "report"} /\ ready[c]
    BY <1>4 DEF IInv, FlagInv, Die
  <2>3. TypeOK'
    BY <2>1 DEF IInv, TypeOK, Labels, boot, ghosts
  <2>4. Counted' = Counted
    BY <2>1, <2>2 DEF IInv, TypeOK, Counted
  <2> QED
    BY <2>1, <2>2, <2>3, <2>4
       DEF IInv, TypeOK, RoleInv, StartInv, LoopInv, ReadyInv, FlagInv, CountInv, BootedMeansAllUp,
           UpInv, WaitInv, boot, ghosts
<1>5. CASE Handler(c)
  <2>1. TypeOK'
    BY <1>5 DEF IInv, TypeOK, Handler, boot, panics, ghosts
  <2>2. FlagInv'
    BY <1>5 DEF IInv, TypeOK, FlagInv, ReadyInv, Handler
  <2>3. Counted' = Counted
    BY <1>5 DEF Handler, Counted
  <2> QED
    BY <1>5, <2>1, <2>2, <2>3
       DEF IInv, RoleInv, StartInv, LoopInv, ReadyInv, CountInv, BootedMeansAllUp, UpInv, WaitInv,
           Handler, boot, panics, ghosts
<1>6. CASE Exit(c)
  <2>1. pc' = [pc EXCEPT ![c] = "wedged"] /\ ifon' = [ifon EXCEPT ![c] = FALSE]
        /\ UNCHANGED <<ready, boot, panics>> /\ pc[c] \in {"run", "wait", "report"}
    BY <1>6 DEF Exit, Goto
  <2>2. TypeOK'
    BY <2>1 DEF IInv, TypeOK, Labels, boot, panics, ghosts
  <2>3. Counted' = Counted
    BY <2>1 DEF IInv, TypeOK, Counted
  <2> QED
    BY <2>1, <2>2, <2>3
       DEF IInv, TypeOK, RoleInv, StartInv, LoopInv, ReadyInv, FlagInv, CountInv, BootedMeansAllUp,
           UpInv, WaitInv, boot, panics, ghosts
<1> QED
  BY <1>1, <1>2, <1>3, <1>4, <1>5, <1>6

\* smp_entry: a CPU enters init_cpu only while the boot CPU polls it, or after
\* the boot CPU gave up.
LEMMA ApKeeps ==
    ASSUME IInv, NEW c \in Cpu, ApInit(c) \/ ApReady(c) \/ ApCount(c) \/ ApRun(c)
    PROVE  IInv'
<1> USE SmpAssumption, CpuNat
<1>1. CASE ApInit(c)
  <2>1. pc' = [pc EXCEPT ![c] = "init"] /\ UNCHANGED <<ready, boot, ifon, panics>>
        /\ pc[c] = "parked" /\ go[c]
    BY <1>1 DEF ApInit, Goto
  <2>2. TypeOK'
    BY <2>1 DEF IInv, TypeOK, Labels, boot, panics, ghosts
  <2>3. c # Bsp
    BY <2>1 DEF IInv, RoleInv
  <2>4. Counted' = Counted
    BY <2>1 DEF IInv, TypeOK, Counted
  <2> QED
    BY <2>1, <2>2, <2>3, <2>4
       DEF IInv, TypeOK, RoleInv, StartInv, LoopInv, ReadyInv, FlagInv, CountInv, BootedMeansAllUp,
           UpInv, WaitInv, boot, panics, ghosts
<1>2. CASE ApReady(c)
  <2>1. pc' = [pc EXCEPT ![c] = "ready"] /\ ready' = [ready EXCEPT ![c] = TRUE]
        /\ UNCHANGED <<boot, ifon, panics>> /\ pc[c] = "init" /\ c # Bsp
    BY <1>2 DEF ApReady, Goto
  <2>2. TypeOK'
    BY <2>1 DEF IInv, TypeOK, Labels, boot, panics, ghosts
  <2>3. Counted' = Counted
    BY <2>1 DEF IInv, TypeOK, Counted, ReadyInv
  <2> QED
    BY <2>1, <2>2, <2>3
       DEF IInv, TypeOK, RoleInv, StartInv, LoopInv, ReadyInv, FlagInv, CountInv, BootedMeansAllUp,
           UpInv, WaitInv, boot, panics, ghosts
<1>3. CASE ApCount(c)
  <2>1. pc' = [pc EXCEPT ![c] = "counted"] /\ started' = started + 1
        /\ UNCHANGED <<ready, go, i, timeout, ifon, panics>> /\ pc[c] = "ready"
    BY <1>3 DEF ApCount, Goto
  <2>2. c \notin Counted /\ Counted' = Counted \cup {c}
    BY <2>1 DEF IInv, TypeOK, Counted, ReadyInv
  <2>3. CountInv' /\ started' \in 0 .. NCpus
    BY <2>1, <2>2, CountedGrows
  <2>4. TypeOK'
    BY <2>1, <2>3 DEF IInv, TypeOK, Labels, panics, ghosts
  <2>5. c # Bsp
    BY <2>1 DEF IInv, RoleInv
  <2> QED
    BY <2>1, <2>3, <2>4, <2>5
       DEF IInv, TypeOK, RoleInv, StartInv, LoopInv, ReadyInv, FlagInv, BootedMeansAllUp, UpInv,
           WaitInv, panics, ghosts
<1>4. CASE ApRun(c)
  <2>1. pc' = [pc EXCEPT ![c] = "run"] /\ ifon' = [ifon EXCEPT ![c] = TRUE]
        /\ UNCHANGED <<ready, boot, panics>> /\ pc[c] = "counted"
    BY <1>4 DEF ApRun, Goto
  <2>2. TypeOK'
    BY <2>1 DEF IInv, TypeOK, Labels, boot, panics, ghosts
  <2>3. c # Bsp /\ ready[c]
    BY <2>1 DEF IInv, RoleInv, ReadyInv
  <2>4. Counted' = Counted
    BY <2>1 DEF IInv, TypeOK, Counted
  <2> QED
    BY <2>1, <2>2, <2>3, <2>4
       DEF IInv, TypeOK, RoleInv, StartInv, LoopInv, ReadyInv, FlagInv, CountInv, BootedMeansAllUp,
           UpInv, WaitInv, boot, panics, ghosts
<1> QED
  BY <1>1, <1>2, <1>3, <1>4
\* smp_init: the index moves past a CPU only when that CPU has left init_cpu.
LEMMA BspKeeps ==
    ASSUME IInv,
           \/ BspInit \/ BspReady \/ BspStartAp \/ BspPollReady \/ BspPollAgain
           \/ BspAllStarted \/ BspRun
    PROVE  IInv'
<1> USE SmpAssumption, CpuNat
<1>1. CASE BspInit
  <2>1. pc' = [pc EXCEPT ![Bsp] = "init"] /\ UNCHANGED <<ready, boot, ifon, panics>>
        /\ pc[Bsp] = "loop" /\ i = Bsp
    BY <1>1 DEF BspInit, Goto
  <2>2. TypeOK'
    BY <2>1 DEF IInv, TypeOK, Labels, boot, panics, ghosts
  <2>3. Counted' = Counted
    BY <2>1 DEF IInv, TypeOK, Counted
  <2> QED
    BY <2>1, <2>2, <2>3
       DEF IInv, TypeOK, RoleInv, StartInv, LoopInv, ReadyInv, FlagInv, CountInv, BootedMeansAllUp,
           UpInv, WaitInv, boot, panics, ghosts
<1>2. CASE BspReady
  <2>1. pc' = [pc EXCEPT ![Bsp] = "loop"] /\ ready' = [ready EXCEPT ![Bsp] = TRUE]
        /\ started' = started + 1 /\ i' = i + 1
        /\ UNCHANGED <<go, timeout, ifon, panics>> /\ pc[Bsp] = "init"
    BY <1>2 DEF BspReady, Goto
  <2>2. i = Bsp /\ ~ ready[Bsp]
    BY <2>1 DEF IInv, LoopInv, ReadyInv
  <2>3. Bsp \notin Counted /\ Counted' = Counted \cup {Bsp}
    BY <2>1, <2>2 DEF IInv, TypeOK, Counted
  <2>4. CountInv' /\ started' \in 0 .. NCpus
    BY <2>1, <2>3, CountedGrows
  <2>5. i' \in 0 .. NCpus
    BY <2>1, <2>2 DEF Cpu
  <2>6. TypeOK'
    BY <2>1, <2>4, <2>5 DEF IInv, TypeOK, Labels, panics, ghosts
  <2>7. StartInv' /\ LoopInv' /\ ReadyInv'
    BY <2>1, <2>2 DEF IInv, TypeOK, StartInv, LoopInv, ReadyInv
  <2>8. RoleInv' /\ FlagInv' /\ BootedMeansAllUp'
    BY <2>1 DEF IInv, TypeOK, RoleInv, FlagInv, BootedMeansAllUp
  <2>9. UpInv' /\ WaitInv'
    BY <2>1 DEF IInv, TypeOK, UpInv, WaitInv, panics, ghosts
  <2> QED
    BY <2>4, <2>6, <2>7, <2>8, <2>9 DEF IInv
<1>3. CASE BspStartAp
  <2>1. pc' = [pc EXCEPT ![Bsp] = "poll"] /\ go' = [go EXCEPT ![i] = TRUE] /\ timeout' = 0
        /\ UNCHANGED <<ready, started, i, ifon, panics>>
        /\ pc[Bsp] = "loop" /\ i < NCpus /\ i # Bsp
    BY <1>3 DEF BspStartAp, Goto
  <2>2. TypeOK'
    <3>1. timeout' \in 0 .. MaxPolls
      BY <2>1
    <3>2. go' \in [Cpu -> BOOLEAN] /\ pc' \in [Cpu -> Labels]
      BY <2>1 DEF IInv, TypeOK, Labels
    <3> QED
      BY <2>1, <3>1, <3>2 DEF IInv, TypeOK, panics, ghosts
  <2>3. Counted' = Counted
    BY <2>1 DEF IInv, TypeOK, Counted
  <2>4. StartInv' /\ LoopInv'
    BY <2>1 DEF IInv, TypeOK, StartInv, LoopInv
  <2> QED
    BY <2>1, <2>2, <2>3, <2>4
       DEF IInv, TypeOK, RoleInv, ReadyInv, FlagInv, CountInv, BootedMeansAllUp, UpInv, WaitInv,
           panics, ghosts
<1>4. CASE BspPollReady
  <2>1. pc' = [pc EXCEPT ![Bsp] = "loop"] /\ i' = i + 1
        /\ UNCHANGED <<ready, started, go, timeout, ifon, panics>>
        /\ pc[Bsp] = "poll" /\ ready[i]
    BY <1>4 DEF BspPollReady, Goto
  <2>2. i \in Cpu \ {Bsp} /\ i' \in 0 .. NCpus
    BY <2>1 DEF IInv, TypeOK, LoopInv, Cpu
  <2>3. pc[i] \notin {"parked", "init"}
    BY <2>1, <2>2 DEF IInv, ReadyInv
  <2>4. TypeOK'
    BY <2>1, <2>2 DEF IInv, TypeOK, Labels, panics, ghosts
  <2>5. Counted' = Counted
    BY <2>1 DEF IInv, TypeOK, Counted
  <2>6. go[i]
    BY <2>2, <2>3 DEF IInv, StartInv
  <2>7. StartInv' /\ LoopInv'
    BY <2>1, <2>2, <2>3, <2>6 DEF IInv, TypeOK, StartInv, LoopInv
  <2> QED
    BY <2>1, <2>2, <2>4, <2>5, <2>7
       DEF IInv, TypeOK, RoleInv, ReadyInv, FlagInv, CountInv, BootedMeansAllUp, UpInv, WaitInv,
           panics, ghosts
<1>5. CASE BspPollAgain
  <2>1. TypeOK'
    BY <1>5 DEF IInv, TypeOK, BspPollAgain, panics, ghosts
  <2>2. Counted' = Counted
    BY <1>5 DEF BspPollAgain, Counted
  <2> QED
    BY <1>5, <2>1, <2>2
       DEF IInv, RoleInv, StartInv, LoopInv, ReadyInv, FlagInv, CountInv, BootedMeansAllUp, UpInv,
           WaitInv, BspPollAgain, panics, ghosts
<1>6. CASE BspAllStarted
  <2>1. pc' = [pc EXCEPT ![Bsp] = "booted"] /\ UNCHANGED <<ready, boot, ifon, panics>>
        /\ pc[Bsp] = "loop" /\ i = NCpus
    BY <1>6 DEF BspAllStarted, Goto
  <2>2. TypeOK'
    BY <2>1 DEF IInv, TypeOK, Labels, boot, panics, ghosts
  <2>3. \A c \in Cpu \ {Bsp} : go[c] /\ pc[c] \notin {"parked", "init", "loop", "poll"}
    <3>1. \A c \in Cpu \ {Bsp} : c < i
      BY <2>1 DEF Cpu
    <3> QED
      BY <2>1, <3>1 DEF IInv, StartInv, LoopInv, RoleInv
  <2>4. ready[Bsp]
    BY <2>1 DEF IInv, ReadyInv, Cpu
  <2>5. Counted' = Counted
    BY <2>1 DEF IInv, TypeOK, Counted
  <2>6. BootedMeansAllUp'
    BY <2>1, <2>3 DEF IInv, TypeOK, BootedMeansAllUp
  <2> QED
    BY <2>1, <2>2, <2>3, <2>4, <2>5, <2>6
       DEF IInv, TypeOK, RoleInv, StartInv, LoopInv, ReadyInv, FlagInv, CountInv, UpInv, WaitInv,
           boot, panics, ghosts
<1>7. CASE BspRun
  <2>1. pc' = [pc EXCEPT ![Bsp] = "run"] /\ ifon' = [ifon EXCEPT ![Bsp] = TRUE]
        /\ UNCHANGED <<ready, boot, panics>> /\ pc[Bsp] = "booted"
    BY <1>7 DEF BspRun, Goto
  <2>2. TypeOK'
    BY <2>1 DEF IInv, TypeOK, Labels, boot, panics, ghosts
  <2>3. ready[Bsp]
    BY <2>1 DEF IInv, ReadyInv
  <2>4. Counted' = Counted
    BY <2>1 DEF IInv, TypeOK, Counted
  <2> QED
    BY <2>1, <2>2, <2>3, <2>4
       DEF IInv, TypeOK, RoleInv, StartInv, LoopInv, ReadyInv, FlagInv, CountInv, BootedMeansAllUp,
           UpInv, WaitInv, boot, panics, ghosts
<1> QED
  BY <1>1, <1>2, <1>3, <1>4, <1>5, <1>6, <1>7

\* Every step keeps the invariant.
LEMMA NextIInv == IInv /\ [Next]_vars => IInv'
<1> SUFFICES ASSUME IInv, [Next]_vars PROVE IInv'
  OBVIOUS
<1>1. CASE \/ BspInit \/ BspReady \/ BspStartAp \/ BspPollReady \/ BspPollAgain
           \/ BspAllStarted \/ BspRun
  BY <1>1, BspKeeps
<1>2. CASE BspPollTimeout \/ BspNotAllStarted
  BY <1>2, KpanicKeeps, SmpAssumption DEF BspPollTimeout, BspNotAllStarted
<1>3. ASSUME NEW c \in Cpu, InitPanic(c) \/ Fault(c) \/ BacktraceFaults(c) PROVE IInv'
  BY <1>3, KpanicKeeps DEF InitPanic, Fault, BacktraceFaults
<1>4. ASSUME NEW c \in Cpu, ApInit(c) \/ ApReady(c) \/ ApCount(c) \/ ApRun(c) PROVE IInv'
  BY <1>4, ApKeeps
<1>5. ASSUME NEW c \in Cpu, WaitNext(c) \/ Report(c) \/ Hcf(c) \/ Die(c) \/ Handler(c)
                              \/ Exit(c) PROVE IInv'
  BY <1>5, PanicKeeps
<1>6. CASE UNCHANGED vars
  <2>1. Counted' = Counted
    BY <1>6 DEF vars, Counted
  <2> QED
    BY <1>6, <2>1
       DEF IInv, TypeOK, RoleInv, StartInv, LoopInv, ReadyInv, FlagInv, CountInv, BootedMeansAllUp,
           UpInv, WaitInv, vars
<1> QED
  BY <1>1, <1>2, <1>3, <1>4, <1>5, <1>6 DEF Next

\* The inductive invariant holds in every reachable state.
THEOREM Invariance == Spec => []IInv
  BY InitIInv, NextIInv, PTL DEF Spec

\* init_cpu, which uses the heap and the kernel's address space without a lock,
\* is executed by one CPU at a time, also when the boot CPU's poll of a CPU times
\* out and the CPU comes to life later; started_cpus never exceeds cpu_count.
THEOREM InitSerializedCorrect == Spec => []InitSerialized
<1>1. IInv => InitSerialized
  <2> SUFFICES ASSUME IInv, NEW c \in Cpu, NEW d \in Cpu, pc[c] = "init", pc[d] = "init"
               PROVE  c = d
    BY DEF IInv, InitSerialized
  <2>1. CASE c = Bsp \/ d = Bsp
    BY <2>1 DEF IInv, StartInv
  <2>2. CASE c # Bsp /\ d # Bsp
    BY <2>2 DEF IInv, StartInv
  <2> QED
    BY <2>1, <2>2
<1> QED
  BY <1>1, Invariance, PTL

\* When smp_init has returned every CPU has left init_cpu, so that the timer
\* emk_entry unmasks next finds a scheduler on each.
THEOREM BootedMeansAllUpCorrect == Spec => []BootedMeansAllUp
<1>1. IInv => BootedMeansAllUp
  BY DEF IInv
<1> QED
  BY <1>1, Invariance, PTL

\* kpanic prints its report only when every CPU that was running when it was
\* called has been halted by the die trap.
THEOREM PanicStopsRunningCorrect == Spec => []PanicStopsRunning
<1>1. IInv => PanicStopsRunning
  BY DEF IInv, WaitInv, PanicStopsRunning
<1> QED
  BY <1>1, Invariance, PTL
=============================================================================
