----------------------------- MODULE BootProofs -----------------------------
(***************************************************************************)
(* Proofs about Boot, for every firmware table and any number of nested    *)
(* calls of kpanic: the cause of a panic is reported first, and once; the  *)
(* lists made from the MADT are right, and the timer's interrupt is routed *)
(* as the firmware says.                                                   *)
(***************************************************************************)
EXTENDS Boot, FiniteSetTheorems, WellFoundedInduction, TLAPS

Labels == {"send", "wait", "report", "printing", "stuck", "trace", "hcf"}
Frame == [ctx : BOOLEAN, chain : {"ok", "bad"}, at : Labels]

Words == {"no_lapic", "report", "backtrace"}
Lines == [what : Words, call : Nat, before : {"no_cpu", "nothing"}]

\* The calls 1 to n have printed w, in this order, and nothing else was printed.
Printed(w, n) == Len(said) = n /\ \A k \in 1 .. n : said[k] = Line(w, k)
Reported(n) == Printed("report", n)

\* ... and after them the backtrace.
Traced(n) ==
    /\ Len(said) = n + 1 /\ said[n + 1] = Line("backtrace", n)
    /\ \A k \in 1 .. n : said[k] = Line("report", k)

\* What has been printed, told from where the innermost call is.  Before
\* lapic_init no call gets past its first step.
TopInv ==
    /\ ~ lapic_base => Top.at = "send" /\ Printed("no_lapic", Len(frames) - 1) /\ ~ halted
    /\ lapic_base =>
         /\ Top.at \in {"send", "wait", "report", "printing"} => Reported(Len(frames) - 1)
         /\ Top.at = "trace" => Reported(Len(frames))
         /\ Top.at = "hcf" => Traced(Len(frames))
         /\ halted => Top.at = "hcf"
         /\ Top.at # "stuck"

IInv ==
    /\ frames \in Seq(Frame) /\ said \in Seq(Lines)
    /\ cpus = "over" => frames # <<>>
    /\ frames = <<>> => said = <<>> /\ ~ halted
    /\ cpus # "over" /\ frames # <<>> => TopInv

\* Nothing of the panic's state changes.
LEMMA PanicFrame ==
    ASSUME IInv, UNCHANGED <<frames, said, halted>>,
           cpus' = cpus \/ (frames = <<>> /\ cpus' # "over"), lapic_base' = lapic_base \/ frames = <<>>
    PROVE  IInv'
<1>1. CASE frames = <<>>
  BY <1>1 DEF IInv
<1>2. CASE frames # <<>>
  <2>1. UNCHANGED <<frames, said, halted, lapic_base, cpus>>
    BY <1>2
  <2> QED
    BY <2>1 DEF IInv, TopInv, Top, Reported, Printed, Line, Traced
<1> QED
  BY <1>1, <1>2

\* A first call of kpanic: nothing has been printed.
LEMMA FirstCall ==
    ASSUME IInv, frames = <<>>, NEW f \in Frame, f.at = "send", frames' = <<f>>,
           UNCHANGED <<said, halted>>
    PROVE  IInv'
<1>1. said = <<>> /\ ~ halted
  BY DEF IInv
<1>2. frames' \in Seq(Frame) /\ Len(frames') = 1 /\ frames'[1] = f /\ frames' # <<>>
  OBVIOUS
<1>3. Reported(0)' /\ Printed("no_lapic", 0)'
  BY <1>1 DEF Reported, Printed
<1>4. Top'.at = "send"
  BY <1>2 DEF Top
<1>5. TopInv'
  <2>1. Len(frames') - 1 = 0
    BY <1>2
  <2> QED
    BY <1>1, <2>1, <1>3, <1>4 DEF TopInv
<1> QED
  BY <1>1, <1>2, <1>5 DEF IInv

\* The innermost call goes on to l.
LEMMA GotoFacts ==
    ASSUME IInv, frames # <<>>, NEW l \in Labels, Goto(l)
    PROVE  frames' \in Seq(Frame) /\ Len(frames') = Len(frames) /\ frames' # <<>> /\ Top'.at = l
<1>1. frames \in Seq(Frame) /\ Len(frames) \in 1 .. Len(frames) /\ Top \in Frame
  BY DEF IInv, Top
<1>2. frames' = [frames EXCEPT ![Len(frames)] = [Top EXCEPT !.at = l]]
  BY DEF Goto, Top
<1>3. [Top EXCEPT !.at = l] \in Frame /\ [Top EXCEPT !.at = l].at = l
  BY <1>1 DEF Frame
<1>4. frames' \in Seq(Frame) /\ Len(frames') = Len(frames)
  BY <1>1, <1>2, <1>3
<1>5. frames'[Len(frames)] = [Top EXCEPT !.at = l]
  BY <1>1, <1>2
<1>6. Len(frames) # 0 /\ Len(<<>>) = 0
  BY <1>1
<1> QED
  BY <1>3, <1>4, <1>5, <1>6 DEF Top

\* A call inside the innermost call.
LEMMA NestFacts ==
    ASSUME IInv, NEW f \in Frame, Nest(f)
    PROVE  frames' \in Seq(Frame) /\ Len(frames') = Len(frames) + 1 /\ frames' # <<>> /\ Top' = f
<1>1. frames \in Seq(Frame) /\ Len(frames) \in Nat
  BY DEF IInv
<1>2. frames' = Append(frames, f)
  BY DEF Nest
<1>3. frames' \in Seq(Frame) /\ Len(frames') = Len(frames) + 1
  BY <1>1, <1>2
<1>4. frames'[Len(frames) + 1] = f
  BY <1>1, <1>2
<1>5. Len(frames') # 0 /\ Len(<<>>) = 0
  BY <1>1, <1>3
<1> QED
  BY <1>3, <1>4, <1>5 DEF Top

\* What the invariant says inside a call.
LEMMA InCall ==
    ASSUME IInv, frames # <<>>
    PROVE  /\ frames \in Seq(Frame) /\ said \in Seq(Lines) /\ Len(frames) \in Nat /\ Len(frames) > 0
           /\ cpus # "over" => TopInv
BY DEF IInv

\* The steps of kpanic.
LEMMA PanicStepKeeps ==
    ASSUME IInv, PanicStep, UNCHANGED <<lapic_base, cpus>>
    PROVE  IInv'
<1>0. frames # <<>> /\ ~ halted
  BY DEF PanicStep, SendDie, SendDieEarly, OthersHalted, WaitPastEnd, PrintBegin, PrintEnd,
         BacktraceFaults, Backtrace, Hcf, At, Panicking
<1>a. /\ frames \in Seq(Frame) /\ said \in Seq(Lines) /\ Len(frames) \in Nat /\ Len(frames) > 0
      /\ cpus # "over" => TopInv
  BY <1>0, InCall
<1>b. \A c \in BOOLEAN, h \in {"ok", "bad"} : Call(c, h) \in Frame /\ Call(c, h).at = "send"
  BY DEF Call, Frame, Labels
<1>c. \A l \in Labels : Goto(l) =>
        frames' \in Seq(Frame) /\ Len(frames') = Len(frames) /\ frames' # <<>> /\ Top'.at = l
  BY <1>0, GotoFacts
<1>d. \A f \in Frame : Nest(f) =>
        frames' \in Seq(Frame) /\ Len(frames') = Len(frames) + 1 /\ frames' # <<>> /\ Top' = f
  BY NestFacts
<1>e. \A n : UNCHANGED said => (Reported(n)' <=> Reported(n)) /\ (Traced(n)' <=> Traced(n))
  BY DEF Reported, Printed, Traced, Line
<1>f. \A w \in Words, n \in Nat : Line(w, n) \in Lines
  BY DEF Line, Lines
<1>g. \A w, n : Line(w, n)' = Line(w, n)
  BY DEF Line
<1>1. CASE SendDie
  <2>1. lapic_base /\ Top.at = "send" /\ Goto("wait") /\ UNCHANGED <<said, halted>>
    BY <1>1 DEF SendDie, At
  <2>2. frames' \in Seq(Frame) /\ Len(frames') = Len(frames) /\ frames' # <<>> /\ Top'.at = "wait"
    BY <2>1, <1>c DEF Labels
  <2>3. cpus # "over" => TopInv'
    BY <2>1, <2>2, <1>0, <1>a, <1>e DEF TopInv
  <2> QED
    BY <2>1, <2>2, <2>3, <1>a DEF IInv
<1>2. CASE SendDieEarly
  <2>1. /\ ~ lapic_base /\ Nest(Call(FALSE, "ok")) /\ UNCHANGED halted
        /\ said' = Append(said, Line("no_lapic", Len(frames)))
    BY <1>2 DEF SendDieEarly
  <2>2. frames' \in Seq(Frame) /\ Len(frames') = Len(frames) + 1 /\ frames' # <<>> /\ Top'.at = "send"
    BY <2>1, <1>b, <1>d
  <2>3. said' \in Seq(Lines)
    <3>1. Line("no_lapic", Len(frames)) \in Lines
      BY <1>a, <1>f DEF Words
    <3> QED
      BY <2>1, <3>1, <1>a
  <2>4. cpus # "over" => Printed("no_lapic", Len(frames) - 1)
    BY <2>1, <1>a DEF TopInv
  <2>5. cpus # "over" => /\ Len(said') = Len(frames)
                         /\ \A k \in 1 .. Len(frames) : said'[k] = Line("no_lapic", k)
    <3> DEFINE x == Line("no_lapic", Len(frames))
    <3> HIDE DEF x
    <3>1. said' = Append(said, x) /\ said \in Seq(Lines)
      BY <2>1, <1>a DEF x
    <3>2. Len(said') = Len(said) + 1 /\ said'[Len(said) + 1] = x /\ \A k \in 1 .. Len(said) : said'[k] = said[k]
      BY <3>1
    <3>3. \A k \in 1 .. Len(frames) : k \in 1 .. Len(frames) - 1 \/ k = Len(frames)
      BY <1>a
    <3> QED
      BY <3>2, <3>3, <2>4, <1>a DEF Printed, x
  <2>6. cpus # "over" => Printed("no_lapic", Len(frames) - 1)'
    <3>1. Len(frames') - 1 = Len(frames)
      BY <2>2, <1>a
    <3> QED
      BY <3>1, <2>5, <1>g DEF Printed
  <2>7. cpus # "over" => TopInv'
    BY <2>1, <2>2, <2>6, <1>0 DEF TopInv
  <2> QED
    BY <2>2, <2>3, <2>7 DEF IInv
<1>3. CASE OthersHalted
  <2>1. Top.at = "wait" /\ Goto("report") /\ UNCHANGED <<said, halted>>
    BY <1>3 DEF OthersHalted, At
  <2>2. frames' \in Seq(Frame) /\ Len(frames') = Len(frames) /\ frames' # <<>> /\ Top'.at = "report"
    BY <2>1, <1>c DEF Labels
  <2>3. cpus # "over" => TopInv'
    BY <2>1, <2>2, <1>0, <1>a, <1>e DEF TopInv
  <2> QED
    BY <2>1, <2>2, <2>3, <1>a DEF IInv
<1>4. CASE WaitPastEnd
  <2>1. /\ cpus = "over" /\ UNCHANGED <<said, halted>>
        /\ Goto("report") \/ Goto("stuck") \/ Nest(Call(TRUE, "ok"))
    BY <1>4 DEF WaitPastEnd
  <2>2. frames' \in Seq(Frame) /\ frames' # <<>>
    BY <2>1, <1>b, <1>c, <1>d DEF Labels
  <2> QED
    BY <2>1, <2>2, <1>a DEF IInv
<1>5. CASE PrintBegin
  <2>1. Top.at = "report" /\ Goto("printing") /\ UNCHANGED <<said, halted>>
    BY <1>5 DEF PrintBegin, At
  <2>2. frames' \in Seq(Frame) /\ Len(frames') = Len(frames) /\ frames' # <<>> /\ Top'.at = "printing"
    BY <2>1, <1>c DEF Labels
  <2>3. cpus # "over" => TopInv'
    BY <2>1, <2>2, <1>0, <1>a, <1>e DEF TopInv
  <2> QED
    BY <2>1, <2>2, <2>3, <1>a DEF IInv
<1>6. CASE PrintEnd
  <2>1. Top.at = "printing" /\ Goto("trace") /\ UNCHANGED halted
        /\ said' = Append(said, Line("report", Len(frames)))
    BY <1>6 DEF PrintEnd, At
  <2>2. frames' \in Seq(Frame) /\ Len(frames') = Len(frames) /\ frames' # <<>> /\ Top'.at = "trace"
    BY <2>1, <1>c DEF Labels
  <2>3. said' \in Seq(Lines)
    <3>1. Line("report", Len(frames)) \in Lines
      BY <1>a, <1>f DEF Words
    <3> QED
      BY <2>1, <3>1, <1>a
  <2>4. Reported(Len(frames) - 1) =>
          Len(said') = Len(frames) /\ \A k \in 1 .. Len(frames) : said'[k] = Line("report", k)
    BY <2>1, <1>a, <1>f DEF Reported, Printed
  <2>5. cpus # "over" => lapic_base /\ Reported(Len(frames) - 1)
    BY <2>1, <1>a DEF TopInv
  <2>6. cpus # "over" => Reported(Len(frames))'
    BY <2>2, <2>4, <2>5, <1>g DEF Reported, Printed
  <2>7. cpus # "over" => TopInv'
    BY <2>1, <2>2, <2>5, <2>6, <1>0 DEF TopInv
  <2> QED
    BY <2>2, <2>3, <2>7 DEF IInv
<1>7. CASE BacktraceFaults
  <2>1. Top.at = "trace" /\ Nest(Call(TRUE, IF Top.ctx THEN "bad" ELSE "ok")) /\ UNCHANGED <<said, halted>>
    BY <1>7 DEF BacktraceFaults, At
  <2>2. frames' \in Seq(Frame) /\ Len(frames') = Len(frames) + 1 /\ frames' # <<>> /\ Top'.at = "send"
    BY <2>1, <1>b, <1>d
  <2>3. cpus # "over" => lapic_base /\ Reported(Len(frames))
    BY <2>1, <1>a DEF TopInv
  <2>4. Len(frames) = Len(frames') - 1
    BY <2>2, <1>a
  <2>5. cpus # "over" => Reported(Len(frames) - 1)'
    BY <2>1, <2>3, <2>4, <1>g DEF Reported, Printed
  <2>6. cpus # "over" => TopInv'
    BY <2>1, <2>2, <2>3, <2>5, <1>0 DEF TopInv
  <2> QED
    BY <2>1, <2>2, <2>6, <1>a DEF IInv
<1>8. CASE Backtrace
  <2>1. Top.at = "trace" /\ Goto("hcf") /\ UNCHANGED halted
        /\ said' = Append(said, Line("backtrace", Len(frames)))
    BY <1>8 DEF Backtrace, At
  <2>2. frames' \in Seq(Frame) /\ Len(frames') = Len(frames) /\ frames' # <<>> /\ Top'.at = "hcf"
    BY <2>1, <1>c DEF Labels
  <2>3. said' \in Seq(Lines)
    <3>1. Line("backtrace", Len(frames)) \in Lines
      BY <1>a, <1>f DEF Words
    <3> QED
      BY <2>1, <3>1, <1>a
  <2>4. Reported(Len(frames)) =>
          /\ Len(said') = Len(frames) + 1 /\ said'[Len(frames) + 1] = Line("backtrace", Len(frames))
          /\ \A k \in 1 .. Len(frames) : said'[k] = Line("report", k)
    BY <2>1, <1>a, <1>f DEF Reported, Printed
  <2>5. cpus # "over" => lapic_base /\ Reported(Len(frames))
    BY <2>1, <1>a DEF TopInv
  <2>6. cpus # "over" => Traced(Len(frames))'
    BY <2>2, <2>4, <2>5, <1>g DEF Traced
  <2>7. cpus # "over" => TopInv'
    BY <2>1, <2>2, <2>5, <2>6 DEF TopInv
  <2> QED
    BY <2>2, <2>3, <2>7 DEF IInv
<1>9. CASE Hcf
  <2>1. Top.at = "hcf" /\ UNCHANGED <<frames, said>>
    BY <1>9 DEF Hcf, At
  <2>2. Top' = Top /\ Len(frames') = Len(frames)
    BY <2>1 DEF Top
  <2>3. cpus # "over" => lapic_base
    BY <2>1, <1>a DEF TopInv
  <2>4. cpus # "over" => TopInv'
    BY <2>1, <2>2, <2>3, <1>a, <1>e DEF TopInv
  <2> QED
    BY <2>1, <2>4, <1>0, <1>a DEF IInv
<1> QED
  BY <1>1, <1>2, <1>3, <1>4, <1>5, <1>6, <1>7, <1>8, <1>9 DEF PanicStep

\* The stages of emk_entry: nothing is printed, and a failed check is a first call.
LEMMA BootStepKeeps ==
    ASSUME IInv, BootStep
    PROVE  IInv'
<1>0. Call(FALSE, "ok") \in Frame /\ Call(FALSE, "ok").at = "send"
  BY DEF Call, Frame, Labels
<1>1. ASSUME frames = <<>>, KpanicNull PROVE IInv'
  BY <1>0, <1>1, FirstCall DEF KpanicNull
<1>2. CASE \E s \in {Stages[k] : k \in DOMAIN Stages} : Initialise(s) \/ CheckFails(s)
  <2> PICK s : Initialise(s) \/ CheckFails(s)
    BY <1>2
  <2>1. CASE Initialise(s)
    BY <2>1, PanicFrame DEF Initialise, panic
  <2>2. CASE CheckFails(s)
    BY <2>2, <1>1 DEF CheckFails, Executing
  <2> QED
    BY <2>1, <2>2
<1>3. CASE FindMadt \/ ScanMadt \/ ScanDone \/ SetUpIoapic \/ SetUpTimer \/ UnmaskTimer \/ ChooseInit
  BY <1>3, PanicFrame DEF FindMadt, ScanMadt, ScanDone, SetUpIoapic, SetUpTimer,
                         UnmaskTimer, ChooseInit, panic
<1>4. CASE ScanFails \/ IoapicFails \/ TimerFails
  BY <1>4, <1>1 DEF ScanFails, IoapicFails, TimerFails, Executing
<1>5. CASE LapicInit
  BY <1>5, PanicFrame DEF LapicInit, panic, Advance, Executing
<1>6. CASE SmpEarlyInit
  BY <1>6, PanicFrame DEF SmpEarlyInit, panic, Advance, Executing
<1>7. CASE TooManyCpus
  BY <1>7, <1>1 DEF TooManyCpus, Executing
<1>8. CASE StartInit
  BY <1>8, PanicFrame DEF StartInit
<1>9. CASE SmpInit
  BY <1>9, PanicFrame DEF SmpInit
<1> QED
  BY <1>2, <1>3, <1>4, <1>5, <1>6, <1>7, <1>8, <1>9 DEF BootStep

LEMMA NextIInv == IInv /\ [Next]_vars => IInv'
<1> SUFFICES ASSUME IInv, [Next]_vars PROVE IInv'
  OBVIOUS
<1>1. CASE BootStep
  BY <1>1, BootStepKeeps
<1>2. CASE Exception
  <2> PICK chain \in {"ok", "bad"} : frames' = <<Call(TRUE, chain)>>
    BY <1>2 DEF Exception
  <2>1. Call(TRUE, chain) \in Frame /\ Call(TRUE, chain).at = "send"
    BY DEF Call, Frame, Labels
  <2> QED
    BY <1>2, <2>1, FirstCall DEF Exception, Executing
<1>3. CASE PanicStep /\ UNCHANGED <<lapic_base, cpus>>
  BY <1>3, PanicStepKeeps
<1>4. CASE /\ Preempt \/ OtherLogs \/ OtherPrints \/ OtherExits \/ PeersHalt \/ PeerExits
           /\ UNCHANGED <<lapic_base, cpus>>
  BY <1>4, PanicFrame DEF Preempt, OtherLogs, OtherPrints, OtherExits, PeersHalt, PeerExits
<1>5. CASE UNCHANGED vars
  BY <1>5, PanicFrame DEF vars, panic
<1> QED
  BY <1>1, <1>2, <1>3, <1>4, <1>5 DEF Next, CpuStep

\* The inductive invariant: what has been printed, told from the calls of kpanic
\* that have not returned and from where the innermost one is.
THEOREM Invariance == Spec => []IInv
<1>1. Init => IInv
  BY DEF Init, PanicInit, IInv
<1>2. IInv /\ [Next]_vars => IInv'
  BY NextIInv
<1> QED
  BY <1>1, <1>2, PTL DEF Spec

\* From lapic_init on kpanic prints the report of what went wrong before anything
\* else, with get_cpu_local's complaint in front of it while no CPU is known, even
\* when its own backtrace faults and calls it again, as often as the stack
\* allows; a CPU that halts has printed each report once and one backtrace.
\* Before lapic_init no report is ever printed.
THEOREM CauseReportedFirstCorrect == Spec => []CauseReportedFirst
<1>1. ASSUME IInv, cpus # "over", frames # <<>> PROVE CauseReportedFirst
  <2>1. said \in Seq(Lines) /\ frames \in Seq(Frame) /\ Len(frames) \in Nat /\ Len(frames) > 0 /\ TopInv
    BY <1>1, InCall
  <2>2. CASE ~ lapic_base
    <3>1. DOMAIN said = 1 .. Len(said)
      BY <2>1
    <3>2. ~ halted /\ Printed("no_lapic", Len(frames) - 1)
      BY <2>1, <2>2 DEF TopInv
    <3> QED
      BY <2>2, <3>1, <3>2 DEF CauseReportedFirst, Printed
  <2>3. CASE lapic_base
    <3>1. Top.at \in Labels
      <4>1. Len(frames) \in 1 .. Len(frames)
        BY <2>1
      <4>2. Top \in Frame
        BY <2>1, <4>1 DEF Top
      <4> QED
        BY <4>2 DEF Frame
    <3>2. said # <<>> => said[1] = Line("report", 1)
      <4>1. \A n \in Nat : Reported(n) => (said # <<>> => said[1] = Line("report", 1))
        BY <2>1 DEF Reported, Printed
      <4>2. Traced(Len(frames)) => said[1] = Line("report", 1)
        BY <2>1 DEF Traced
      <4>3. Reported(Len(frames) - 1) \/ Reported(Len(frames)) \/ Traced(Len(frames))
        BY <2>1, <2>3, <3>1 DEF TopInv, Labels
      <4>4. Len(frames) - 1 \in Nat
        BY <2>1
      <4> QED
        BY <2>1, <4>1, <4>2, <4>3, <4>4
    <3> DEFINE All == [n \in 1 .. Len(frames) + 1 |->
                         IF n <= Len(frames) THEN Line("report", n) ELSE Line("backtrace", Len(frames))]
    <3>3. ASSUME halted PROVE said = All
      <4>1. /\ Len(said) = Len(frames) + 1 /\ said[Len(frames) + 1] = Line("backtrace", Len(frames))
            /\ \A k \in 1 .. Len(frames) : said[k] = Line("report", k)
        BY <2>1, <2>3, <3>3 DEF TopInv, Traced
      <4>2. said = [n \in 1 .. Len(said) |-> said[n]]
        BY <2>1
      <4>3. \A n \in 1 .. Len(frames) + 1 :
              said[n] = IF n <= Len(frames) THEN Line("report", n) ELSE Line("backtrace", Len(frames))
        BY <2>1, <4>1
      <4> HIDE DEF Line
      <4> QED
        BY <4>1, <4>2, <4>3
    <3> QED
      BY <2>3, <3>2, <3>3 DEF CauseReportedFirst
  <2> QED
    BY <2>2, <2>3
<1>2. ASSUME IInv, cpus = "over" \/ frames = <<>> PROVE CauseReportedFirst
  BY <1>2 DEF IInv, CauseReportedFirst
<1>3. IInv => CauseReportedFirst
  BY <1>1, <1>2
<1> QED
  BY <1>3, Invariance, PTL
----------------------------------------------------------------------------
(***************************************************************************)
(* Interrupt routing                                                       *)
(***************************************************************************)
Pin == 0 .. Pins - 1
Item == [type : Nat, len : Nat, irq : Nat, gsi : Nat, aligned : BOOLEAN, off : Nat]
Field == [mask : BOOLEAN, vec : 0 .. VecMod - 1, mode : 0 .. 7, dest : Nat]
PitWord(mask) == Word(mask, PIT_VECTOR, IF Broadcast THEN AllCpus ELSE BspId)

\* The stages after the scan of the MADT.
AfterScan == {"mp", "lapic", "smp_early", "ioapic", "timer", "smp", "unmask", "init", "load", "run"}

\* Where the scan is: behind entry pos, and inside the table.
ScanInv ==
    /\ table \in Tables /\ tableLen \in Nat
    /\ tableLen <= Bytes(table)
    /\ table # <<>> => table[Len(table)].off < tableLen
    /\ pos \in 0 .. Len(table)
    /\ offset = IF pos = 0 THEN 0 ELSE table[pos].off + table[pos].len
    /\ offset <= tableLen
    /\ stage \in AfterScan => ~ Scanning

\* A list l for type t holds some of the first p entries of tab, f says which,
\* in the table's order, and all of them unless it is full.
Picks(tab, p, t, l, f) ==
    /\ l \in Seq(Item) /\ Len(l) <= ListMax
    /\ f \in [1 .. Len(l) -> 1 .. p]
    /\ \A i, j \in 1 .. Len(l) : i < j => f[i] < f[j]
    /\ \A k \in 1 .. Len(l) : l[k] = tab[f[k]] /\ l[k].type = t /\ l[k].len >= Size[t]
    /\ Len(l) < ListMax =>
         \A i \in 1 .. p : tab[i].type = t => \E k \in 1 .. Len(l) : f[k] = i

ListInv ==
    /\ lists \in [Listed -> Seq(Item)]
    /\ \A t \in Listed : \E f : Picks(table, pos, t, lists[t], f)

\* The redirection entries, by stage.
RedInv ==
    /\ red \in [Pin -> Field]
    /\ stage \in {"timer", "smp", "unmask"} => \A g \in Pin : red[g].mask
    /\ stage \in {"smp", "unmask"} =>
         irq_to_gsi(0) \in Pin /\ red[irq_to_gsi(0)] = PitWord(TRUE) /\ handler
    /\ stage \in {"init", "load", "run"} =>
         /\ irq_to_gsi(0) \in Pin /\ red[irq_to_gsi(0)] = PitWord(FALSE) /\ handler
         /\ \A g \in Pin : ~ red[g].mask <=> g = irq_to_gsi(0)

\* The rest of the types.
KindInv ==
    /\ stage \in {Stages[k] : k \in DOMAIN Stages}
    /\ mod_idx # None => mod_idx[1] < mod_idx[2]
    /\ kprintf_lock \in {"free", "main"} /\ running \in {"main", "other"}
    /\ other \in {"absent", "user", "log", "exit"} /\ peers \in {"quiet", "ready", "stuck"}
    /\ cpus \in {"none", "known", "over"} /\ Len(frames) <= Depth

RouteInv == ScanInv /\ ListInv /\ RedInv /\ KindInv

\* emk_entry goes through its parts in their order.
LEMMA StageOrder ==
    /\ \A k \in 1 .. 18 : NextStage(Stages[k]) = Stages[k + 1]
    /\ DOMAIN Stages = 1 .. 19
<1>1. \A j, k \in 1 .. 19 : Stages[j] = Stages[k] => j = k
  BY DEF Stages
<1>2. DOMAIN Stages = 1 .. 19
  BY DEF Stages
<1> QED
  BY <1>1, <1>2 DEF NextStage

\* The same, spelled out.
LEMMA NextStages ==
    /\ NextStage("limine") = "tables" /\ NextStage("tables") = "memory"
    /\ NextStage("memory") = "paging" /\ NextStage("paging") = "vmm"
    /\ NextStage("vmm") = "heap" /\ NextStage("heap") = "acpi"
    /\ NextStage("acpi") = "find_madt" /\ NextStage("find_madt") = "madt"
    /\ NextStage("madt") = "mp" /\ NextStage("mp") = "lapic"
    /\ NextStage("lapic") = "smp_early" /\ NextStage("smp_early") = "ioapic"
    /\ NextStage("ioapic") = "timer" /\ NextStage("timer") = "smp"
    /\ NextStage("smp") = "unmask" /\ NextStage("unmask") = "init"
    /\ NextStage("init") = "load" /\ NextStage("load") = "run"
BY StageOrder DEF Stages

\* The parts by name.
LEMMA StageSet ==
    {Stages[k] : k \in DOMAIN Stages} =
        {"limine", "tables", "memory", "paging", "vmm", "heap", "acpi", "find_madt", "madt"} \cup AfterScan
<1>1. DOMAIN Stages = 1 .. 19
  BY StageOrder
<1>2. \A k \in 1 .. 19 : Stages[k] \in
        {"limine", "tables", "memory", "paging", "vmm", "heap", "acpi", "find_madt", "madt"} \cup AfterScan
  BY DEF Stages, AfterScan
<1>3. \A s \in {"limine", "tables", "memory", "paging", "vmm", "heap", "acpi", "find_madt", "madt"} \cup AfterScan :
        \E k \in 1 .. 19 : Stages[k] = s
  <2>1. /\ Stages[1] = "limine" /\ Stages[2] = "tables" /\ Stages[3] = "memory" /\ Stages[4] = "paging"
        /\ Stages[5] = "vmm" /\ Stages[6] = "heap" /\ Stages[7] = "acpi" /\ Stages[8] = "find_madt"
        /\ Stages[9] = "madt" /\ Stages[10] = "mp" /\ Stages[11] = "lapic" /\ Stages[12] = "smp_early"
        /\ Stages[13] = "ioapic" /\ Stages[14] = "timer" /\ Stages[15] = "smp" /\ Stages[16] = "unmask"
        /\ Stages[17] = "init" /\ Stages[18] = "load" /\ Stages[19] = "run"
    BY DEF Stages
  <2> QED
    BY <2>1 DEF AfterScan
<1> QED
  BY <1>1, <1>2, <1>3

\* A word fits its fields: a vector spills at most one bit into the mode.
LEMMA WordType ==
    ASSUME NEW mask \in BOOLEAN, NEW vec \in Nat, vec < 2 * VecMod, NEW dest \in Nat
    PROVE  Word(mask, vec, dest) \in Field /\ Word(mask, vec, dest).mask = mask
<1>1. VecMod \in Nat /\ VecMod > 0
  BY RoutingAssumption DEF PIT_VECTOR
<1>2. vec % VecMod \in 0 .. VecMod - 1 /\ vec \div VecMod \in 0 .. 7
  BY <1>1
<1> QED
  BY <1>2 DEF Word, Field

\* The timer's entry; unmasking it changes nothing else.
LEMMA PitWordType ==
    /\ PitWord(TRUE) \in Field /\ PitWord(TRUE).mask
    /\ PitWord(FALSE) \in Field /\ ~ PitWord(FALSE).mask
    /\ [PitWord(TRUE) EXCEPT !.mask = FALSE] = PitWord(FALSE)
<1>1. PIT_VECTOR \in Nat /\ PIT_VECTOR < 2 * VecMod /\ (IF Broadcast THEN AllCpus ELSE BspId) \in Nat
  BY RoutingAssumption DEF PIT_VECTOR, AllCpus
<1>2. \A b \in BOOLEAN : PitWord(b) \in Field /\ PitWord(b).mask = b
  BY <1>1, WordType DEF PitWord
<1>3. \A p, q \in Field : p.mask = q.mask /\ p.vec = q.vec /\ p.mode = q.mode /\ p.dest = q.dest => p = q
  BY DEF Field
<1>4. [PitWord(TRUE) EXCEPT !.mask = FALSE] = PitWord(FALSE)
  <2> DEFINE p == [PitWord(TRUE) EXCEPT !.mask = FALSE]
             q == PitWord(FALSE)
  <2>1. PitWord(TRUE) \in Field /\ q \in Field /\ q.mask = FALSE
    BY <1>2
  <2>2. /\ PitWord(TRUE).vec = q.vec /\ PitWord(TRUE).mode = q.mode /\ PitWord(TRUE).dest = q.dest
    BY DEF PitWord, Word
  <2>3. \A r \in Field : LET s == [r EXCEPT !.mask = FALSE] IN
          s \in Field /\ s.mask = FALSE /\ s.vec = r.vec /\ s.mode = r.mode /\ s.dest = r.dest
    BY DEF Field
  <2>4. p \in Field /\ p.mask = FALSE /\ p.vec = q.vec /\ p.mode = q.mode /\ p.dest = q.dest
    BY <2>1, <2>2, <2>3
  <2> HIDE DEF p, q
  <2>5. p = q
    BY <1>3, <2>1, <2>4
  <2> QED
    BY <2>5 DEF p, q
<1> QED
  BY <1>2, <1>4

\* What the firmware's tables are made of.
LEMMA TableFacts ==
    ASSUME ScanInv
    PROVE  /\ table \in Seq(Item) /\ Len(table) \in Nat
           /\ \A i \in 1 .. Len(table) : table[i] \in Item
           /\ \A i, j \in 1 .. Len(table) : i < j =>
                table[i].off + table[i].len <= table[j].off
           /\ \A i \in 1 .. Len(table) - 1 : table[i].off + table[i].len = table[i + 1].off
           /\ Len(table) > 0 => table[1].off = 0 /\ table[Len(table)].len > 0
           /\ Bytes(table) = IF Len(table) = 0 THEN 0 ELSE table[Len(table)].off + table[Len(table)].len
<1>1. table \in Seq(Item) /\ Layout(table)
  BY RoutingAssumption DEF ScanInv, Item
<1>2. Len(table) \in Nat /\ DOMAIN table = 1 .. Len(table) /\ (table = <<>> <=> Len(table) = 0)
  BY <1>1
<1> QED
  BY <1>1, <1>2 DEF Layout, Bytes

\* The scan is over exactly when it has passed all entries, and while it goes on
\* it stands at the next one.
LEMMA ScanFacts ==
    ASSUME ScanInv
    PROVE  /\ offset \in Nat
           /\ Scanning <=> pos < Len(table)
           /\ pos < Len(table) => pos + 1 \in 1 .. Len(table) /\ table[pos + 1].off = offset
           /\ \A i \in 1 .. pos : table[i].off + table[i].len <= offset
<1>1. /\ pos \in 0 .. Len(table) /\ tableLen \in Nat /\ tableLen <= Bytes(table)
      /\ offset = IF pos = 0 THEN 0 ELSE table[pos].off + table[pos].len
      /\ offset <= tableLen
      /\ Len(table) > 0 => table[Len(table)].off < tableLen
  BY TableFacts DEF ScanInv
<1>2. \A i \in 1 .. Len(table) : table[i].off \in Nat /\ table[i].len \in Nat
  BY TableFacts DEF Item
<1>3. offset \in Nat /\ Len(table) \in Nat
  BY <1>1, <1>2, TableFacts
<1>4. pos < Len(table) => pos + 1 \in 1 .. Len(table) /\ table[pos + 1].off = offset
  <2>1. CASE pos = 0
    BY <1>1, <1>3, <2>1, TableFacts
  <2>2. CASE pos > 0 /\ pos < Len(table)
    BY <1>1, <1>3, <2>2, TableFacts
  <2> QED
    BY <1>1, <1>3, <2>1, <2>2
<1>5. pos < Len(table) => offset < tableLen
  <2> SUFFICES ASSUME pos < Len(table) PROVE offset < tableLen
    OBVIOUS
  <2>1. pos + 1 \in 1 .. Len(table) /\ Len(table) \in 1 .. Len(table)
    BY <1>1, <1>3
  <2>2. CASE pos + 1 = Len(table)
    BY <1>1, <1>3, <1>4, <2>2
  <2>3. CASE pos + 1 < Len(table)
    <3>1. table[pos + 1].off + table[pos + 1].len <= table[Len(table)].off
      BY <2>1, <2>3, TableFacts
    <3> QED
      BY <1>1, <1>2, <1>3, <1>4, <2>1, <3>1
  <2> QED
    BY <1>1, <1>3, <2>2, <2>3
<1>6. pos = Len(table) => ~ (offset < tableLen)
  BY <1>1, <1>3, TableFacts
<1>7. \A i \in 1 .. pos : table[i].off + table[i].len <= offset
  <2> TAKE i \in 1 .. pos
  <2>1. i \in 1 .. Len(table) /\ pos \in 1 .. Len(table) /\ pos > 0
    BY <1>1, <1>3
  <2>2. CASE i = pos
    BY <1>1, <1>2, <2>1, <2>2
  <2>3. CASE i < pos
    <3>1. table[i].off + table[i].len <= table[pos].off
      BY <2>1, <2>3, TableFacts
    <3> QED
      BY <1>1, <1>2, <2>1, <3>1
  <2> QED
    BY <1>1, <2>2, <2>3
<1> QED
  BY <1>1, <1>3, <1>4, <1>5, <1>6, <1>7 DEF Scanning

\* A set of natural numbers that is not empty has a least element.
LEMMA Least ==
    ASSUME NEW S \in SUBSET Nat, S # {}
    PROVE  Min(S) \in S /\ \A y \in S : Min(S) <= y
<1>1. IsWellFoundedOn(OpToRel(<, Nat), Nat)
  BY NatLessThanWellFounded
<1>2. PICK x \in S : \A y \in S : ~ (<<y, x>> \in OpToRel(<, Nat))
  BY <1>1, WFMin
<1>3. \A y \in S : <<y, x>> \in OpToRel(<, Nat) <=> y < x
  BY DEF OpToRel
<1>4. \A y \in S : ~ (y < x)
  BY <1>2, <1>3, Zenon
<1>5. \E z \in S : \A y \in S : z <= y
  BY <1>4
<1> QED
  BY <1>5 DEF Min

\* Min is the only least element.
LEMMA LeastIs ==
    ASSUME NEW S \in SUBSET Nat, NEW x \in S, \A y \in S : x <= y
    PROVE  Min(S) = x
<1>1. Min(S) \in S /\ Min(S) <= x
  BY Least
<1>2. Min(S) \in Nat /\ x \in Nat /\ x <= Min(S)
  BY <1>1
<1> QED
  BY <1>1, <1>2

\* Nothing the routing depends on changes.
LEMMA ScanFrame ==
    ASSUME ScanInv, ListInv, UNCHANGED <<table, tableLen, pos, offset, lists>>,
           stage' \in AfterScan => stage \in AfterScan \/ ~ Scanning
    PROVE  ScanInv' /\ ListInv'
<1>1. ScanInv'
  BY DEF ScanInv, Scanning, Bytes
<1>3. ListInv'
  BY DEF ListInv
<1> QED
  BY <1>1, <1>3

\* What irq_to_gsi returns depends on the lists only.
LEMMA GsiFacts ==
    /\ UNCHANGED lists => irq_to_gsi(0)' = irq_to_gsi(0)
    /\ ListInv => irq_to_gsi(0) \in Nat
<1>1. UNCHANGED lists => irq_to_gsi(0)' = irq_to_gsi(0)
  BY DEF irq_to_gsi
<1>2. ASSUME ListInv PROVE irq_to_gsi(0) \in Nat
  <2> DEFINE list == lists[IOAPIC_SRC_OVR]
             isos == {k \in DOMAIN list : list[k].irq = 0}
  <2>1. list \in Seq(Item) /\ DOMAIN list = 1 .. Len(list)
    BY <1>2 DEF ListInv, Listed
  <2>2. CASE isos = {}
    BY <2>2 DEF irq_to_gsi
  <2>3. CASE isos # {}
    <3>1. isos \in SUBSET Nat
      BY <2>1
    <3>2. Min(isos) \in isos
      BY <2>3, <3>1, Least
    <3>3. Min(isos) \in 1 .. Len(list) /\ \A k \in 1 .. Len(list) : list[k] \in Item
      BY <2>1, <3>2
    <3> HIDE DEF list
    <3>4. list[Min(isos)] \in Item
      BY <3>3
    <3> USE DEF list
    <3> QED
      BY <2>3, <3>4 DEF irq_to_gsi, Item
  <2> QED
    BY <2>2, <2>3
<1> QED
  BY <1>1, <1>2

\* The redirection entries stay, and what the next stage claims of them held before.
LEMMA RedFrame ==
    ASSUME RedInv, UNCHANGED <<lists, red, handler>>,
           \/ stage' = stage
           \/ stage' \notin {"timer", "unmask", "smp", "init", "load", "run"}
           \/ stage = "smp" /\ stage' = "unmask"
           \/ stage \in {"init", "load"} /\ stage' \in {"load", "run"}
    PROVE  RedInv'
<1>1. irq_to_gsi(0)' = irq_to_gsi(0)
  BY GsiFacts
<1>2. PitWord(TRUE)' = PitWord(TRUE) /\ PitWord(FALSE)' = PitWord(FALSE)
  BY DEF PitWord, Word
<1> QED
  BY <1>1, <1>2 DEF RedInv

\* A new stage, and nothing else of the types.
LEMMA KindFrame ==
    ASSUME KindInv, UNCHANGED <<mod_idx, kprintf_lock, running, other, frames, peers>>,
           stage' \in {Stages[k] : k \in DOMAIN Stages}, cpus' \in {"none", "known", "over"}
    PROVE  KindInv'
BY DEF KindInv

\* One round of the loop of madt_init.
LEMMA ScanKeeps ==
    ASSUME ScanInv, ListInv, MadtEntry, UNCHANGED <<table, tableLen, stage>>, stage = "madt"
    PROVE  ScanInv' /\ ListInv'
<1> DEFINE e == table[pos + 1]
           n == pos + 1
<1>1. /\ pos \in Nat /\ pos < Len(table) /\ n \in 1 .. Len(table) /\ n > 0 /\ n - 1 = pos
      /\ e \in Item /\ e.off = offset /\ offset \in Nat
      /\ table \in Seq(Item) /\ Len(table) \in Nat
  <2>1. pos \in 0 .. Len(table) /\ Len(table) \in Nat /\ table \in Seq(Item)
    BY TableFacts DEF ScanInv
  <2>2. Scanning
    BY DEF MadtEntry
  <2>3. pos < Len(table) /\ n \in 1 .. Len(table) /\ e.off = offset /\ offset \in Nat
    BY <2>2, ScanFacts
  <2>4. e \in Item
    BY <2>3, TableFacts
  <2> QED
    BY <2>1, <2>3, <2>4
<1>2. /\ e.len # 0 /\ offset + e.len <= tableLen /\ (e.type \in DOMAIN Size => e.len >= Size[e.type])
  <2>1. e.len \in Nat /\ tableLen \in Nat
    BY <1>1 DEF Item, ScanInv
  <2>2. \A t \in DOMAIN Size : Size[t] \in Nat
    BY DEF Size, LAPIC, IOAPIC, IOAPIC_SRC_OVR, IOAPIC_NMI_SRC, LAPIC_NMI, LAPIC_ADDR_OVR, LX2APIC, Listed
  <2> HIDE DEF e
  <2>3. ~ BadEntry(e)
    BY DEF MadtEntry, e
  <2> QED
    BY <1>1, <2>1, <2>2, <2>3 DEF BadEntry
<1>3. pos' = n /\ offset' = offset + e.len
  BY <1>2 DEF MadtEntry
<1>4. ScanInv'
  <2>1. table' = table /\ tableLen' = tableLen /\ Bytes(table)' = Bytes(table) /\ stage' \notin AfterScan
    BY DEF Bytes, AfterScan
  <2>2. pos' \in 0 .. Len(table) /\ offset' <= tableLen
    BY <1>1, <1>2, <1>3
  <2>3. pos' # 0 /\ offset' = table[pos'].off + table[pos'].len
    BY <1>1, <1>3
  <2> QED
    BY <2>1, <2>2, <2>3 DEF ScanInv
<1>5. ASSUME NEW t \in Listed PROVE lists'[t] \in Seq(Item) /\ \E f : Picks(table', pos', t, lists'[t], f)
  <2> DEFINE l == lists[t]
             m == Len(l)
  <2>1. lists \in [Listed -> Seq(Item)] /\ l \in Seq(Item) /\ m \in Nat
    BY DEF ListInv
  <2>2. PICK f : Picks(table, pos, t, l, f)
    BY DEF ListInv
  <2>3. /\ m <= ListMax /\ f \in [1 .. m -> 1 .. pos]
        /\ \A i, j \in 1 .. m : i < j => f[i] < f[j]
        /\ \A k \in 1 .. m : l[k] = table[f[k]] /\ l[k].type = t /\ l[k].len >= Size[t]
        /\ m < ListMax => \A i \in 1 .. pos : table[i].type = t => \E k \in 1 .. m : f[k] = i
    BY <2>2 DEF Picks
  <2>4. ListMax \in Nat
    BY RoutingAssumption
  <2>5. CASE e.type = t /\ m < ListMax
    <3> DEFINE L == lists'[t]
               g == [k \in 1 .. m + 1 |-> IF k = m + 1 THEN n ELSE f[k]]
    <3>1. L = Append(l, [e EXCEPT !.off = offset])
      BY <2>1, <2>5 DEF MadtEntry
    <3>2. [e EXCEPT !.off = offset] = e
      BY <1>1 DEF Item
    <3>3. L = Append(l, e)
      BY <3>1, <3>2
    <3> HIDE DEF e, L
    <3>4. /\ L \in Seq(Item) /\ Len(L) = m + 1 /\ L[m + 1] = e
          /\ \A k \in 1 .. m : L[k] = l[k]
      BY <1>1, <2>1, <3>3
    <3> HIDE DEF m, l
    <3>5. g \in [1 .. m + 1 -> 1 .. n] /\ g[m + 1] = n /\ \A k \in 1 .. m : g[k] = f[k] /\ f[k] \in 1 .. pos
      BY <1>1, <2>1, <2>3
    <3> HIDE DEF g, n
    <3>6. \A i, j \in 1 .. m + 1 : i < j => g[i] < g[j]
      <4> TAKE i, j \in 1 .. m + 1
      <4>0. m \in Nat /\ pos \in Nat /\ n - 1 = pos /\ n \in Nat
        BY <1>1, <2>1
      <4>1. CASE j = m + 1
        <5>1. i < j => i \in 1 .. m /\ g[i] \in 1 .. pos
          BY <3>5, <4>0, <4>1
        <5> QED
          BY <3>5, <4>0, <4>1, <5>1
      <4>2. CASE j # m + 1
        BY <2>1, <2>3, <3>5, <4>2
      <4> QED
        BY <4>1, <4>2
    <3>7. table[n] = e /\ e.type = t /\ e.len >= Size[t]
      BY <1>2, <2>5 DEF e, n, Size
    <3>8. \A k \in 1 .. m + 1 : L[k] = table[g[k]] /\ L[k].type = t /\ L[k].len >= Size[t]
      <4> TAKE k \in 1 .. m + 1
      <4>1. CASE k = m + 1
        BY <3>4, <3>5, <3>7, <4>1
      <4>2. CASE k # m + 1
        <5>1. k \in 1 .. m
          BY <2>1, <4>2
        <5>2. L[k] = l[k] /\ g[k] = f[k]
          BY <3>4, <3>5, <5>1
        <5> QED
          BY <2>3, <5>1, <5>2, Zenon
      <4> QED
        BY <4>1, <4>2
    <3>9. \A i \in 1 .. n : table[i].type = t => \E k \in 1 .. m + 1 : g[k] = i
      <4> TAKE i \in 1 .. n
      <4>1. CASE i = n
        BY <2>1, <3>5, <4>1
      <4>2. CASE i # n /\ table[i].type = t
        <5>1. i \in 1 .. pos
          BY <1>1, <4>2
        <5>2. PICK k \in 1 .. m : f[k] = i
          BY <2>3, <2>5, <4>2, <5>1 DEF m, l
        <5> QED
          BY <2>1, <3>5, <5>2
      <4> QED
        BY <4>1, <4>2
    <3>10. m + 1 <= ListMax
      BY <2>1, <2>4, <2>5 DEF m, l
    <3>11. lists'[t] = L /\ pos' = n /\ table' = table
      BY <1>3 DEF L, n
    <3>12. Picks(table, n, t, L, g)
      <4>1. /\ L \in Seq(Item) /\ Len(L) <= ListMax
            /\ g \in [1 .. Len(L) -> 1 .. n]
            /\ \A i, j \in 1 .. Len(L) : i < j => g[i] < g[j]
            /\ \A k \in 1 .. Len(L) : L[k] = table[g[k]] /\ L[k].type = t /\ L[k].len >= Size[t]
            /\ \A i \in 1 .. n : table[i].type = t => \E k \in 1 .. Len(L) : g[k] = i
        BY <3>4, <3>5, <3>6, <3>8, <3>9, <3>10, Zenon
      <4> QED
        BY <4>1, Zenon DEF Picks
    <3> QED
      BY <3>4, <3>11, <3>12
  <2>6. CASE ~ (e.type = t /\ m < ListMax)
    <3>1. lists'[t] = l
      <4>1. CASE e.type \in Listed /\ Len(lists[e.type]) < ListMax
        <5>1. e.type # t
          BY <2>6, <4>1
        <5>2. lists' = [lists EXCEPT ![e.type] = Append(@, [e EXCEPT !.off = offset])]
          BY <4>1 DEF MadtEntry
        <5> QED
          BY <2>1, <5>1, <5>2
      <4>2. CASE ~ (e.type \in Listed /\ Len(lists[e.type]) < ListMax)
        BY <4>2 DEF MadtEntry
      <4> QED
        BY <4>1, <4>2
    <3>2. f \in [1 .. m -> 1 .. n]
      BY <1>1, <2>3
    <3>3. m < ListMax => \A i \in 1 .. n : table[i].type = t => \E k \in 1 .. m : f[k] = i
      <4> SUFFICES ASSUME m < ListMax, NEW i \in 1 .. n, table[i].type = t
                   PROVE  \E k \in 1 .. m : f[k] = i
        OBVIOUS
      <4>1. i # n
        BY <2>6
      <4>2. i \in 1 .. pos
        BY <1>1, <4>1
      <4> QED
        BY <2>3, <4>2
    <3> HIDE DEF e, l, m, n
    <3>4. lists'[t] = l /\ Len(l) = m /\ pos' = n /\ table' = table
      BY <1>3, <3>1 DEF m, n
    <3>5. Picks(table, n, t, l, f)
      BY <2>1, <2>3, <3>2, <3>3, <3>4 DEF Picks
    <3> QED
      BY <2>1, <3>4, <3>5
  <2> QED
    BY <2>5, <2>6
<1>6. DOMAIN lists' = Listed /\ lists' = [t \in DOMAIN lists' |-> lists'[t]]
  <2>1. lists \in [Listed -> Seq(Item)]
    BY DEF ListInv
  <2> HIDE DEF e
  <2>2. \/ lists' = lists
        \/ lists' = [lists EXCEPT ![e.type] = Append(@, [e EXCEPT !.off = offset])]
    BY DEF MadtEntry, e
  <2> QED
    BY <2>1, <2>2
<1>7. lists' \in [Listed -> Seq(Item)]
  <2>1. \A t \in Listed : lists'[t] \in Seq(Item)
    BY <1>5
  <2> QED
    BY <1>6, <2>1
<1>8. ListInv'
  BY <1>5, <1>7 DEF ListInv
<1> QED
  BY <1>4, <1>8

\* ioapic_init masks every input.
LEMMA IoapicKeeps ==
    ASSUME RedInv, IoapicInit, stage' = "timer"
    PROVE  RedInv'
<1>1. Pins \in Nat /\ VecMod \in Nat /\ VecMod > 33 /\ Pins <= VecMod /\ BspId \in Nat
  BY RoutingAssumption DEF PIT_VECTOR
<1> DEFINE vec(g) == IF 32 + g = LAPIC_SPURIOUS_VECTOR THEN 32 + g + 1 ELSE 32 + g
<1>2. \A g \in Pin : vec(g) \in Nat /\ vec(g) < 2 * VecMod
  BY <1>1 DEF Pin, LAPIC_SPURIOUS_VECTOR
<1>3. red' = [g \in Pin |-> Word(TRUE, vec(g), BspId)]
  BY DEF IoapicInit, Pin
<1> HIDE DEF vec
<1>4. \A g \in Pin : Word(TRUE, vec(g), BspId) \in Field /\ Word(TRUE, vec(g), BspId).mask = TRUE
  BY <1>1, <1>2, WordType
<1>5. red' \in [Pin -> Field] /\ \A g \in Pin : red'[g].mask
  BY <1>3, <1>4
<1> QED
  BY <1>5 DEF RedInv

\* timer_init writes the entry of the timer's input, masked.
LEMMA PitKeeps ==
    ASSUME RedInv, ListInv, PitInit, UNCHANGED lists, stage = "timer", stage' = "smp"
    PROVE  RedInv'
<1> DEFINE n == irq_to_gsi(0)
<1>1. n \in Pin /\ n' = n
  BY GsiFacts, RoutingAssumption DEF PitInit, Pin
<1>2. red' = [red EXCEPT ![n] = PitWord(TRUE)] /\ handler'
  BY DEF PitInit, PitWord
<1>3. PitWord(TRUE)' = PitWord(TRUE)
  BY DEF PitWord, Word
<1> HIDE DEF n
<1>4. red \in [Pin -> Field] /\ \A g \in Pin : red[g].mask
  BY DEF RedInv
<1>5. red' \in [Pin -> Field] /\ red'[n] = PitWord(TRUE) /\ \A g \in Pin : red'[g].mask
  BY <1>1, <1>2, <1>4, PitWordType
<1> QED
  BY <1>1, <1>2, <1>3, <1>5 DEF RedInv, n

\* ioapic_unmask enables this input and no other.
LEMMA UnmaskKeeps ==
    ASSUME RedInv, ListInv, Unmask, UNCHANGED lists, stage = "unmask", stage' = "init"
    PROVE  RedInv'
<1> DEFINE n == irq_to_gsi(0)
<1>1. n \in Pin /\ n' = n /\ n < Pins
  <2>1. n \in Pin
    BY DEF RedInv
  <2>2. n' = n
    BY GsiFacts
  <2> QED
    BY <2>1, <2>2, RoutingAssumption DEF Pin
<1>2. red' = [red EXCEPT ![n].mask = FALSE] /\ handler' = handler
  BY <1>1 DEF Unmask
<1>3. PitWord(FALSE)' = PitWord(FALSE)
  BY DEF PitWord, Word
<1>4. /\ red \in [Pin -> Field] /\ red[n] = PitWord(TRUE) /\ handler
      /\ \A g \in Pin : red[g].mask
  BY DEF RedInv
<1> HIDE DEF n
<1>5. red' = [red EXCEPT ![n] = PitWord(FALSE)]
  <2>1. red' = [red EXCEPT ![n] = [red[n] EXCEPT !.mask = FALSE]]
    BY <1>2
  <2> QED
    BY <1>4, <2>1, PitWordType
<1>6. /\ red' \in [Pin -> Field] /\ red'[n] = PitWord(FALSE)
      /\ \A g \in Pin : ~ red'[g].mask <=> g = n
  BY <1>1, <1>4, <1>5, PitWordType
<1> QED
  BY <1>1, <1>2, <1>3, <1>4, <1>6 DEF RedInv, n

\* A step that leaves the stage and the routing alone.
LEMMA SameStage ==
    ASSUME RouteInv, UNCHANGED <<firmware, madt, ioapic, stage>>, KindInv'
    PROVE  RouteInv'
<1>1. ScanInv' /\ ListInv'
  BY ScanFrame DEF RouteInv, firmware, madt
<1>2. RedInv'
  BY RedFrame DEF RouteInv, madt, ioapic
<1> QED
  BY <1>1, <1>2 DEF RouteInv

\* The steps of the panic and of the other process.
LEMMA CpuRoute ==
    ASSUME IInv, RouteInv, CpuStep, UNCHANGED <<firmware, madt, ioapic, lapic_base, cpus, entry>>
    PROVE  RouteInv'
<1>1. KindInv'
  <2>1. frames \in Seq(Frame) /\ Len(frames) \in Nat /\ Depth \in Nat
    BY PanicAssumption DEF IInv
  <2>2. \/ frames' = frames
        \/ \E l : Goto(l)
        \/ \E f : Nest(f)
    BY DEF CpuStep, PanicStep, SendDie, SendDieEarly, OthersHalted, WaitPastEnd, PrintBegin, PrintEnd,
           BacktraceFaults, Backtrace, Hcf, Preempt, OtherLogs, OtherPrints, OtherExits, PeersHalt, PeerExits
  <2>3. Len(frames') <= Depth
    <3>1. CASE frames' = frames
      BY <3>1 DEF RouteInv, KindInv
    <3>2. CASE \E l : Goto(l)
      <4> PICK l : Goto(l)
        BY <3>2
      <4>1. Len(frames') = Len(frames)
        BY <2>1 DEF Goto
      <4> QED
        BY <4>1 DEF RouteInv, KindInv
    <3>3. CASE \E f : Nest(f)
      <4> PICK f : Nest(f)
        BY <3>3
      <4>1. Len(frames) < Depth /\ Len(frames') = Len(frames) + 1
        BY <2>1 DEF Nest
      <4> QED
        BY <2>1, <4>1
    <3> QED
      BY <2>2, <3>1, <3>2, <3>3
  <2>4. /\ kprintf_lock' \in {"free", "main"} /\ running' \in {"main", "other"}
        /\ other' \in {"absent", "user", "log", "exit"} /\ peers' \in {"quiet", "ready", "stuck"}
    BY DEF CpuStep, PanicStep, SendDie, SendDieEarly, OthersHalted, WaitPastEnd, PrintBegin, PrintEnd,
           BacktraceFaults, Backtrace, Hcf, Preempt, OtherLogs, OtherPrints, OtherExits, PeersHalt, PeerExits,
           RouteInv, KindInv
  <2>5. stage' = stage /\ mod_idx' = mod_idx /\ cpus' = cpus
    BY DEF entry
  <2> QED
    BY <2>3, <2>4, <2>5 DEF RouteInv, KindInv
<1> QED
  BY <1>1, SameStage DEF entry

\* A check that fails, or an exception: the first call of kpanic.
LEMMA FirstRoute ==
    ASSUME RouteInv, NEW f, frames' = <<f>>, UNCHANGED <<firmware, madt, ioapic, stage, mod_idx>>,
           UNCHANGED <<kprintf_lock, running, other>>, cpus' = cpus \/ cpus' = "over",
           peers' \in {peers, "quiet", "ready"}
    PROVE  RouteInv'
<1>1. Len(frames') <= Depth
  BY PanicAssumption
<1>2. KindInv'
  BY <1>1 DEF RouteInv, KindInv
<1> QED
  BY <1>2, SameStage

\* A part of emk_entry that ends, and leaves the routing alone.
LEMMA StageRoute ==
    ASSUME RouteInv, NEW s \in {"limine", "tables", "memory", "paging", "vmm", "heap", "acpi", "find_madt",
                                "madt", "mp", "lapic", "smp_early", "smp", "init", "load"},
           Advance(s), s = "madt" => ~ Scanning,
           UNCHANGED <<table, tableLen, pos, offset, lists, red, handler, kprintf_lock, running, frames>>,
           other' = other \/ other' = "user", cpus' = cpus \/ cpus' = "known",
           peers' \in {peers, "quiet", "ready"},
           mod_idx' = mod_idx \/ mod_idx'[1] < mod_idx'[2]
    PROVE  RouteInv'
<1>1. stage = s /\ stage' = NextStage(s)
  BY DEF Advance, Executing
<1>2. stage' \in {Stages[k] : k \in DOMAIN Stages}
  BY <1>1, NextStages, StageSet DEF AfterScan
<1>3. KindInv'
  BY <1>2 DEF RouteInv, KindInv
<1>4. stage' \in AfterScan => stage \in AfterScan \/ ~ Scanning
  BY <1>1, NextStages DEF AfterScan
<1>5. ScanInv' /\ ListInv'
  BY <1>4, ScanFrame DEF RouteInv
<1>6. \/ stage' \notin {"timer", "unmask", "smp", "init", "load", "run"}
      \/ stage = "smp" /\ stage' = "unmask"
      \/ stage \in {"init", "load"} /\ stage' \in {"load", "run"}
  BY <1>1, NextStages
<1>7. RedInv'
  BY <1>6, RedFrame DEF RouteInv
<1> QED
  BY <1>3, <1>5, <1>7 DEF RouteInv

\* The parts of emk_entry.
LEMMA BootRoute ==
    ASSUME RouteInv, BootStep
    PROVE  RouteInv'
<1>1. CASE \E s \in {Stages[k] : k \in DOMAIN Stages} : Initialise(s) \/ CheckFails(s)
  <2> PICK s : Initialise(s) \/ CheckFails(s)
    BY <1>1
  <2>1. CASE Initialise(s)
    BY <2>1, StageRoute DEF Initialise, firmware, madt, ioapic, panic
  <2>2. CASE CheckFails(s)
    BY <2>2, FirstRoute DEF CheckFails, KpanicNull, entry
  <2> QED
    BY <2>1, <2>2
<1>2. CASE FindMadt
  BY <1>2, StageRoute DEF FindMadt, MadtStart, firmware, ioapic, panic
<1>3. CASE ScanMadt
  <2>1. ScanInv' /\ ListInv'
    BY <1>3, ScanKeeps DEF ScanMadt, Executing, firmware, entry, RouteInv
  <2>2. KindInv'
    BY <1>3, KindFrame DEF ScanMadt, panic, entry, RouteInv, KindInv
  <2>3. stage' = "madt" /\ red' = red /\ handler' = handler
    BY <1>3 DEF ScanMadt, Executing, entry, ioapic
  <2>4. RedInv'
    BY <2>3 DEF RouteInv, RedInv
  <2> QED
    BY <2>1, <2>2, <2>4 DEF RouteInv
<1>4. CASE ScanFails \/ IoapicFails \/ TimerFails
  BY <1>4, FirstRoute DEF ScanFails, IoapicFails, TimerFails, KpanicNull, entry
<1>5. CASE ScanDone
  BY <1>5, StageRoute DEF ScanDone, firmware, madt, ioapic, panic
<1>6. CASE LapicInit \/ SmpEarlyInit
  BY <1>6, StageRoute DEF LapicInit, SmpEarlyInit, firmware, madt, ioapic, panic
<1>7. CASE TooManyCpus
  BY <1>7, FirstRoute DEF TooManyCpus, KpanicNull, entry
<1>8. CASE SetUpIoapic \/ SetUpTimer \/ UnmaskTimer
  <2>1. \/ SetUpIoapic /\ stage = "ioapic" /\ stage' = "timer"
        \/ SetUpTimer /\ stage = "timer" /\ stage' = "smp"
        \/ UnmaskTimer /\ stage = "unmask" /\ stage' = "init"
    BY <1>8, NextStages DEF SetUpIoapic, SetUpTimer, UnmaskTimer, Advance, Executing
  <2>2. /\ UNCHANGED <<firmware, madt, panic, cpus, mod_idx>>
        /\ UNCHANGED <<table, tableLen, pos, offset, lists>>
    BY <1>8 DEF SetUpIoapic, SetUpTimer, UnmaskTimer, firmware, madt
  <2>3. ScanInv' /\ ListInv'
    BY <2>1, <2>2, ScanFrame DEF RouteInv, AfterScan
  <2>4. stage' \in {Stages[k] : k \in DOMAIN Stages}
    BY <2>1, StageSet DEF AfterScan
  <2>5. KindInv'
    BY <2>2, <2>4, KindFrame DEF panic, RouteInv, KindInv
  <2>6. RedInv'
    BY <2>1, <2>2, IoapicKeeps, PitKeeps, UnmaskKeeps DEF SetUpIoapic, SetUpTimer, UnmaskTimer, RouteInv
  <2> QED
    BY <2>3, <2>5, <2>6 DEF RouteInv
<1>9. CASE ChooseInit
  <2>1. PICK key \in get_key, count \in ModCounts :
          mod_idx' = IF key \in 0 .. count - 1 THEN <<key, count>> ELSE <<0, count>>
    BY <1>9 DEF ChooseInit
  <2>2. count \in Nat /\ count > 0
    BY BootAssumption
  <2>3. mod_idx'[1] < mod_idx'[2]
    BY <2>1, <2>2
  <2> QED
    BY <1>9, <2>3, StageRoute DEF ChooseInit, firmware, madt, ioapic, panic
<1>10. CASE StartInit
  BY <1>10, StageRoute DEF StartInit, firmware, madt, ioapic
<1>11. CASE SmpInit
  BY <1>11, StageRoute DEF SmpInit, firmware, madt, ioapic
<1> QED
  BY <1>1, <1>2, <1>3, <1>4, <1>5, <1>6, <1>7, <1>8, <1>9, <1>10, <1>11 DEF BootStep

LEMMA NextRoute == IInv /\ RouteInv /\ [Next]_vars => RouteInv'
<1> SUFFICES ASSUME IInv, RouteInv, [Next]_vars PROVE RouteInv'
  OBVIOUS
<1>1. CASE BootStep
  BY <1>1, BootRoute
<1>2. CASE Exception
  BY <1>2, FirstRoute DEF Exception, entry
<1>3. CASE CpuStep /\ UNCHANGED <<firmware, madt, ioapic, lapic_base, cpus, entry>>
  BY <1>3, CpuRoute
<1>4. CASE UNCHANGED vars
  <2>1. KindInv'
    BY <1>4, KindFrame DEF vars, panic, entry, RouteInv, KindInv
  <2> QED
    BY <1>4, <2>1, SameStage DEF vars, entry
<1> QED
  BY <1>1, <1>2, <1>3, <1>4 DEF Next

LEMMA InitRoute == Init => RouteInv
<1> SUFFICES ASSUME Init PROVE RouteInv
  OBVIOUS
<1>1. /\ table \in Tables /\ pos = 0 /\ offset = 0 /\ lists = [t \in Listed |-> <<>>] /\ stage = "limine"
      /\ tableLen \in {Bytes(table)} \cup
           {n \in {Bytes(table) - 1} : table # <<>> /\ n > table[Len(table)].off}
  BY DEF Init, RoutingInit
<1>2. ScanInv
  <2>1. table \in Seq(Item) /\ Layout(table)
    BY <1>1, RoutingAssumption DEF Item
  <2>2. Len(table) \in Nat /\ DOMAIN table = 1 .. Len(table) /\ (table = <<>> <=> Len(table) = 0)
    BY <2>1
  <2>3. \A i \in 1 .. Len(table) : table[i].off \in Nat /\ table[i].len \in Nat
    <3>1. \A i \in 1 .. Len(table) : table[i] \in Item
      BY <2>1
    <3> QED
      BY <3>1 DEF Item
  <2>4. CASE table = <<>>
    <3>1. tableLen = 0 /\ Bytes(table) = 0
      BY <1>1, <2>4 DEF Bytes
    <3> QED
      BY <1>1, <2>2, <2>4, <3>1 DEF ScanInv, AfterScan
  <2>5. CASE table # <<>>
    <3>1. Len(table) \in 1 .. Len(table) /\ table[Len(table)].len > 0
      BY <2>1, <2>2, <2>5 DEF Layout
    <3>2. Bytes(table) = table[Len(table)].off + table[Len(table)].len
      BY <2>5 DEF Bytes
    <3>3. table[Len(table)].off < tableLen /\ tableLen <= Bytes(table) /\ tableLen \in Nat
      BY <1>1, <2>3, <3>1, <3>2
    <3> QED
      BY <1>1, <2>2, <3>3 DEF ScanInv, AfterScan
  <2> QED
    BY <2>4, <2>5
<1>3. ListInv
  <2>1. <<>> \in Seq(Item) /\ Len(<<>>) = 0 /\ ListMax \in Nat
    BY RoutingAssumption
  <2>2. \A t \in Listed : Picks(table, pos, t, <<>>, [k \in 1 .. 0 |-> 0])
    BY <1>1, <2>1 DEF Picks
  <2> QED
    BY <1>1, <2>1, <2>2 DEF ListInv
<1>4. RedInv
  <2>1. red = [g \in Pin |-> [mask |-> FALSE, vec |-> 8, mode |-> 0, dest |-> BspId]]
    BY DEF Init, RoutingInit, Pin
  <2>2. [mask |-> FALSE, vec |-> 8, mode |-> 0, dest |-> BspId] \in Field
    BY RoutingAssumption DEF Field, PIT_VECTOR
  <2> QED
    BY <1>1, <2>1, <2>2 DEF RedInv
<1>5. KindInv
  <2>1. Len(frames) <= Depth
    BY PanicAssumption DEF Init, PanicInit
  <2> QED
    BY <2>1, StageSet DEF Init, PanicInit, KindInv
<1> QED
  BY <1>2, <1>3, <1>4, <1>5 DEF RouteInv

\* The second part of the inductive invariant: where the scan of the MADT is, from
\* which entries each list was filled, and the redirection entries by stage.
THEOREM RouteInvariance == Spec => []RouteInv
<1>1. Init => RouteInv
  BY InitRoute
<1>2. IInv /\ RouteInv /\ [Next]_vars => RouteInv'
  BY NextRoute
<1> QED
  BY <1>1, <1>2, Invariance, PTL DEF Spec

\* When the scan is over a list holds as many entries as the table has of its
\* type, or is full.
LEMMA Counted ==
    ASSUME ScanInv, ~ Scanning, NEW t \in Listed, NEW l, NEW f, Picks(table, pos, t, l, f)
    PROVE  /\ Of(t) \in SUBSET Nat /\ IsFiniteSet(Of(t)) /\ Cardinality(Of(t)) \in Nat
           /\ f \in [1 .. Len(l) -> Of(t)] /\ Len(l) \in Nat
           /\ Len(l) <= Cardinality(Of(t))
           /\ Len(l) < ListMax => Len(l) = Cardinality(Of(t))
           /\ Cardinality(Of(t)) <= ListMax => \A i \in Of(t) : \E k \in 1 .. Len(l) : f[k] = i
<1>1. pos = Len(table) /\ Len(table) \in Nat /\ DOMAIN table = 1 .. Len(table)
  <2>1. pos \in 0 .. Len(table) /\ Len(table) \in Nat /\ ~ (pos < Len(table)) /\ table \in Seq(Item)
    BY ScanFacts, TableFacts DEF ScanInv
  <2> QED
    BY <2>1
<1>2. Of(t) \in SUBSET (1 .. Len(table))
  BY <1>1 DEF Of
<1>3. IsFiniteSet(Of(t)) /\ Cardinality(Of(t)) \in Nat
  <2>1. 1 \in Int /\ Len(table) \in Int
    BY <1>1
  <2>2. IsFiniteSet(1 .. Len(table))
    BY <2>1, FS_Interval
  <2> QED
    BY <1>2, <2>2, FS_Subset, FS_CardinalityType
<1>4. /\ l \in Seq(Item) /\ Len(l) \in Nat /\ Len(l) <= ListMax /\ f \in [1 .. Len(l) -> 1 .. pos]
      /\ \A i, j \in 1 .. Len(l) : i < j => f[i] < f[j]
      /\ \A k \in 1 .. Len(l) : l[k] = table[f[k]] /\ l[k].type = t
      /\ Len(l) < ListMax => \A i \in 1 .. pos : table[i].type = t => \E k \in 1 .. Len(l) : f[k] = i
  BY DEF Picks
<1>5. f \in [1 .. Len(l) -> Of(t)]
  <2>1. \A k \in 1 .. Len(l) : f[k] \in Of(t)
    BY <1>1, <1>4 DEF Of
  <2> QED
    BY <1>4, <2>1
<1>6. f \in Injection(1 .. Len(l), Of(t))
  <2>1. \A i, j \in 1 .. Len(l) : f[i] = f[j] => i = j
    <3> TAKE i, j \in 1 .. Len(l)
    <3>1. f[i] \in Int /\ f[j] \in Int
      BY <1>4
    <3> QED
      BY <1>4, <3>1
  <2> QED
    BY <1>5, <2>1 DEF Injection, IsInjective
<1>7. Cardinality(1 .. Len(l)) = Len(l)
  <2>1. 1 \in Int /\ Len(l) \in Int
    BY <1>4
  <2>2. Cardinality(1 .. Len(l)) = IF 1 > Len(l) THEN 0 ELSE Len(l) - 1 + 1
    BY <2>1, FS_Interval
  <2> QED
    BY <1>4, <2>2
<1>8. /\ Len(l) <= Cardinality(Of(t))
      /\ Len(l) = Cardinality(Of(t)) <=> f \in Surjection(1 .. Len(l), Of(t))
  BY <1>3, <1>6, <1>7, FS_Injection
<1>9. Len(l) < ListMax => f \in Surjection(1 .. Len(l), Of(t))
  BY <1>1, <1>4, <1>5 DEF Of, Surjection
<1>10. Cardinality(Of(t)) <= ListMax => Len(l) = Cardinality(Of(t))
  BY <1>3, <1>4, <1>8, <1>9, RoutingAssumption
<1> QED
  BY <1>2, <1>3, <1>4, <1>5, <1>8, <1>9, <1>10 DEF Surjection

\* madt_init lists what lies inside the table with all its fields, in the table's
\* order, nothing twice, and in the end all of it up to the capacity of a list.
THEOREM ListedRightCorrect == Spec => []ListedRight
<1>1. ASSUME RouteInv PROVE ListedRight
  <2>0. ScanInv /\ ListInv
    BY <1>1 DEF RouteInv
  <2> SUFFICES ASSUME NEW t \in Listed
               PROVE  /\ \A k \in DOMAIN lists[t] :
                           /\ lists[t][k].off + Size[t] <= tableLen
                           /\ k > 1 => lists[t][k].off >= lists[t][k - 1].off + Size[t]
                      /\ stage \in {"mp", "lapic", "smp_early", "ioapic"} =>
                           Len(lists[t]) = Min({Cardinality(Of(t)), ListMax})
    BY DEF ListedRight
  <2> DEFINE l == lists[t]
  <2>1. PICK f : Picks(table, pos, t, l, f)
    BY <2>0 DEF ListInv
  <2> HIDE DEF l
  <2>2. /\ l \in Seq(Item) /\ Len(l) \in Nat /\ DOMAIN l = 1 .. Len(l)
        /\ Len(l) <= ListMax /\ f \in [1 .. Len(l) -> 1 .. pos]
        /\ \A i, j \in 1 .. Len(l) : i < j => f[i] < f[j]
        /\ \A k \in 1 .. Len(l) : l[k] = table[f[k]] /\ l[k].len >= Size[t]
    BY <2>1 DEF Picks
  <2>3. Size[t] \in Nat /\ offset \in Nat /\ tableLen \in Nat /\ offset <= tableLen /\ ListMax \in Nat
    BY <2>0, ScanFacts, RoutingAssumption DEF Size, LAPIC, IOAPIC, IOAPIC_SRC_OVR, IOAPIC_NMI_SRC, LAPIC_NMI,
       LAPIC_ADDR_OVR, LX2APIC, Listed, ScanInv
  <2>4. \A k \in 1 .. Len(l) : f[k] \in 1 .. pos /\ f[k] \in 1 .. Len(table) /\ l[k].off \in Nat /\ l[k].len \in Nat
    <3>1. pos \in 0 .. Len(table) /\ Len(table) \in Nat
      BY <2>0, TableFacts DEF ScanInv
    <3>2. \A k \in 1 .. Len(l) : l[k] \in Item
      BY <2>2
    <3>3. \A k \in 1 .. Len(l) : l[k].off \in Nat /\ l[k].len \in Nat
      BY <3>2 DEF Item
    <3>4. \A k \in 1 .. Len(l) : f[k] \in 1 .. pos
      BY <2>2
    <3> QED
      BY <3>1, <3>3, <3>4
  <2>5. \A k \in 1 .. Len(l) : l[k].off + l[k].len <= offset
    BY <2>0, <2>2, <2>4, ScanFacts
  <2>6. \A k \in 1 .. Len(l) : l[k].off + Size[t] <= tableLen
    <3> SUFFICES ASSUME NEW k \in 1 .. Len(l) PROVE l[k].off + Size[t] <= tableLen
      OBVIOUS
    <3>1. l[k].off \in Nat /\ l[k].len \in Nat /\ l[k].len >= Size[t] /\ l[k].off + l[k].len <= offset
      BY <2>2, <2>4, <2>5
    <3> QED
      BY <2>3, <3>1
  <2>7. \A k \in 1 .. Len(l) : k > 1 => l[k].off >= l[k - 1].off + Size[t]
    <3> SUFFICES ASSUME NEW k \in 1 .. Len(l), k > 1
                 PROVE  l[k].off >= l[k - 1].off + Size[t]
      OBVIOUS
    <3>1. k - 1 \in 1 .. Len(l) /\ k - 1 < k
      BY <2>2
    <3>2. f[k - 1] < f[k]
      BY <2>2, <3>1
    <3>3. table[f[k - 1]].off + table[f[k - 1]].len <= table[f[k]].off
      BY <2>0, <2>4, <3>1, <3>2, TableFacts
    <3>4. l[k - 1].off + l[k - 1].len <= l[k].off
      BY <2>2, <3>1, <3>3
    <3> QED
      <4> DEFINE a == l[k].off
                 b == l[k - 1].off
                 d == l[k - 1].len
                 z == Size[t]
      <4>1. a \in Nat /\ b \in Nat /\ d \in Nat /\ z \in Nat /\ d >= z /\ b + d <= a
        BY <2>2, <2>3, <2>4, <3>1, <3>4
      <4> HIDE DEF a, b, d, z
      <4>2. a >= b + z
        BY <4>1
      <4> QED
        BY <4>2 DEF a, b, z
  <2>8. ASSUME stage \in {"mp", "lapic", "smp_early", "ioapic"}
        PROVE  Len(l) = Min({Cardinality(Of(t)), ListMax})
    <3>1. ~ Scanning
      BY <2>0, <2>8 DEF ScanInv, AfterScan
    <3>2. /\ Cardinality(Of(t)) \in Nat /\ Len(l) <= Cardinality(Of(t))
          /\ Len(l) < ListMax => Len(l) = Cardinality(Of(t))
      BY <2>0, <2>1, <3>1, Counted
    <3> DEFINE c == Cardinality(Of(t))
    <3> HIDE DEF c
    <3>3. {c, ListMax} \in SUBSET Nat /\ Len(l) \in {c, ListMax} /\ \A y \in {c, ListMax} : Len(l) <= y
      <4> DEFINE m == Len(l)
      <4>1. m \in Nat /\ m <= ListMax /\ ListMax \in Nat /\ c \in Nat /\ m <= c /\ (m < ListMax => m = c)
        BY <2>2, <2>3, <3>2 DEF c
      <4> HIDE DEF m
      <4>2. m \in {c, ListMax} /\ m <= c
        BY <4>1
      <4> QED
        BY <4>1, <4>2 DEF m
    <3>4. Min({c, ListMax}) = Len(l)
      BY <3>3, LeastIs
    <3> QED
      BY <3>4 DEF c
  <2> QED
    BY <2>2, <2>6, <2>7, <2>8 DEF l
<1> QED
  BY <1>1, RouteInvariance, PTL

\* irq_to_gsi finds the override the firmware's table has for the timer, if the
\* lists had room for all overrides.
LEMMA TimerGsiFound ==
    ASSUME ScanInv, ListInv, ~ Scanning, Cardinality(Of(IOAPIC_SRC_OVR)) <= ListMax
    PROVE  TimerGsi = irq_to_gsi(0)
<1> DEFINE O == Of(IOAPIC_SRC_OVR)
           l == lists[IOAPIC_SRC_OVR]
           ks == {k \in DOMAIN l : l[k].irq = 0}
           is == {i \in O : table[i].irq = 0}
<1>1. IOAPIC_SRC_OVR \in Listed
  BY DEF Listed
<1>2. PICK f : Picks(table, pos, IOAPIC_SRC_OVR, l, f)
  BY <1>1 DEF ListInv
<1>3. /\ O \in SUBSET Nat /\ f \in [1 .. Len(l) -> O]
      /\ \A i \in O : \E k \in 1 .. Len(l) : f[k] = i
  BY <1>1, <1>2, Counted
<1>4. /\ DOMAIN l = 1 .. Len(l) /\ Len(l) \in Nat
      /\ \A i, j \in 1 .. Len(l) : i < j => f[i] < f[j]
      /\ \A k \in 1 .. Len(l) : l[k] = table[f[k]]
  BY <1>2 DEF Picks
<1>5. irq_to_gsi(0) = IF ks = {} THEN 0 ELSE l[Min(ks)].gsi
  BY DEF irq_to_gsi
<1>6. TimerGsi = IF is = {} THEN 0 ELSE table[Min(is)].gsi
  BY DEF TimerGsi
<1> HIDE DEF O, l
<1>7. ks \in SUBSET Nat /\ ks \in SUBSET (1 .. Len(l)) /\ is \in SUBSET Nat
  <2>1. ks \in SUBSET (1 .. Len(l)) /\ is \in SUBSET O
    BY <1>4
  <2>2. 1 .. Len(l) \in SUBSET Nat
    BY <1>4
  <2> QED
    BY <1>3, <2>1, <2>2
<1>8. \A k \in ks : f[k] \in is
  BY <1>3, <1>4
<1>9. \A i \in is : \E k \in ks : f[k] = i
  BY <1>3, <1>4
<1> HIDE DEF ks, is
<1>10. CASE ks = {}
  BY <1>5, <1>6, <1>9, <1>10
<1>11. CASE ks # {}
  <2>1. Min(ks) \in ks /\ \A k \in ks : Min(ks) <= k
    BY <1>7, <1>11, Least
  <2>2. f[Min(ks)] \in is /\ is # {}
    BY <1>8, <2>1
  <2>3. \A i \in is : f[Min(ks)] <= i
    <3> TAKE i \in is
    <3>1. PICK k \in ks : f[k] = i
      BY <1>9
    <3>2. Min(ks) \in 1 .. Len(l) /\ k \in 1 .. Len(l) /\ Min(ks) <= k
      BY <1>7, <2>1
    <3>3. f[Min(ks)] \in Nat /\ f[k] \in Nat
      BY <1>3, <3>2
    <3>4. Min(ks) < k => f[Min(ks)] < f[k]
      BY <1>4, <3>2
    <3> QED
      BY <1>4, <3>1, <3>2, <3>3, <3>4
  <2>4. Min(is) = f[Min(ks)]
    BY <1>7, <2>2, <2>3, LeastIs
  <2>5. l[Min(ks)] = table[f[Min(ks)]]
    BY <1>4, <1>7, <2>1
  <2> QED
    BY <1>5, <1>6, <1>11, <2>2, <2>4, <2>5
<1> QED
  BY <1>10, <1>11

\* No input of the I/O APIC is enabled until smp_init has returned; then exactly
\* the timer's is, whatever input the firmware gave it, and it leads to its handler.
THEOREM TimerRoutedCorrect == Spec => []TimerRouted
<1>1. ASSUME RouteInv PROVE TimerRouted
  <2>1. TypeOK
    BY <1>1 DEF RouteInv, RedInv, KindInv, TypeOK, Pin, Field
  <2>2. stage \in {"timer", "smp", "unmask"} => \A g \in 0 .. Pins - 1 : red[g].mask
    BY <1>1 DEF RouteInv, RedInv, Pin
  <2>3. ASSUME stage \in {"init", "load", "run"}, Cardinality(Of(IOAPIC_SRC_OVR)) <= ListMax
        PROVE  /\ \A g \in 0 .. Pins - 1 : ~ red[g].mask <=> g = TimerGsi
               /\ red[TimerGsi] = Word(FALSE, PIT_VECTOR, IF Broadcast THEN AllCpus ELSE BspId)
               /\ handler
    <3>1. TimerGsi = irq_to_gsi(0)
      BY <1>1, <2>3, TimerGsiFound DEF RouteInv, ScanInv, AfterScan
    <3> QED
      BY <1>1, <2>3, <3>1 DEF RouteInv, RedInv, Pin, PitWord
  <2> QED
    BY <2>1, <2>2, <2>3 DEF TimerRouted
<1> QED
  BY <1>1, RouteInvariance, PTL
=============================================================================
