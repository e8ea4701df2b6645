----------------------------- MODULE VMMProofs ------------------------------
(***************************************************************************)
(* Proofs about VMM, for any amount of memory, any region sizes, segments  *)
(* and span of a page table: the regions of a context are disjoint and     *)
(* their list is intact, no physical page is mapped twice, mapped without  *)
(* a region, or lost.                                                      *)
(***************************************************************************)
EXTENDS VMM, TLAPS

Ref == Frame \cup {NULL}

\* The least set with x that nx does not leave: Reach, for any next pointers.
ClosedUnder(S, x, nx) == (x # NULL => x \in S) /\ \A s \in S : nx[s] # NULL => nx[s] \in S
Least(x, nx) == {r \in Frame : \A S \in SUBSET Frame : ClosedUnder(S, x, nx) => r \in S}

----------------------------------------------------------------------------
(***************************************************************************)
(* Lists                                                                   *)
(***************************************************************************)
LEMMA NullIsNoFrame == NULL \notin Frame /\ Frame \subseteq Nat
BY VMMAssumption DEF Frame

LEMMA LeastMin ==
    ASSUME NEW x, NEW nx, NEW S \in SUBSET Frame, ClosedUnder(S, x, nx)
    PROVE  Least(x, nx) \subseteq S
BY DEF Least

LEMMA LeastClosed ==
    ASSUME NEW x \in Ref, NEW nx \in [Frame -> Ref]
    PROVE  Least(x, nx) \in SUBSET Frame /\ ClosedUnder(Least(x, nx), x, nx)
<1>1. Least(x, nx) \in SUBSET Frame
  BY DEF Least
<1>2. x # NULL => x \in Least(x, nx)
  BY DEF Least, ClosedUnder, Ref
<1>3. ASSUME NEW s \in Least(x, nx), nx[s] # NULL PROVE nx[s] \in Least(x, nx)
  <2>1. s \in Frame /\ nx[s] \in Frame
    BY <1>3, <1>1 DEF Ref
  <2>2. ASSUME NEW S \in SUBSET Frame, ClosedUnder(S, x, nx) PROVE nx[s] \in S
    <3>1. s \in S
      BY <2>2 DEF Least
    <3> QED
      BY <3>1, <2>2, <1>3 DEF ClosedUnder
  <2> QED
    BY <2>1, <2>2 DEF Least
<1> QED
  BY <1>1, <1>2, <1>3 DEF ClosedUnder

LEMMA LeastNull ==
    ASSUME NEW nx
    PROVE  Least(NULL, nx) = {}
<1>1. ClosedUnder({}, NULL, nx) /\ {} \in SUBSET Frame
  BY DEF ClosedUnder
<1> QED
  BY <1>1, LeastMin

\* A list is its first element and the rest.
LEMMA LeastStep ==
    ASSUME NEW nx \in [Frame -> Ref], NEW x \in Frame, NEW r \in Least(x, nx)
    PROVE  r = x \/ r \in Least(nx[x], nx)
<1> DEFINE T == Least(nx[x], nx)
           S == {x} \cup T
<1>1. nx[x] \in Ref
  OBVIOUS
<1>2. T \in SUBSET Frame /\ ClosedUnder(T, nx[x], nx)
  BY <1>1, LeastClosed
<1> HIDE DEF T
<1>3. ClosedUnder(S, x, nx)
  BY <1>2 DEF ClosedUnder
<1>4. S \in SUBSET Frame
  BY <1>2
<1> HIDE DEF S
<1>5. Least(x, nx) \subseteq S
  BY <1>3, <1>4, LeastMin
<1> QED
  BY <1>5 DEF S, T

\* f is put behind the last element l.
LEMMA LeastAppend ==
    ASSUME NEW x \in Ref, NEW nx \in [Frame -> Ref], NEW l \in Least(x, nx), nx[l] = NULL,
           NEW f \in Frame \ Least(x, nx), NEW nx2 \in [Frame -> Ref],
           nx2[f] = NULL, nx2[l] = f, \A s \in Frame \ {f, l} : nx2[s] = nx[s]
    PROVE  Least(x, nx2) = Least(x, nx) \cup {f}
<1> DEFINE A == Least(x, nx)
           B == Least(x, nx2)
<1>0. NULL \notin Frame
  BY NullIsNoFrame
<1>1. A \in SUBSET Frame /\ ClosedUnder(A, x, nx)
  BY LeastClosed
<1>2. /\ nx2 \in [Frame -> Ref] /\ f # l /\ l \in Frame
      /\ nx2[f] = NULL /\ nx2[l] = f /\ \A s \in Frame \ {f, l} : nx2[s] = nx[s]
  BY <1>1 DEF Ref
<1>3. B \in SUBSET Frame /\ ClosedUnder(B, x, nx2)
  BY <1>2, LeastClosed
<1>4. B \subseteq A \cup {f}
  <2>1. ClosedUnder(A \cup {f}, x, nx2) /\ A \cup {f} \in SUBSET Frame
    BY <1>1, <1>2 DEF ClosedUnder
  <2> QED
    BY <2>1, LeastMin
<1>5. A \subseteq A \cap B
  <2>1. ClosedUnder(A \cap B, x, nx) /\ A \cap B \in SUBSET Frame
    BY <1>1, <1>2, <1>3 DEF ClosedUnder
  <2> QED
    BY <2>1, LeastMin
<1>6. f \in B
  <2>1. l \in B
    BY <1>5
  <2> QED
    BY <2>1, <1>0, <1>2, <1>3 DEF ClosedUnder
<1> QED
  BY <1>4, <1>5, <1>6

\* f is put in front of the list.
LEMMA LeastPush ==
    ASSUME NEW x \in Ref, NEW nx \in [Frame -> Ref],
           NEW f \in Frame \ Least(x, nx), NEW nx2 \in [Frame -> Ref],
           nx2[f] = x, \A s \in Frame \ {f} : nx2[s] = nx[s]
    PROVE  Least(f, nx2) = Least(x, nx) \cup {f}
<1> DEFINE A == Least(x, nx)
           B == Least(f, nx2)
<1>0. NULL \notin Frame
  BY NullIsNoFrame
<1>1. A \in SUBSET Frame /\ ClosedUnder(A, x, nx)
  BY LeastClosed
<1>2. nx2 \in [Frame -> Ref] /\ nx2[f] = x /\ \A s \in Frame \ {f} : nx2[s] = nx[s]
  OBVIOUS
<1>3. B \in SUBSET Frame /\ ClosedUnder(B, f, nx2)
  BY <1>2, LeastClosed DEF Ref
<1>4. B \subseteq A \cup {f}
  <2>1. ClosedUnder(A \cup {f}, f, nx2) /\ A \cup {f} \in SUBSET Frame
    BY <1>1, <1>2 DEF ClosedUnder
  <2> QED
    BY <2>1, LeastMin
<1>5. f \in B
  BY <1>0, <1>3 DEF ClosedUnder
<1>6. A \subseteq A \cap B
  <2>1. x # NULL => x \in A \cap B
    <3>1. x # NULL => x \in A
      BY <1>1 DEF ClosedUnder
    <3>2. nx2[f] # NULL => nx2[f] \in B
      BY <1>3, <1>5 DEF ClosedUnder
    <3> QED
      BY <3>1, <3>2, <1>2
  <2>2. ASSUME NEW s \in A \cap B, nx[s] # NULL PROVE nx[s] \in A \cap B
    <3>1. s \in Frame \ {f} /\ nx2[s] = nx[s]
      BY <1>1, <1>2
    <3> QED
      BY <2>2, <3>1, <1>1, <1>3 DEF ClosedUnder
  <2>3. ClosedUnder(A \cap B, x, nx)
    BY <2>1, <2>2 DEF ClosedUnder
  <2> QED
    BY <2>3, <1>1, LeastMin
<1> QED
  BY <1>4, <1>5, <1>6

\* Links in both directions: x is the first element, pv mirrors nx.
Mirrored(x, nx, pv, A) ==
    /\ x # NULL => pv[x] = NULL
    /\ \A r \in A : nx[r] # NULL => pv[nx[r]] = r
    /\ \A r \in A : pv[r] # NULL => pv[r] \in A /\ nx[pv[r]] = r

\* A mirrored list does not lead back, and only its first element has no
\* element before it.
LEMMA MirroredFacts ==
    ASSUME NEW x \in Ref, NEW nx \in [Frame -> Ref], NEW pv \in [Frame -> Ref],
           Mirrored(x, nx, pv, Least(x, nx)), NEW s \in Least(x, nx)
    PROVE  nx[s] # s /\ pv[s] # s /\ (pv[s] = NULL <=> s = x)
<1> DEFINE A == Least(x, nx)
<1>0. NULL \notin Frame
  BY NullIsNoFrame
<1>1. A \in SUBSET Frame /\ ClosedUnder(A, x, nx)
  BY LeastClosed
<1>2. ~ ClosedUnder(A \ {s}, x, nx)
  BY <1>1, LeastMin
<1>3. nx[s] # s
  <2> SUFFICES ASSUME nx[s] = s PROVE FALSE
    OBVIOUS
  <2>1. pv[s] = s /\ s # NULL
    BY <1>0, <1>1 DEF Mirrored
  <2>2. x # s
    BY <2>1 DEF Mirrored
  <2>3. \A r \in A \ {s} : nx[r] # s
    BY <2>1, <1>0, <1>1 DEF Mirrored
  <2> QED
    BY <2>2, <2>3, <1>1, <1>2 DEF ClosedUnder
<1>4. pv[s] # s
  BY <1>0, <1>1, <1>3 DEF Mirrored
<1>5. pv[s] = NULL => s = x
  <2> SUFFICES ASSUME pv[s] = NULL, s # x PROVE FALSE
    OBVIOUS
  <2>1. \A r \in A : nx[r] # s
    BY <1>0, <1>1 DEF Mirrored
  <2> QED
    BY <2>1, <1>1, <1>2 DEF ClosedUnder
<1>6. s = x => pv[s] = NULL
  BY <1>0, <1>1 DEF Mirrored
<1> QED
  BY <1>3, <1>4, <1>5, <1>6

\* The element s is taken out.
LEMMA LeastRemove ==
    ASSUME NEW x \in Ref, NEW nx \in [Frame -> Ref], NEW pv \in [Frame -> Ref],
           Mirrored(x, nx, pv, Least(x, nx)), NEW s \in Least(x, nx),
           NEW x2, x2 = IF s = x THEN nx[s] ELSE x,
           NEW nx2 \in [Frame -> Ref], pv[s] # NULL => nx2[pv[s]] = nx[s],
           \A r \in Frame : r # pv[s] => nx2[r] = nx[r]
    PROVE  Least(x2, nx2) = Least(x, nx) \ {s}
<1> DEFINE A == Least(x, nx)
           B == Least(x2, nx2)
<1>0. NULL \notin Frame
  BY NullIsNoFrame
<1>1. A \in SUBSET Frame /\ ClosedUnder(A, x, nx)
  BY LeastClosed
<1>2. nx[s] # s /\ pv[s] # s /\ (pv[s] = NULL <=> s = x) /\ s \in Frame /\ nx[s] \in Ref
  BY <1>1, MirroredFacts
<1>3. /\ nx2 \in [Frame -> Ref] /\ x2 \in Ref
      /\ pv[s] # NULL => pv[s] \in A /\ pv[s] \in Frame /\ nx[pv[s]] = s /\ nx2[pv[s]] = nx[s]
      /\ \A r \in Frame : r # pv[s] => nx2[r] = nx[r]
  BY <1>1, <1>2 DEF Mirrored
<1>4. \A r \in A : nx[r] = s => r = pv[s]
  BY <1>0, <1>1 DEF Mirrored
<1>5. B \in SUBSET Frame /\ ClosedUnder(B, x2, nx2)
  BY <1>3, LeastClosed
<1>6. B \subseteq A \ {s}
  <2>1. x2 # NULL => x2 \in A \ {s}
    BY <1>1, <1>2 DEF ClosedUnder
  <2>2. ASSUME NEW r \in A \ {s}, nx2[r] # NULL PROVE nx2[r] \in A \ {s}
    <3>1. CASE r = pv[s]
      <4>1. nx2[r] = nx[s]
        BY <3>1, <1>0, <1>1, <1>3
      <4> QED
        BY <4>1, <2>2, <1>1, <1>2 DEF ClosedUnder
    <3>2. CASE r # pv[s]
      <4>1. nx2[r] = nx[r]
        BY <3>2, <1>1, <1>3
      <4> QED
        BY <4>1, <2>2, <3>2, <1>1, <1>4 DEF ClosedUnder
    <3> QED
      BY <3>1, <3>2
  <2>3. ClosedUnder(A \ {s}, x2, nx2) /\ A \ {s} \in SUBSET Frame
    BY <2>1, <2>2, <1>1 DEF ClosedUnder
  <2> QED
    BY <2>3, LeastMin
<1>7. A \subseteq B \cup {s}
  <2> DEFINE S == B \cup {r \in {s} : s = x \/ pv[s] \in B}
  <2>1. x # NULL => x \in S
    BY <1>5 DEF ClosedUnder
  <2>2. ASSUME NEW r \in S, nx[r] # NULL PROVE nx[r] \in S
    <3>1. CASE r = s
      <4>1. CASE s = x
        BY <2>2, <3>1, <4>1, <1>5 DEF ClosedUnder
      <4>2. CASE s # x
        <5>1. pv[s] \in B
          <6>1. s \notin B
            BY <1>6
          <6> QED
            BY <6>1, <2>2, <3>1, <4>2
        <5> QED
          BY <5>1, <2>2, <3>1, <4>2, <1>2, <1>3, <1>5 DEF ClosedUnder
      <4> QED
        BY <4>1, <4>2
    <3>2. CASE r # s /\ r = pv[s]
      BY <2>2, <3>2, <1>0, <1>3, <1>5
    <3>3. CASE r # s /\ r # pv[s]
      BY <2>2, <3>3, <1>3, <1>5 DEF ClosedUnder
    <3> QED
      BY <3>1, <3>2, <3>3
  <2>3. ClosedUnder(S, x, nx) /\ S \in SUBSET Frame
    BY <2>1, <2>2, <1>2, <1>5 DEF ClosedUnder
  <2>4. A \subseteq S
    BY <2>3, LeastMin
  <2> QED
    BY <2>4
<1> QED
  BY <1>6, <1>7

----------------------------------------------------------------------------
(***************************************************************************)
(* The inductive invariant                                                 *)
(***************************************************************************)
\* The argument of a call, and the loop index.
ArgInv ==
    /\ arg.v \in Nat /\ arg.n \in Nat /\ arg.phys \in Nat
    /\ pc \in {"none", "idle", "destroy", "gone"} => arg.op = "none"
    /\ pc = "search" => arg.op \in {"valloc", "vallocat"}
    /\ pc = "map" => arg.op \in {"valloc", "vallocat", "vadd"}
    /\ pc = "overlap" => arg.op = "vadd"
    /\ pc \in {"search", "map", "overlap"} => arg.n > 0
    /\ pc \in {"find", "unmap"} => arg.op = "vfree"
    /\ pc \notin {"map", "unmap"} => i = 0
    /\ arg.op = "vallocat" => arg.phys \in Phys /\ (arg.phys = 0 => i = 0)

\* Before vinit nothing is written.
NewInv ==
    /\ pc = "none" => /\ root = NULL /\ ctx = NULL /\ region = NULL /\ managed = avail
                      /\ pagemap = [v \in {} |-> 0] /\ tables = [t \in {} |-> 0]
                      /\ \A r \in Frame : start[r] = 0 /\ pages[r] = 0 /\ next[r] = NULL /\ prev[r] = NULL
    /\ pc # "none" => ctx \in Frame

\* prev mirrors next.
LinkInv ==
    /\ root # NULL => prev[root] = NULL
    /\ \A r \in Listed : next[r] # NULL => prev[next[r]] = r
    /\ \A r \in Listed : prev[r] # NULL => prev[r] \in Listed /\ next[prev[r]] = r

\* One of the two ends before the other begins: more than having no page in
\* common when one is empty.
Apart(r, s) == End(r) <= start[s] \/ End(s) <= start[r]

\* Regions are apart.  Along the list addresses do not leave a gap, so that a
\* search ends at the last region; an empty region, such as the root, starts
\* where the next one does, and an empty last region starts nowhere else.
OrderInv ==
    /\ \A r \in Listed : start[r] >= 1
    /\ \A r, s \in Listed : r # s => Apart(r, s)
    /\ \A r \in Listed : next[r] # NULL => start[next[r]] <= End(r)
    /\ \A r \in Listed : next[r] # NULL /\ pages[r] = 0 => start[next[r]] = start[r]
    /\ \A r, s \in Listed : r # s /\ Last(r) /\ pages[r] = 0 => start[r] # start[s]

\* What a call relies on at each of its steps: the walk is inside the list and
\* has passed what it has looked at, and the caller's promise still holds.
CallInv ==
    /\ region # NULL => region \in Listed
    /\ pc \in {"search", "map", "unmap"} => region # NULL
    /\ pc = "search" => RoomFor(arg.n)
    /\ pc = "search" /\ arg.op = "vallocat" => \A r \in Listed : ~ Last(r) => pages[r] <= arg.n
    /\ pc = "map" => pages[region] = arg.n /\ i <= arg.n
    /\ pc = "overlap" => /\ root # NULL
                         /\ \A r \in Listed : start[r] <= arg.v
                         /\ \A r \in Listed : r \in Reach(region) \/ ~ Overlaps(arg.v, arg.n, r)
    /\ pc \in {"find", "unmap"} =>
         /\ arg.v # 0 => \E r \in Listed : Last(r) /\ start[r] = arg.v
         /\ region # NULL /\ prev[region] # NULL => start[prev[region]] # arg.v
    /\ pc = "unmap" => start[region] = arg.v /\ i <= pages[region]

\* The pages vadd was given and has not yet mapped.
Hand == IF pc = "overlap" \/ (pc = "map" /\ arg.op = "vadd")
        THEN arg.phys + i .. arg.phys + arg.n - 1 ELSE {}

\* The pages of the leaf tables.
TableFrames == {tables[t] : t \in DOMAIN tables}

\* A page has one use.
UseInv ==
    /\ Listed \cap avail = {}
    /\ ctx \notin avail \cup Listed
    /\ TableFrames \cap (avail \cup Listed \cup {ctx}) = {}
    /\ Hand \subseteq Frame /\ Hand \cap (avail \cup Listed \cup {ctx} \cup TableFrames) = {}
    /\ \A v \in DOMAIN pagemap : pagemap[v] \in Frame =>
         pagemap[v] \notin avail \cup Listed \cup {ctx} \cup TableFrames \cup Hand
    /\ \A v, w \in DOMAIN pagemap : pagemap[v] \in Frame /\ pagemap[v] = pagemap[w] => v = w

\* What is mapped lies in a region.
MapInv == \A v \in DOMAIN pagemap : \E r \in Listed : v \in Pages(r)

\* The pages a loop has not reached are not mapped yet, or no longer.
LoopInv ==
    /\ pc = "map" => \A j \in i .. arg.n - 1 : start[region] + j \notin DOMAIN pagemap
    /\ pc = "unmap" => \A j \in 0 .. i - 1 : start[region] + j \notin DOMAIN pagemap

\* No page is lost.
LostInv == starved \/ managed \subseteq avail \cup InUse \cup Hand

IInv ==
    /\ TypeOK /\ ArgInv /\ NewInv
    /\ Up => LinkInv /\ OrderInv /\ CallInv /\ UseInv /\ MapInv /\ LoopInv /\ LostInv

----------------------------------------------------------------------------
(***************************************************************************)
(* Facts about the state                                                   *)
(***************************************************************************)
LEMMA ListedIsLeast ==
    /\ Listed = Least(root, next) /\ Listed' = Least(root', next')
    /\ Reach(region) = Least(region, next) /\ Reach(region)' = Least(region', next')
BY DEF Listed, Reach, Least, ClosedUnder

LEMMA ListedFacts ==
    ASSUME TypeOK
    PROVE  /\ Listed \subseteq Frame /\ (root # NULL => root \in Listed)
           /\ \A r \in Listed : next[r] # NULL => next[r] \in Listed
           /\ Mirrored(root, next, prev, Listed) <=> LinkInv
BY ListedIsLeast, LeastClosed DEF TypeOK, Ref, ClosedUnder, Mirrored, LinkInv

\* What a step of a walk, a call and a return leave alone.
Kept == UNCHANGED <<avail, ctx, root, fields, maps>>

LEMMA KeptFacts ==
    ASSUME Kept
    PROVE  Listed' = Listed /\ TableFrames' = TableFrames /\ InUse' = InUse
<1>1. Listed' = Listed
  BY ListedIsLeast DEF Kept, fields
<1>2. TableFrames' = TableFrames
  BY DEF Kept, maps, TableFrames
<1>3. InUse' = InUse
  BY <1>1 DEF Kept, maps, InUse
<1> QED
  BY <1>1, <1>2, <1>3

LEMMA QuietStep ==
    ASSUME IInv, Up, Up', Kept, Hand' = Hand, pc' \in {"idle", "search", "map", "overlap", "find", "unmap"},
           region' \in Frame \cup {NULL}, i' \in Nat, given' \subseteq Nat,
           ArgInv', CallInv', LoopInv'
    PROVE  IInv'
<1>0. /\ TypeOK /\ NewInv /\ LinkInv /\ OrderInv /\ UseInv /\ MapInv /\ LostInv
  BY DEF IInv
<1>1. Listed' = Listed /\ TableFrames' = TableFrames /\ InUse' = InUse
  BY KeptFacts
<1>2. TypeOK'
  BY <1>0 DEF TypeOK, Kept, fields, maps
<1>3. NewInv'
  BY <1>0 DEF NewInv, Kept, Up
<1>4. LinkInv'
  BY <1>0, <1>1 DEF LinkInv, Kept, fields
<1>5. OrderInv'
  BY <1>0, <1>1 DEF OrderInv, Apart, Last, End, Kept, fields
<1>6. UseInv'
  BY <1>0, <1>1 DEF UseInv, Kept, maps
<1>7. MapInv'
  BY <1>0, <1>1 DEF MapInv, Pages, End, Kept, fields, maps
<1>8. LostInv'
  BY <1>0, <1>1 DEF LostInv, Kept, maps
<1> QED
  BY <1>2, <1>3, <1>4, <1>5, <1>6, <1>7, <1>8 DEF IInv

----------------------------------------------------------------------------
(***************************************************************************)
(* Calls, walks and returns                                                *)
(***************************************************************************)
LEMMA ReturnStep ==
    ASSUME IInv, Up, Kept, Return, Hand = {}, given' \subseteq Nat
    PROVE  IInv'
<1>1. Up' /\ Hand' = Hand
  BY DEF Return, Up, Hand
<1>2. ArgInv'
  BY DEF Return, ArgInv, NoArg
<1>3. CallInv'
  BY DEF Return, CallInv
<1>4. LoopInv'
  BY DEF Return, LoopInv
<1> QED
  BY <1>1, <1>2, <1>3, <1>4, QuietStep DEF Return

LEMMA ReturnIInv ==
    ASSUME IInv, NoDescriptor \/ FoundNone \/ MapNoPage \/ MapZero \/ MapDone
    PROVE  IInv'
<1>0. Up => CallInv
  BY DEF IInv
<1>1. TypeOK /\ ArgInv
  BY DEF IInv
<1>2. Up /\ Kept /\ Return
  BY DEF NoDescriptor, FoundNone, MapNoPage, MapZero, MapDone, Up, Kept
<1>3. Hand = {}
  <2>1. CASE NoDescriptor \/ FoundNone \/ MapNoPage \/ MapZero
    BY <2>1 DEF Hand, NoDescriptor, FoundNone, MapNoPage, MapZero
  <2>2. CASE MapDone
    BY <2>2, <1>1 DEF Hand, MapDone, ArgInv
  <2> QED
    BY <2>1, <2>2
<1>4. given' \subseteq Nat
  <2>1. CASE NoDescriptor \/ FoundNone \/ MapNoPage \/ MapZero
    BY <2>1, <1>1 DEF TypeOK, NoDescriptor, FoundNone, MapNoPage, MapZero
  <2>2. CASE MapDone
    BY <2>2, <1>0, <1>1, <1>2 DEF TypeOK, MapDone, CallInv
  <2> QED
    BY <2>1, <2>2
<1> QED
  BY <1>2, <1>3, <1>4, ReturnStep

LEMMA CallIInv ==
    ASSUME IInv,
           \/ \E n \in Sizes : VallocCall(n)
           \/ \E n \in Sizes, p \in Phys : VallocatCall(n, p)
           \/ \E v \in given \cup {0} : VfreeCall(v)
    PROVE  IInv'
<1>1. TypeOK /\ ArgInv /\ NewInv
  BY DEF IInv
<1>2. Sizes \subseteq Nat \ {0} /\ Phys \subseteq Nat
  BY VMMAssumption
<1>3. CASE \E n \in Sizes : VallocCall(n)
  <2>1. PICK n \in Sizes : VallocCall(n)
    BY <1>3
  <2>2. Up /\ Up' /\ Kept /\ Hand' = Hand
    BY <2>1 DEF VallocCall, Up, Kept, Hand, NoArg
  <2>3. Listed' = Listed /\ root \in Listed
    BY <2>1, <2>2, <1>1, KeptFacts, ListedFacts DEF VallocCall
  <2>4. ArgInv'
    <3>1. /\ arg'.op = "valloc" /\ arg'.v = 0 /\ arg'.n = n /\ arg'.phys = 0
          /\ pc' = "search" /\ i' = 0
      BY <2>1, <1>1 DEF VallocCall, ArgInv, NoArg
    <3>2. n \in Nat /\ n > 0
      BY <1>2
    <3> QED
      BY <3>1, <3>2 DEF ArgInv
  <2>5. CallInv'
    BY <2>1, <2>3 DEF VallocCall, CallInv, NoArg, RoomFor, Last, End, fields
  <2>6. LoopInv'
    BY <2>1 DEF VallocCall, LoopInv
  <2> QED
    BY <2>1, <2>2, <2>4, <2>5, <2>6, <1>1, QuietStep DEF VallocCall, TypeOK
<1>4. CASE \E n \in Sizes, p \in Phys : VallocatCall(n, p)
  <2>1. PICK n \in Sizes, p \in Phys : VallocatCall(n, p)
    BY <1>4
  <2>2. Up /\ Up' /\ Kept /\ Hand' = Hand
    BY <2>1 DEF VallocatCall, Up, Kept, Hand, NoArg
  <2>3. Listed' = Listed /\ root \in Listed
    BY <2>1, <2>2, <1>1, KeptFacts, ListedFacts DEF VallocatCall
  <2>4. ArgInv'
    <3>1. /\ arg'.op = "vallocat" /\ arg'.v = 0 /\ arg'.n = n /\ arg'.phys = p
          /\ pc' = "search" /\ i' = 0
      BY <2>1, <1>1 DEF VallocatCall, ArgInv, NoArg
    <3>2. n \in Nat /\ n > 0 /\ p \in Nat
      BY <1>2
    <3> QED
      BY <3>1, <3>2 DEF ArgInv
  <2>5. CallInv'
    BY <2>1, <2>3 DEF VallocatCall, CallInv, NoArg, RoomFor, Last, End, fields
  <2>6. LoopInv'
    BY <2>1 DEF VallocatCall, LoopInv
  <2> QED
    BY <2>1, <2>2, <2>4, <2>5, <2>6, <1>1, QuietStep DEF VallocatCall, TypeOK
<1>5. CASE \E v \in given \cup {0} : VfreeCall(v)
  <2>1. PICK v \in given \cup {0} : VfreeCall(v)
    BY <1>5
  <2>2. Up /\ Up' /\ Kept /\ Hand' = Hand
    BY <2>1 DEF VfreeCall, Up, Kept, Hand, NoArg
  <2>3. Listed' = Listed /\ root \in Listed
    BY <2>1, <2>2, <1>1, KeptFacts, ListedFacts DEF VfreeCall
  <2>4. v \in Nat
    BY <1>1 DEF TypeOK
  <2>5. ArgInv'
    BY <2>1, <2>4, <1>1, <1>2 DEF VfreeCall, ArgInv, NoArg
  <2>6. CallInv'
    <3>1. prev[root] = NULL
      BY <2>1, <2>2 DEF IInv, LinkInv, VfreeCall
    <3> QED
      BY <2>1, <2>3, <3>1 DEF VfreeCall, CallInv, NoArg, Last, End, fields
  <2>7. LoopInv'
    BY <2>1 DEF VfreeCall, LoopInv
  <2>8. given' \subseteq Nat
    BY <2>1, <1>1 DEF VfreeCall, TypeOK
  <2> QED
    BY <2>1, <2>2, <2>5, <2>6, <2>7, <2>8, <1>1, QuietStep DEF VfreeCall, TypeOK
<1> QED
  BY <1>3, <1>4, <1>5

LEMMA WalkIInv ==
    ASSUME IInv, SearchOn \/ OverlapOn \/ FindOn \/ Found
    PROVE  IInv'
<1>1. Up /\ Up' /\ Kept /\ Hand' = Hand
  BY DEF SearchOn, OverlapOn, FindOn, Found, Up, Kept, Hand
<1>2. TypeOK /\ ArgInv /\ LinkInv /\ CallInv /\ LoopInv
  BY <1>1 DEF IInv
<1>3. Listed' = Listed
  BY <1>1, KeptFacts
<1>4. ArgInv'
  BY <1>2 DEF SearchOn, OverlapOn, FindOn, Found, ArgInv
<1>5. region \in Listed /\ region \in Frame /\ (next[region] # NULL => next[region] \in Listed)
  BY <1>2, ListedFacts DEF CallInv, SearchOn, OverlapOn, FindOn, Found
<1>6. CallInv'
  <2>1. CASE SearchOn
    <3>1. next[region] # NULL
      BY <2>1 DEF SearchOn, Gap
    <3> QED
      BY <2>1, <3>1, <1>2, <1>3, <1>5 DEF SearchOn, CallInv, RoomFor, Last, End, fields
  <2>2. CASE OverlapOn
    <3>1. Reach(region)' = Least(next[region], next)
      BY <2>2, ListedIsLeast DEF OverlapOn, fields
    <3>2. ASSUME NEW r \in Listed, r \in Reach(region) PROVE r = region \/ r \in Reach(region)'
      <4>1. r \in Least(region, next) /\ next \in [Frame -> Ref]
        BY <3>2, <1>2, ListedIsLeast DEF TypeOK, Ref
      <4> QED
        BY <4>1, <3>1, <1>5, LeastStep
    <3>3. \A r \in Listed : r \in Reach(region)' \/ ~ Overlaps(arg.v, arg.n, r)
      BY <3>2, <2>2, <1>2 DEF OverlapOn, CallInv
    <3> QED
      BY <2>2, <3>3, <1>2, <1>3, <1>5 DEF OverlapOn, CallInv, Overlaps, End, fields
  <2>3. CASE FindOn
    BY <2>3, <1>2, <1>3, <1>5 DEF FindOn, CallInv, LinkInv, Last, fields
  <2>4. CASE Found
    BY <2>4, <1>2, <1>3, <1>5 DEF Found, CallInv, ArgInv, TypeOK, Last, fields
  <2> QED
    BY <2>1, <2>2, <2>3, <2>4
<1>7. LoopInv'
  <2>1. CASE SearchOn \/ OverlapOn \/ FindOn
    BY <2>1 DEF SearchOn, OverlapOn, FindOn, LoopInv
  <2>2. CASE Found
    BY <2>2, <1>2 DEF Found, LoopInv, ArgInv
  <2> QED
    BY <2>1, <2>2
<1>8. /\ region' \in Frame \cup {NULL} /\ i' \in Nat /\ given' \subseteq Nat
      /\ pc' \in {"idle", "search", "map", "overlap", "find", "unmap"}
  BY <1>2, <1>5 DEF TypeOK, SearchOn, OverlapOn, FindOn, Found
<1> QED
  BY <1>1, <1>4, <1>6, <1>7, <1>8, QuietStep

----------------------------------------------------------------------------
(***************************************************************************)
(* vinit and vdestroy                                                      *)
(***************************************************************************)
LEMMA InitIInv == Init => IInv
<1> SUFFICES ASSUME Init PROVE IInv
  OBVIOUS
<1>1. TypeOK
  <2>1. avail \subseteq Frame
    BY VMMAssumption DEF Init, Frame
  <2> QED
    BY <2>1 DEF Init, TypeOK
<1>2. ArgInv
  BY DEF Init, ArgInv, NoArg
<1>3. NewInv
  BY DEF Init, NewInv
<1> QED
  BY <1>1, <1>2, <1>3 DEF IInv, Up, Init

LEMMA VinitIInv ==
    ASSUME IInv, Vinit
    PROVE  IInv'
<1>1. TypeOK /\ ArgInv /\ NewInv
  BY DEF IInv
<1>2. PICK f \in avail : \E r \in avail \ {f} :
           ctx' = f /\ root' = r /\ avail' = avail \ {f, r} /\ start' = [start EXCEPT ![r] = Start]
  BY DEF Vinit, Palloc
<1>3. PICK r \in avail \ {f} :
           ctx' = f /\ root' = r /\ avail' = avail \ {f, r} /\ start' = [start EXCEPT ![r] = Start]
  BY <1>2
<1>4. /\ pc = "none" /\ pc' = "idle" /\ region' = NULL /\ i' = i /\ arg' = arg /\ Up'
      /\ pages' = pages /\ next' = next /\ prev' = prev /\ given' = given
      /\ pagemap' = pagemap /\ tables' = tables /\ starved' = starved /\ managed' = managed
      /\ managed = avail /\ pagemap = [v \in {} |-> 0] /\ tables = [t \in {} |-> 0]
      /\ \A s \in Frame : next[s] = NULL /\ prev[s] = NULL /\ pages[s] = 0
  BY <1>1 DEF Vinit, maps, NewInv, Up
<1>5. r \in Frame /\ f \in Frame /\ r # f /\ Start \in Nat /\ Start >= 1
  BY <1>1, VMMAssumption DEF TypeOK
<1>6. Listed' = {r}
  <2>1. Listed' = Least(r, next) /\ next \in [Frame -> Ref] /\ next[r] = NULL
    BY <1>1, <1>3, <1>4, <1>5, ListedIsLeast DEF TypeOK, Ref
  <2>2. \A s \in Least(r, next) : s = r
    BY <2>1, <1>5, LeastStep, LeastNull
  <2>3. r \in Least(r, next)
    BY <2>1, <1>5, LeastClosed, NullIsNoFrame DEF ClosedUnder, Ref
  <2> QED
    BY <2>1, <2>2, <2>3
<1>7. TableFrames' = {} /\ Hand' = {}
  BY <1>4 DEF TableFrames, Hand
<1>8. start' \in [Frame -> Nat] /\ start'[r] = Start
  BY <1>1, <1>3, <1>5 DEF TypeOK
<1>9. TypeOK'
  BY <1>1, <1>3, <1>4, <1>5, <1>8 DEF TypeOK
<1>10. ArgInv' /\ NewInv'
  BY <1>1, <1>3, <1>4, <1>5 DEF ArgInv, NewInv
<1>11. LinkInv'
  BY <1>3, <1>4, <1>5, <1>6 DEF LinkInv
<1>12. OrderInv'
  BY <1>4, <1>5, <1>6, <1>8 DEF OrderInv
<1>13. CallInv' /\ LoopInv'
  BY <1>4 DEF CallInv, LoopInv
<1>14. UseInv' /\ MapInv'
  BY <1>3, <1>4, <1>6, <1>7 DEF UseInv, MapInv
<1>15. LostInv'
  BY <1>3, <1>4, <1>6 DEF LostInv, InUse
<1> QED
  BY <1>9, <1>10, <1>11, <1>12, <1>13, <1>14, <1>15 DEF IInv

LEMMA VdestroyIInv ==
    ASSUME IInv, VdestroyCall \/ VdestroyRegion \/ VdestroyContext
    PROVE  IInv'
<1>1. TypeOK /\ ArgInv /\ NewInv
  BY DEF IInv
<1>2. ~ Up' /\ pc' \in {"destroy", "gone"} /\ pc # "none" /\ ctx \in Frame
  BY <1>1 DEF VdestroyCall, VdestroyRegion, VdestroyContext, Up, NewInv
<1>3. TypeOK'
  BY <1>1, <1>2 DEF TypeOK, VdestroyCall, VdestroyRegion, VdestroyContext, fields, maps
<1>4. ArgInv'
  BY <1>1 DEF ArgInv, VdestroyCall, VdestroyRegion, VdestroyContext
<1>5. NewInv'
  BY <1>2 DEF NewInv, VdestroyCall, VdestroyRegion, VdestroyContext
<1> QED
  BY <1>2, <1>3, <1>4, <1>5 DEF IInv

----------------------------------------------------------------------------
(***************************************************************************)
(* A region is put into the list                                           *)
(***************************************************************************)
LEMMA LinkStep ==
    ASSUME IInv, pc \in {"search", "overlap"}, pc' = "map",
           NEW f \in avail, avail' = avail \ {f}, Listed' = Listed \cup {f}, region' = f,
           NEW a \in Nat, start' = [start EXCEPT ![f] = a], pages' = [pages EXCEPT ![f] = arg.n],
           next' \in [Frame -> Ref], prev' \in [Frame -> Ref], root' \in Ref,
           UNCHANGED <<ctx, given, maps, arg, i>>, LinkInv', OrderInv'
    PROVE  IInv'
<1>1. Up /\ Up'
  BY DEF Up
<1>2. TypeOK /\ ArgInv /\ NewInv /\ CallInv /\ UseInv /\ MapInv /\ LostInv
  BY <1>1 DEF IInv
<1>3. /\ f \in Frame /\ f \notin Listed /\ arg.n \in Nat /\ arg.n > 0 /\ Listed \subseteq Frame
      /\ i = 0 /\ i' = 0
  BY <1>2, ListedFacts DEF TypeOK, UseInv, ArgInv
<1>4. /\ start'[f] = a /\ pages'[f] = arg.n
      /\ \A r \in Listed : start'[r] = start[r] /\ pages'[r] = pages[r]
      /\ \A r \in Frame : start[r] \in Nat /\ pages[r] \in Nat
      /\ start' \in [Frame -> Nat] /\ pages' \in [Frame -> Nat]
  BY <1>2, <1>3 DEF TypeOK
<1>5. TypeOK'
  <2> USE <1>2, <1>3, <1>4
  <2>1. avail' \subseteq Frame /\ region' \in Frame /\ pc' = "map" /\ i' \in Nat
    BY DEF TypeOK
  <2> QED
    BY <2>1 DEF TypeOK, Ref, maps
<1>6. ArgInv'
  BY <1>2, <1>3 DEF ArgInv
<1>7. NewInv'
  BY <1>2 DEF NewInv
<1>8. CallInv'
  <2>1. region' = f /\ f \in Listed' /\ f # NULL /\ arg' = arg
    BY <1>3, NullIsNoFrame
  <2>2. pages'[region'] = arg'.n /\ i' <= arg'.n
    BY <2>1, <1>3, <1>4
  <2> QED
    BY <2>1, <2>2 DEF CallInv
<1>9. Hand' = Hand /\ TableFrames' = TableFrames /\ pagemap' = pagemap /\ managed' = managed /\ starved' = starved
  BY <1>2 DEF Hand, TableFrames, maps, ArgInv
<1>10. UseInv'
  BY <1>2, <1>9 DEF UseInv
<1>11. MapInv'
  BY <1>2, <1>4, <1>9 DEF MapInv, Pages, End
<1>12. LoopInv'
  <2> SUFFICES ASSUME NEW j \in 0 .. arg.n - 1, a + j \in DOMAIN pagemap PROVE FALSE
    BY <1>3, <1>4, <1>9 DEF LoopInv
  <2> DEFINE v == a + j
  <2>0. v \in DOMAIN pagemap
    OBVIOUS
  <2> HIDE DEF v
  <2>1. PICK r \in Listed : v \in Pages(r)
    BY <2>0, <1>2 DEF MapInv
  <2>2. Apart(f, r)'
    BY <1>3 DEF OrderInv
  <2>3. a + arg.n <= start[r] \/ start[r] + pages[r] <= a
    BY <2>2, <1>4 DEF Apart, End
  <2>4. start[r] \in Nat /\ pages[r] \in Nat
    BY <1>3, <1>4
  <2> QED
    BY <2>1, <2>3, <2>4, <1>3 DEF v, Pages, End
<1>13. LostInv'
  BY <1>2, <1>9 DEF LostInv, InUse, maps
<1> QED
  BY <1>5, <1>6, <1>7, <1>8, <1>10, <1>11, <1>12, <1>13 DEF IInv

LEMMA InsertIInv ==
    ASSUME IInv, Insert
    PROVE  IInv'
<1>1. Up /\ pc = "search" /\ pc' = "map" /\ Gap(region)
  BY DEF Insert, Up
<1>2. TypeOK /\ ArgInv /\ LinkInv /\ OrderInv /\ CallInv /\ UseInv
  BY <1>1 DEF IInv
<1>3. PICK f \in avail :
         /\ avail' = avail \ {f}
         /\ start' = [start EXCEPT ![f] = End(region)]
         /\ pages' = [pages EXCEPT ![f] = arg.n]
         /\ next' = [next EXCEPT ![f] = next[region], ![region] = f]
         /\ prev' = [prev EXCEPT ![f] = region]
         /\ region' = f
  BY DEF Insert, Palloc, NewStart
<1>4. PICK g : g = region
  OBVIOUS
<1>5. /\ g \in Listed /\ Listed \subseteq Frame /\ f \in Frame /\ f \notin Listed /\ NULL \notin Frame
      /\ \A r \in Listed : next[r] # NULL => next[r] \in Listed
      /\ root # NULL => root \in Listed
  BY <1>1, <1>2, <1>4, ListedFacts, NullIsNoFrame DEF CallInv, UseInv, TypeOK
<1>6. /\ \A r \in Frame : start[r] \in Nat /\ pages[r] \in Nat
      /\ arg.n \in Nat /\ arg.n > 0 /\ arg.op \in {"valloc", "vallocat"}
  BY <1>1, <1>2 DEF TypeOK, ArgInv
<1>7. next[g] = NULL
  <2> SUFFICES ASSUME next[g] # NULL PROVE FALSE
    OBVIOUS
  <2>1. /\ start[next[g]] <= start[g] + pages[g] /\ start[next[g]] \in Nat
        /\ start[g] \in Nat /\ pages[g] \in Nat
    BY <1>2, <1>5, <1>6 DEF OrderInv, End
  <2>2. CASE arg.op = "valloc"
    BY <2>1, <2>2, <1>1, <1>4 DEF Gap, End
  <2>3. CASE arg.op # "valloc"
    <3>1. pages[g] <= arg.n
      BY <2>3, <1>1, <1>2, <1>5, <1>6 DEF CallInv, Last
    <3>2. start[g] + arg.n < start[next[g]]
      BY <2>3, <1>1, <1>4 DEF Gap
    <3> QED
      BY <3>1, <3>2, <2>1, <1>6
  <2> QED
    BY <2>2, <2>3
<1>8. next \in [Frame -> Ref] /\ prev \in [Frame -> Ref] /\ root \in Ref /\ root' = root
  BY <1>2 DEF TypeOK, Ref, Insert
<1>9. Listed' = Listed \cup {f}
  <2>1. /\ next' \in [Frame -> Ref] /\ next'[f] = NULL /\ next'[g] = f
        /\ \A s \in Frame \ {f, g} : next'[s] = next[s]
    BY <1>3, <1>4, <1>5, <1>7, <1>8 DEF Ref
  <2>2. g \in Least(root, next) /\ f \in Frame \ Least(root, next) /\ Listed = Least(root, next)
    BY <1>5, ListedIsLeast
  <2>3. Least(root, next') = Least(root, next) \cup {f}
    BY <2>1, <2>2, <1>7, <1>8, LeastAppend
  <2> QED
    BY <2>2, <2>3, <1>8, ListedIsLeast
<1>10. /\ next'[f] = NULL /\ next'[g] = f /\ \A r \in Listed \ {g} : next'[r] = next[r]
       /\ prev'[f] = g /\ \A r \in Listed : prev'[r] = prev[r]
       /\ next' \in [Frame -> Ref] /\ prev' \in [Frame -> Ref]
  BY <1>3, <1>4, <1>5, <1>7, <1>8 DEF Ref
<1>11. LinkInv'
  <2>1. root' # NULL => prev'[root'] = NULL
    BY <1>2, <1>5, <1>8, <1>10 DEF LinkInv
  <2>2. ASSUME NEW r \in Listed', next'[r] # NULL PROVE prev'[next'[r]] = r
    BY <2>2, <1>2, <1>5, <1>9, <1>10 DEF LinkInv
  <2>3. ASSUME NEW r \in Listed', prev'[r] # NULL PROVE prev'[r] \in Listed' /\ next'[prev'[r]] = r
    <3>1. CASE r = f
      BY <3>1, <1>5, <1>9, <1>10
    <3>2. CASE r # f
      <4>1. r \in Listed /\ prev'[r] = prev[r] /\ prev[r] \in Listed /\ next[prev[r]] = r
        BY <2>3, <3>2, <1>2, <1>9, <1>10 DEF LinkInv
      <4>2. prev[r] # g
        BY <4>1, <1>5, <1>7
      <4> QED
        BY <4>1, <4>2, <1>9, <1>10
    <3> QED
      BY <3>1, <3>2
  <2> QED
    BY <2>1, <2>2, <2>3 DEF LinkInv
<1>12. PICK e : e = start[g] + pages[g]
  OBVIOUS
<1>13. /\ e \in Nat /\ start[g] \in Nat /\ pages[g] \in Nat
       /\ start'[f] = e /\ pages'[f] = arg.n
       /\ \A r \in Listed : start'[r] = start[r] /\ pages'[r] = pages[r]
  BY <1>2, <1>3, <1>4, <1>5, <1>6, <1>12 DEF TypeOK, End
<1>14. ASSUME NEW s \in Listed, s # g
       PROVE  /\ start[s] >= e + arg.n \/ start[s] + pages[s] <= e
              /\ Last(s) /\ pages[s] = 0 => start[s] # e
  <2>1. start[s] \in Nat /\ pages[s] \in Nat
    BY <1>5, <1>6
  <2>2. e <= start[s] \/ start[s] + pages[s] <= start[g]
    BY <1>2, <1>5, <1>12, <1>14 DEF OrderInv, Apart, End
  <2>3. start[s] > start[g] => e + arg.n <= start[s]
    BY <1>1, <1>2, <1>5, <1>7, <1>12 DEF CallInv, RoomFor, Last, End
  <2>4. pages[g] = 0 => start[g] # start[s]
    BY <1>2, <1>5, <1>7, <1>14 DEF OrderInv, Last
  <2>5. start[s] >= e + arg.n \/ start[s] + pages[s] <= e
    BY <2>1, <2>2, <2>3, <2>4, <1>6, <1>12, <1>13
  <2>6. start[s] # e
    BY <2>1, <2>3, <2>4, <1>6, <1>12, <1>13
  <2> QED
    BY <2>5, <2>6
<1>15. OrderInv'
  <2>1. ASSUME NEW r \in Listed' PROVE start'[r] >= 1
    BY <1>2, <1>5, <1>9, <1>12, <1>13 DEF OrderInv
  <2>2. ASSUME NEW r \in Listed PROVE Apart(f, r)' /\ Apart(r, f)'
    <3>1. start[r] \in Nat /\ pages[r] \in Nat
      BY <1>5, <1>6
    <3>2. start[r] >= e + arg.n \/ start[r] + pages[r] <= e
      BY <3>1, <1>12, <1>13, <1>14
    <3> QED
      BY <3>1, <3>2, <1>6, <1>13 DEF Apart, End
  <2>3. ASSUME NEW r \in Listed', NEW s \in Listed', r # s PROVE Apart(r, s)'
    <3>1. CASE r = f \/ s = f
      BY <3>1, <2>2, <2>3, <1>9
    <3>2. CASE r # f /\ s # f
      BY <3>2, <2>3, <1>2, <1>9, <1>13 DEF OrderInv, Apart, End
    <3> QED
      BY <3>1, <3>2
  <2>4. ASSUME NEW r \in Listed', next'[r] # NULL
        PROVE  start'[next'[r]] <= End(r)' /\ (pages'[r] = 0 => start'[next'[r]] = start'[r])
    <3>1. CASE r = g
      BY <3>1, <1>5, <1>10, <1>12, <1>13 DEF End
    <3>2. CASE r # g
      <4>1. r \in Listed /\ next'[r] = next[r] /\ next[r] \in Listed
        BY <2>4, <3>2, <1>5, <1>9, <1>10
      <4> QED
        BY <4>1, <2>4, <1>2, <1>13 DEF OrderInv, End
    <3> QED
      BY <3>1, <3>2
  <2>5. ASSUME NEW r \in Listed', NEW s \in Listed', r # s, Last(r)', pages'[r] = 0
        PROVE  start'[r] # start'[s]
    <3>1. r \in Listed /\ r # g /\ Last(r) /\ pages[r] = 0 /\ start'[r] = start[r]
      BY <2>5, <1>5, <1>6, <1>9, <1>10, <1>13 DEF Last
    <3>2. CASE s = f
      BY <3>1, <3>2, <1>13, <1>14
    <3>3. CASE s # f
      BY <2>5, <3>1, <3>3, <1>2, <1>9, <1>13 DEF OrderInv
    <3> QED
      BY <3>2, <3>3
  <2> QED
    BY <2>1, <2>3, <2>4, <2>5 DEF OrderInv
<1> QED
  <2>1. start' = [start EXCEPT ![f] = e]
    BY <1>3, <1>4, <1>12 DEF End
  <2>2. UNCHANGED <<ctx, given, maps, arg, i>>
    BY DEF Insert
  <2> QED
    BY <2>1, <2>2, <1>1, <1>3, <1>8, <1>9, <1>10, <1>11, <1>13, <1>15, LinkStep

LEMMA VaddLinkIInv ==
    ASSUME IInv, VaddLink
    PROVE  IInv'
<1>1. Up /\ pc = "overlap" /\ pc' = "map" /\ region = NULL
  BY DEF VaddLink, Up
<1>2. TypeOK /\ ArgInv /\ LinkInv /\ OrderInv /\ CallInv /\ UseInv
  BY <1>1 DEF IInv
<1>3. PICK f \in avail :
         /\ avail' = avail \ {f}
         /\ start' = [start EXCEPT ![f] = arg.v]
         /\ pages' = [pages EXCEPT ![f] = arg.n]
         /\ next' = [next EXCEPT ![f] = root]
         /\ prev' = [prev EXCEPT ![f] = NULL, ![root] = f]
         /\ root' = f /\ region' = f
  BY DEF VaddLink, Palloc
<1>4. PICK g : g = root
  OBVIOUS
<1>5. /\ g \in Listed /\ Listed \subseteq Frame /\ f \in Frame /\ f \notin Listed /\ NULL \notin Frame
      /\ \A r \in Listed : next[r] # NULL => next[r] \in Listed
  BY <1>1, <1>2, <1>4, ListedFacts, NullIsNoFrame DEF CallInv, UseInv, TypeOK
<1>6. /\ \A r \in Frame : start[r] \in Nat /\ pages[r] \in Nat
      /\ arg.n \in Nat /\ arg.n > 0 /\ arg.v \in Nat
  BY <1>1, <1>2 DEF TypeOK, ArgInv
<1>7. \A r \in Listed : ~ Overlaps(arg.v, arg.n, r) /\ start[r] <= arg.v
  BY <1>1, <1>2, ListedIsLeast, LeastNull DEF CallInv
<1>8. next \in [Frame -> Ref] /\ prev \in [Frame -> Ref] /\ g \in Ref
  BY <1>2, <1>4 DEF TypeOK, Ref
<1>9. Listed' = Listed \cup {f}
  <2>1. /\ next' \in [Frame -> Ref] /\ next'[f] = g /\ root' = f
        /\ \A s \in Frame \ {f} : next'[s] = next[s]
    BY <1>3, <1>4, <1>5, <1>8
  <2>2. f \in Frame \ Least(g, next) /\ Listed = Least(g, next)
    BY <1>4, <1>5, ListedIsLeast
  <2>3. Least(f, next') = Least(g, next) \cup {f}
    BY <2>1, <2>2, <1>8, LeastPush
  <2> QED
    BY <2>1, <2>2, <2>3, ListedIsLeast
<1>10. /\ next'[f] = g /\ \A r \in Listed : next'[r] = next[r]
       /\ prev'[f] = NULL /\ prev'[g] = f /\ \A r \in Listed \ {g} : prev'[r] = prev[r]
       /\ next' \in [Frame -> Ref] /\ prev' \in [Frame -> Ref] /\ root' = f /\ root' \in Ref
  BY <1>3, <1>4, <1>5, <1>8 DEF Ref
<1>11. LinkInv'
  <2>1. prev[g] = NULL
    BY <1>2, <1>4, <1>5 DEF LinkInv
  <2>2. ASSUME NEW r \in Listed', next'[r] # NULL PROVE prev'[next'[r]] = r
    <3>1. CASE r = f
      BY <3>1, <1>10
    <3>2. CASE r # f
      <4>1. r \in Listed /\ next'[r] = next[r] /\ next[r] \in Listed /\ prev[next[r]] = r
        BY <2>2, <3>2, <1>2, <1>5, <1>9, <1>10 DEF LinkInv
      <4>2. next[r] # g
        BY <4>1, <2>1, <1>5
      <4> QED
        BY <4>1, <4>2, <1>10
    <3> QED
      BY <3>1, <3>2
  <2>3. ASSUME NEW r \in Listed', prev'[r] # NULL PROVE prev'[r] \in Listed' /\ next'[prev'[r]] = r
    <3>1. CASE r = g
      BY <3>1, <1>9, <1>10
    <3>2. CASE r # g
      BY <2>3, <3>2, <1>2, <1>9, <1>10 DEF LinkInv
    <3> QED
      BY <3>1, <3>2
  <2> QED
    BY <2>2, <2>3, <1>10 DEF LinkInv
<1>12. /\ start'[f] = arg.v /\ pages'[f] = arg.n
       /\ \A r \in Listed : start'[r] = start[r] /\ pages'[r] = pages[r]
  BY <1>2, <1>3, <1>5 DEF TypeOK
<1>13. ASSUME NEW r \in Listed
       PROVE  start[r] + pages[r] <= arg.v /\ (pages[r] = 0 => start[r] # arg.v)
  <2>1. start[r] \in Nat /\ pages[r] \in Nat
    BY <1>5, <1>6
  <2>2. ~ Overlaps(arg.v, arg.n, r) /\ start[r] <= arg.v
    BY <1>7
  <2> QED
    BY <2>1, <2>2, <1>6 DEF Overlaps, End
<1>14. OrderInv'
  <2>1. ASSUME NEW r \in Listed' PROVE start'[r] >= 1
    <3>1. start[g] >= 1 /\ start[g] <= arg.v /\ start[g] \in Nat
      BY <1>2, <1>5, <1>6, <1>7 DEF OrderInv
    <3>2. arg.v >= 1
      BY <3>1, <1>6
    <3> QED
      BY <3>2, <1>2, <1>9, <1>12 DEF OrderInv
  <2>2. ASSUME NEW r \in Listed', NEW s \in Listed', r # s PROVE Apart(r, s)'
    <3>1. CASE r # f /\ s # f
      BY <3>1, <2>2, <1>2, <1>9, <1>12 DEF OrderInv, Apart, End
    <3>2. CASE r = f \/ s = f
      BY <3>2, <2>2, <1>9, <1>12, <1>13 DEF Apart, End
    <3> QED
      BY <3>1, <3>2
  <2>3. ASSUME NEW r \in Listed', next'[r] # NULL
        PROVE  start'[next'[r]] <= End(r)' /\ (pages'[r] = 0 => start'[next'[r]] = start'[r])
    <3>1. CASE r = f
      <4>1. start[g] \in Nat /\ start[g] <= arg.v
        BY <1>5, <1>6, <1>7
      <4> QED
        BY <3>1, <4>1, <1>5, <1>6, <1>10, <1>12 DEF End
    <3>2. CASE r # f
      <4>1. r \in Listed /\ next'[r] = next[r] /\ next[r] \in Listed
        BY <2>3, <3>2, <1>5, <1>9, <1>10
      <4> QED
        BY <4>1, <2>3, <1>2, <1>12 DEF OrderInv, End
    <3> QED
      BY <3>1, <3>2
  <2>4. ASSUME NEW r \in Listed', NEW s \in Listed', r # s, Last(r)', pages'[r] = 0
        PROVE  start'[r] # start'[s]
    <3>1. r \in Listed /\ Last(r) /\ pages[r] = 0 /\ start'[r] = start[r]
      BY <2>4, <1>5, <1>6, <1>9, <1>10, <1>12 DEF Last
    <3>2. CASE s = f
      BY <3>1, <3>2, <1>12, <1>13
    <3>3. CASE s # f
      BY <2>4, <3>1, <3>3, <1>2, <1>9, <1>12 DEF OrderInv
    <3> QED
      BY <3>2, <3>3
  <2> QED
    BY <2>1, <2>2, <2>3, <2>4 DEF OrderInv
<1> QED
  <2>1. UNCHANGED <<ctx, given, maps, arg, i>>
    BY DEF VaddLink
  <2> QED
    BY <2>1, <1>1, <1>3, <1>6, <1>9, <1>10, <1>11, <1>14, LinkStep

----------------------------------------------------------------------------
(***************************************************************************)
(* A region is taken out of the list                                       *)
(***************************************************************************)
\* vfree finds the last region, or an empty one that starts where the last one
\* does; the region before it is not empty.
LEMMA FreedRegion ==
    ASSUME IInv, pc = "unmap"
    PROVE  /\ next[region] # NULL => start[next[region]] = start[region]
           /\ prev[region] # NULL => pages[prev[region]] # 0
<1>1. TypeOK /\ LinkInv /\ OrderInv /\ CallInv
  BY DEF IInv, Up
<1>2. PICK g : g = region
  OBVIOUS
<1>3. g \in Listed /\ start[g] = arg.v /\ start[g] >= 1 /\ NULL \notin Frame
  BY <1>1, <1>2, NullIsNoFrame DEF CallInv, OrderInv
<1>4. \A r \in Listed : start[r] \in Nat /\ pages[r] \in Nat /\ r \in Frame
  BY <1>1, ListedFacts DEF TypeOK
<1>5. PICK l \in Listed : Last(l) /\ start[l] = start[g]
  <2>1. arg.v # 0
    BY <1>3, <1>4
  <2> QED
    BY <2>1, <1>1, <1>3 DEF CallInv
<1>6. next[g] # NULL => pages[g] = 0
  <2> SUFFICES ASSUME next[g] # NULL PROVE pages[g] = 0
    OBVIOUS
  <2>1. l # g
    BY <1>5 DEF Last
  <2>2. start[g] + pages[g] <= start[l] \/ start[l] + pages[l] <= start[g]
    BY <2>1, <1>1, <1>3, <1>5 DEF OrderInv, Apart, End
  <2>3. pages[l] # 0
    BY <2>1, <1>1, <1>3, <1>5 DEF OrderInv
  <2> QED
    BY <2>2, <2>3, <1>3, <1>4, <1>5
<1>7. next[g] # NULL => start[next[g]] = start[g]
  BY <1>1, <1>3, <1>6 DEF OrderInv
<1>8. ASSUME prev[g] # NULL, pages[prev[g]] = 0 PROVE FALSE
  <2>1. prev[g] \in Listed /\ next[prev[g]] = g
    BY <1>8, <1>1, <1>3 DEF LinkInv
  <2>2. start[g] = start[prev[g]]
    BY <1>8, <2>1, <1>1, <1>3, <1>4 DEF OrderInv
  <2>3. start[prev[g]] # arg.v
    BY <1>8, <1>1, <1>2, <1>3, <1>4 DEF CallInv
  <2> QED
    BY <2>2, <2>3, <1>3
<1> QED
  BY <1>2, <1>7, <1>8

LEMMA UnlinkIInv ==
    ASSUME IInv, Unlink
    PROVE  IInv'
<1>1. Up /\ Up' /\ pc = "unmap" /\ Return /\ i = pages[region]
  BY DEF Unlink, Return, Up
<1>2. TypeOK /\ ArgInv /\ NewInv /\ LinkInv /\ OrderInv /\ CallInv /\ UseInv /\ MapInv /\ LoopInv /\ LostInv
  BY <1>1 DEF IInv
<1>3. PICK g, p, n : g = region /\ p = prev[region] /\ n = next[region]
  OBVIOUS
<1>4. /\ g \in Listed /\ Listed \subseteq Frame /\ NULL \notin Frame
      /\ next \in [Frame -> Ref] /\ prev \in [Frame -> Ref] /\ root \in Ref /\ p \in Ref /\ n \in Ref
      /\ \A r \in Listed : next[r] # NULL => next[r] \in Listed
      /\ root # NULL => root \in Listed
  BY <1>1, <1>2, <1>3, ListedFacts, NullIsNoFrame DEF CallInv, TypeOK, Ref
<1>5. /\ next' = IF p # NULL THEN [next EXCEPT ![p] = n] ELSE next
      /\ prev' = IF n # NULL THEN [prev EXCEPT ![n] = p] ELSE prev
      /\ root' = IF g = root THEN n ELSE root
      /\ avail' = avail \cup {g} /\ start' = start /\ pages' = pages /\ ctx' = ctx /\ given' = given
      /\ pagemap' = pagemap /\ tables' = tables /\ starved' = starved /\ managed' = managed
      /\ region' = NULL /\ pc' = "idle" /\ i' = 0 /\ arg' = NoArg
  BY <1>3 DEF Unlink, Return, maps
<1>6. Mirrored(root, next, prev, Least(root, next)) /\ Listed = Least(root, next) /\ Listed' = Least(root', next')
  BY <1>2, ListedFacts, ListedIsLeast
<1>7. n # g /\ p # g /\ (p = NULL <=> g = root) /\ next[g] = n /\ prev[g] = p
  BY <1>3, <1>4, <1>6, MirroredFacts
<1>8. /\ next' \in [Frame -> Ref] /\ prev' \in [Frame -> Ref] /\ root' \in Ref
      /\ p # NULL => next'[p] = n
      /\ n # NULL => prev'[n] = p
      /\ \A r \in Frame : r # p => next'[r] = next[r]
      /\ \A r \in Frame : r # n => prev'[r] = prev[r]
  BY <1>4, <1>5 DEF Ref
<1>9. Listed' = Listed \ {g}
  <2>1. g \in Least(root, next) /\ root' = IF g = root THEN next[g] ELSE root
    BY <1>4, <1>5, <1>6, <1>7
  <2>2. /\ prev[g] # NULL => next'[prev[g]] = next[g]
        /\ \A r \in Frame : r # prev[g] => next'[r] = next[r]
    BY <1>7, <1>8
  <2>3. Least(root', next') = Least(root, next) \ {g}
    BY <2>1, <2>2, <1>4, <1>6, <1>8, LeastRemove
  <2> QED
    BY <2>3, <1>6
<1>10. /\ p # NULL => p \in Listed /\ next[p] = g /\ p \in Listed'
       /\ n # NULL => n \in Listed /\ prev[n] = g /\ n \in Listed'
  BY <1>2, <1>4, <1>7, <1>9 DEF LinkInv
<1>11. LinkInv'
  <2>1. ASSUME root' # NULL PROVE prev'[root'] = NULL
    <3>1. CASE g = root
      BY <2>1, <3>1, <1>5, <1>7, <1>8
    <3>2. CASE g # root
      <4>1. root' = root /\ prev[root] = NULL /\ root \in Frame
        BY <2>1, <3>2, <1>2, <1>4, <1>5 DEF LinkInv
      <4>2. root # n
        BY <4>1, <1>4, <1>10
      <4> QED
        BY <4>1, <4>2, <1>8
    <3> QED
      BY <3>1, <3>2
  <2>2. ASSUME NEW r \in Listed', next'[r] # NULL PROVE prev'[next'[r]] = r
    <3>1. CASE r = p
      BY <2>2, <3>1, <1>4, <1>8, <1>9
    <3>2. CASE r # p
      <4>1. next'[r] = next[r] /\ next[r] \in Frame /\ prev[next[r]] = r /\ r # g
        BY <2>2, <3>2, <1>2, <1>4, <1>8, <1>9 DEF LinkInv
      <4>2. next[r] # n
        BY <4>1, <1>4, <1>10
      <4> QED
        BY <4>1, <4>2, <1>8
    <3> QED
      BY <3>1, <3>2
  <2>3. ASSUME NEW r \in Listed', prev'[r] # NULL PROVE prev'[r] \in Listed' /\ next'[prev'[r]] = r
    <3>1. CASE r = n
      BY <2>3, <3>1, <1>4, <1>8, <1>9, <1>10
    <3>2. CASE r # n
      <4>1. prev'[r] = prev[r] /\ prev[r] \in Listed /\ next[prev[r]] = r /\ r # g
        BY <2>3, <3>2, <1>2, <1>4, <1>8, <1>9 DEF LinkInv
      <4>2. prev[r] # g /\ prev[r] # p
        BY <4>1, <3>2, <1>4, <1>7, <1>10
      <4> QED
        BY <4>1, <4>2, <1>4, <1>8, <1>9
    <3> QED
      BY <3>1, <3>2
  <2> QED
    BY <2>1, <2>2, <2>3 DEF LinkInv
<1>12. OrderInv'
  <2>1. \A r \in Listed : start[r] \in Nat /\ pages[r] \in Nat
    BY <1>2, <1>4 DEF TypeOK
  <2>2. (n # NULL => start[n] = start[g]) /\ (p # NULL => pages[p] # 0)
    BY <1>1, <1>3, FreedRegion
  <2>3. \A r \in Listed' : start'[r] >= 1
    BY <1>2, <1>5, <1>9 DEF OrderInv
  <2>4. \A r, s \in Listed' : r # s => Apart(r, s)'
    BY <1>2, <1>5, <1>9 DEF OrderInv, Apart, End
  <2>5. ASSUME NEW r \in Listed', next'[r] # NULL
        PROVE  start[next'[r]] <= start[r] + pages[r] /\ (pages[r] = 0 => start[next'[r]] = start[r])
    <3>1. CASE r = p
      <4>1. next'[r] = n /\ n # NULL /\ p # NULL
        BY <2>5, <3>1, <1>4, <1>8, <1>9
      <4>2. start[g] <= start[p] + pages[p]
        BY <4>1, <1>2, <1>4, <1>10 DEF OrderInv, End
      <4> QED
        BY <3>1, <4>1, <4>2, <2>2
    <3>2. CASE r # p
      BY <2>5, <3>2, <1>2, <1>4, <1>8, <1>9 DEF OrderInv, End
    <3> QED
      BY <3>1, <3>2
  <2>6. ASSUME NEW r \in Listed', NEW s \in Listed', r # s, Last(r)', pages[r] = 0
        PROVE  start[r] # start[s]
    <3>1. r # p
      BY <2>6, <2>2, <1>4, <1>9
    <3>2. Last(r)
      BY <2>6, <3>1, <1>4, <1>8, <1>9 DEF Last
    <3> QED
      BY <2>6, <3>2, <1>2, <1>9 DEF OrderInv
  <2> QED
    BY <2>3, <2>4, <2>5, <2>6, <1>5 DEF OrderInv, End
<1>13. TypeOK'
  BY <1>2, <1>4, <1>5, <1>8 DEF TypeOK, Ref
<1>14. ArgInv' /\ CallInv' /\ LoopInv'
  BY <1>5 DEF ArgInv, CallInv, LoopInv, NoArg
<1>15. NewInv'
  BY <1>2, <1>1, <1>5 DEF NewInv
<1>16. Hand = {} /\ Hand' = {} /\ TableFrames' = TableFrames
  BY <1>1, <1>5 DEF Hand, TableFrames
<1>17. UseInv'
  BY <1>2, <1>4, <1>5, <1>9, <1>16 DEF UseInv
<1>18. MapInv'
  <2> SUFFICES ASSUME NEW v \in DOMAIN pagemap PROVE \E r \in Listed' : v \in Pages(r)
    BY <1>5 DEF MapInv, Pages, End
  <2>1. PICK r \in Listed : v \in Pages(r)
    BY <1>2 DEF MapInv
  <2>2. r # g
    <3> SUFFICES ASSUME r = g PROVE FALSE
      OBVIOUS
    <3>1. start[g] \in Nat /\ pages[g] \in Nat
      BY <1>2, <1>4 DEF TypeOK
    <3>2. PICK j \in 0 .. pages[g] - 1 : v = start[g] + j
      <4>1. v \in start[g] .. start[g] + pages[g] - 1
        BY <2>1, <3>1 DEF Pages, End
      <4>2. v - start[g] \in 0 .. pages[g] - 1 /\ v = start[g] + (v - start[g])
        BY <4>1, <3>1
      <4> QED
        BY <4>2
    <3>3. start[g] + j \notin DOMAIN pagemap
      BY <3>2, <1>1, <1>2, <1>3 DEF LoopInv
    <3> QED
      BY <3>2, <3>3
  <2> QED
    BY <2>1, <2>2, <1>9
<1>19. LostInv'
  BY <1>2, <1>5, <1>9, <1>16 DEF LostInv, InUse
<1> QED
  BY <1>11, <1>12, <1>13, <1>14, <1>15, <1>17, <1>18, <1>19 DEF IInv

----------------------------------------------------------------------------
(***************************************************************************)
(* vadd's pages                                                            *)
(***************************************************************************)
LEMMA VaddCallIInv ==
    ASSUME IInv, NEW w \in Segments, NEW n \in Sizes, VaddCall(w, n)
    PROVE  IInv'
<1>1. Up /\ Up' /\ pc = "idle" /\ pc' = "overlap" /\ region' = root /\ root # NULL /\ i' = i
  BY DEF VaddCall, Up
<1>2. TypeOK /\ ArgInv /\ NewInv /\ LinkInv /\ OrderInv /\ CallInv /\ UseInv /\ MapInv /\ LostInv
  BY <1>1 DEF IInv
<1>3. PICK p \in avail :
         /\ p .. p + n - 1 \subseteq avail
         /\ avail' = avail \ (p .. p + n - 1)
         /\ arg' = [op |-> "vadd", v |-> w, n |-> n, phys |-> p]
  BY DEF VaddCall, Palloc
<1>4. /\ n \in Nat /\ n > 0 /\ w \in Nat /\ p \in Nat /\ i = 0
      /\ arg'.op = "vadd" /\ arg'.v = w /\ arg'.n = n /\ arg'.phys = p
  BY <1>1, <1>2, <1>3, VMMAssumption, NullIsNoFrame DEF TypeOK, ArgInv
<1>5. PICK H : H = p .. p + n - 1
  OBVIOUS
<1>6. Hand = {} /\ Hand' = H /\ H \subseteq avail /\ avail' = avail \ H
  BY <1>1, <1>3, <1>4, <1>5 DEF Hand
<1>7. UNCHANGED <<ctx, given, root, fields, maps>>
  BY DEF VaddCall
<1>8. /\ ctx' = ctx /\ given' = given /\ root' = root /\ start' = start /\ pages' = pages
      /\ next' = next /\ prev' = prev /\ pagemap' = pagemap /\ tables' = tables
      /\ starved' = starved /\ managed' = managed
  BY <1>7 DEF fields, maps
<1>9. Listed' = Listed /\ Reach(region)' = Listed /\ TableFrames' = TableFrames /\ root \in Listed
  BY <1>1, <1>2, <1>8, ListedIsLeast, ListedFacts DEF TableFrames
<1>10. InUse' = InUse
  BY <1>8, <1>9 DEF InUse
<1>11. TypeOK'
  BY <1>1, <1>2, <1>6, <1>8 DEF TypeOK
<1>12. ArgInv'
  BY <1>1, <1>4 DEF ArgInv
<1>13. NewInv'
  BY <1>1, <1>2, <1>8 DEF NewInv
<1>14. LinkInv' /\ OrderInv'
  BY <1>2, <1>8, <1>9 DEF LinkInv, OrderInv, Apart, Last, End
<1>15. CallInv'
  <2>1. \A r \in Listed : start[r] <= w
    BY DEF VaddCall
  <2> QED
    BY <2>1, <1>1, <1>4, <1>8, <1>9 DEF CallInv
<1>16. UseInv'
  <2>1. H \subseteq Frame /\ H \cap (avail' \cup Listed \cup {ctx} \cup TableFrames) = {}
    BY <1>2, <1>6 DEF UseInv, TypeOK
  <2> QED
    BY <2>1, <1>2, <1>6, <1>8, <1>9 DEF UseInv
<1>17. MapInv' /\ LoopInv'
  BY <1>1, <1>2, <1>8, <1>9 DEF MapInv, LoopInv, Pages, End
<1>18. LostInv'
  BY <1>2, <1>6, <1>8, <1>10 DEF LostInv
<1> QED
  BY <1>11, <1>12, <1>13, <1>14, <1>15, <1>16, <1>17, <1>18 DEF IInv

LEMMA VaddFailsIInv ==
    ASSUME IInv, VaddFails
    PROVE  IInv'
<1>1. Up /\ Up' /\ pc = "overlap" /\ Return
  BY DEF VaddFails, Return, Up
<1>2. TypeOK /\ ArgInv /\ NewInv /\ LinkInv /\ OrderInv /\ CallInv /\ UseInv /\ MapInv /\ LostInv
  BY <1>1 DEF IInv
<1>3. PICK H : H = arg.phys .. arg.phys + arg.n - 1
  OBVIOUS
<1>4. Hand = H /\ Hand' = {} /\ avail' = avail \cup H
  BY <1>1, <1>2, <1>3 DEF Hand, Return, VaddFails, GiveBack, ArgInv
<1>5. /\ ctx' = ctx /\ given' = given /\ root' = root /\ start' = start /\ pages' = pages
      /\ next' = next /\ prev' = prev /\ pagemap' = pagemap /\ tables' = tables
      /\ starved' = starved /\ managed' = managed
  BY DEF VaddFails, fields, maps
<1>6. Listed' = Listed /\ TableFrames' = TableFrames
  BY <1>5, ListedIsLeast DEF TableFrames
<1>7. InUse' = InUse
  BY <1>5, <1>6 DEF InUse
<1>8. TypeOK'
  BY <1>1, <1>2, <1>4, <1>5 DEF TypeOK, UseInv, Return
<1>9. ArgInv' /\ CallInv' /\ LoopInv'
  BY <1>1 DEF ArgInv, CallInv, LoopInv, NoArg, Return
<1>10. NewInv'
  BY <1>1, <1>2, <1>5 DEF NewInv, Return
<1>11. LinkInv' /\ OrderInv'
  BY <1>2, <1>5, <1>6 DEF LinkInv, OrderInv, Apart, Last, End
<1>12. UseInv'
  BY <1>2, <1>4, <1>5, <1>6 DEF UseInv
<1>13. MapInv'
  BY <1>2, <1>5, <1>6 DEF MapInv, Pages, End
<1>14. LostInv'
  BY <1>2, <1>4, <1>5, <1>7 DEF LostInv
<1> QED
  BY <1>8, <1>9, <1>10, <1>11, <1>12, <1>13, <1>14 DEF IInv

----------------------------------------------------------------------------
(***************************************************************************)
(* Mapping and unmapping                                                   *)
(***************************************************************************)
LEMMA UnmapIInv ==
    ASSUME IInv, Unmap
    PROVE  IInv'
<1>1. Up /\ Up' /\ pc = "unmap" /\ pc' = pc /\ arg' = arg /\ region' = region /\ i' = i + 1 /\ i < pages[region]
  BY DEF Unmap, Up
<1>2. TypeOK /\ ArgInv /\ NewInv /\ LinkInv /\ OrderInv /\ CallInv /\ UseInv /\ MapInv /\ LoopInv /\ LostInv
  BY <1>1 DEF IInv
<1>3. PICK g, w : g = region /\ w = start[region] + i
  OBVIOUS
<1>4. /\ ctx' = ctx /\ given' = given /\ root' = root /\ start' = start /\ pages' = pages
      /\ next' = next /\ prev' = prev /\ tables' = tables
      /\ starved' = starved /\ managed' = managed
  BY DEF Unmap, fields
<1>5. Listed' = Listed /\ TableFrames' = TableFrames /\ Listed \subseteq Frame /\ g \in Listed /\ g = region
  BY <1>1, <1>2, <1>3, <1>4, ListedIsLeast, ListedFacts DEF TableFrames, CallInv
<1>6. i \in Nat /\ start[g] \in Nat /\ pages[g] \in Nat /\ i < pages[g]
  BY <1>1, <1>2, <1>3, <1>5 DEF TypeOK
<1>7. Hand = {} /\ Hand' = {}
  BY <1>1 DEF Hand
<1>8. /\ DOMAIN pagemap' = DOMAIN pagemap \ {w}
      /\ \A v \in DOMAIN pagemap' : pagemap'[v] = pagemap[v]
  <2>1. CASE w \in DOMAIN pagemap
    BY <2>1, <1>3 DEF Unmap
  <2>2. CASE w \notin DOMAIN pagemap
    BY <2>2, <1>3 DEF Unmap
  <2> QED
    BY <2>1, <2>2
<1>9. avail' = avail \cup {f \in Frame : w \in DOMAIN pagemap /\ f = pagemap[w]}
  <2>1. CASE w \in DOMAIN pagemap
    BY <2>1, <1>3 DEF Unmap
  <2>2. CASE w \notin DOMAIN pagemap
    BY <2>2, <1>3 DEF Unmap
  <2> QED
    BY <2>1, <2>2
<1>10. TypeOK'
  <2>1. avail' \subseteq Frame /\ i' \in Nat
    BY <1>1, <1>2, <1>6, <1>9 DEF TypeOK
  <2> QED
    BY <2>1, <1>1, <1>2, <1>4, <1>8 DEF TypeOK
<1>11. ArgInv' /\ NewInv'
  BY <1>1, <1>2, <1>4 DEF ArgInv, NewInv
<1>12. LinkInv' /\ OrderInv'
  BY <1>2, <1>4, <1>5 DEF LinkInv, OrderInv, Apart, Last, End
<1>13. CallInv'
  <2>1. i' <= pages[g]
    BY <1>1, <1>6
  <2> QED
    BY <2>1, <1>1, <1>2, <1>4, <1>5 DEF CallInv, Last
<1>14. UseInv'
  BY <1>2, <1>4, <1>5, <1>7, <1>8, <1>9 DEF UseInv
<1>15. MapInv'
  BY <1>2, <1>4, <1>5, <1>8 DEF MapInv, Pages, End
<1>16. LoopInv'
  <2> SUFFICES ASSUME NEW j \in 0 .. i PROVE start[g] + j \notin DOMAIN pagemap'
    BY <1>1, <1>4, <1>5, <1>6 DEF LoopInv
  <2>1. CASE j = i
    BY <2>1, <1>3, <1>8
  <2>2. CASE j # i
    <3>1. j \in 0 .. i - 1
      BY <2>2, <1>6
    <3> QED
      BY <3>1, <1>1, <1>2, <1>5, <1>8 DEF LoopInv
  <2> QED
    BY <2>1, <2>2
<1>17. LostInv'
  <2> SUFFICES ASSUME ~ starved, NEW f \in managed PROVE f \in avail' \cup InUse'
    BY <1>4 DEF LostInv
  <2>1. f \in avail \cup InUse
    BY <1>2, <1>7 DEF LostInv
  <2>2. CASE \E v \in DOMAIN pagemap : f = pagemap[v]
    <3>1. PICK v \in DOMAIN pagemap : f = pagemap[v]
      BY <2>2
    <3>2. f \in Frame
      BY <1>2 DEF TypeOK
    <3>3. CASE v = w
      BY <3>1, <3>2, <3>3, <1>9
    <3>4. CASE v # w
      BY <3>1, <3>4, <1>8 DEF InUse
    <3> QED
      BY <3>3, <3>4
  <2>3. CASE ~ \E v \in DOMAIN pagemap : f = pagemap[v]
    BY <2>1, <2>3, <1>4, <1>5, <1>9 DEF InUse
  <2> QED
    BY <2>2, <2>3
<1> QED
  BY <1>10, <1>11, <1>12, <1>13, <1>14, <1>15, <1>16, <1>17 DEF IInv

\* What vmap does when it is given a page f that nobody uses, or one that is
\* not of the allocator.
LEMMA MapStep ==
    ASSUME IInv, pc = "map", i < arg.n, i' = i + 1,
           UNCHANGED <<ctx, given, root, fields, pc, arg, region>>, ArgInv',
           NEW f \in Nat, NEW free \in SUBSET avail, avail \subseteq free \cup {f},
           Hand \subseteq Hand' \cup {f}, Hand' \subseteq Hand, f \notin Hand',
           f \in Frame => /\ f \notin free \cup Listed \cup {ctx} \cup TableFrames
                         /\ \A v \in DOMAIN pagemap : pagemap[v] # f,
           Vmap(start[region] + i, f, free)
    PROVE  IInv'
<1>1. Up /\ Up'
  BY DEF Up
<1>2. TypeOK /\ NewInv /\ LinkInv /\ OrderInv /\ CallInv /\ UseInv /\ MapInv /\ LoopInv /\ LostInv /\ ArgInv
  BY <1>1 DEF IInv
<1>3. PICK g, w : g = region /\ w = start[region] + i
  OBVIOUS
<1>4. /\ ctx' = ctx /\ given' = given /\ root' = root /\ start' = start /\ pages' = pages
      /\ next' = next /\ prev' = prev /\ pc' = "map" /\ arg' = arg /\ region' = region
  BY DEF fields
<1>5. Listed' = Listed /\ Listed \subseteq Frame /\ g \in Listed /\ g = region
  BY <1>2, <1>3, <1>4, ListedIsLeast, ListedFacts DEF CallInv
<1>6. i \in Nat /\ arg.n \in Nat /\ start[g] \in Nat /\ pages[g] = arg.n /\ w = start[g] + i
  BY <1>2, <1>3, <1>5 DEF TypeOK, ArgInv, CallInv
<1>7. w \notin DOMAIN pagemap
  <2>1. i \in i .. arg.n - 1
    BY <1>6
  <2> QED
    BY <2>1, <1>2, <1>5, <1>6 DEF LoopInv
<1>8. \/ /\ pagemap' = Mapped(w, f) /\ starved' = starved
         /\ \/ avail' = free /\ tables' = tables
            \/ \E t : \E h \in free :
                 /\ tables' = [u \in DOMAIN tables \cup {t} |-> IF u = t THEN h ELSE tables[u]]
                 /\ t \notin DOMAIN tables /\ avail' = free \ {h}
      \/ pagemap' = pagemap /\ avail' = free /\ tables' = tables /\ starved' = TRUE
  BY <1>3 DEF Vmap, Palloc
<1>9. managed' = managed
  BY DEF Vmap
<1>10. PICK T : /\ T \subseteq free /\ avail' = free \ T /\ TableFrames' = TableFrames \cup T
                /\ \A t \in DOMAIN tables' : tables'[t] \in TableFrames \cup T
  <2>1. CASE avail' = free /\ tables' = tables
    <3>1. PICK T : T = {}
      OBVIOUS
    <3>2. T \subseteq free /\ avail' = free \ T /\ TableFrames' = TableFrames \cup T
      BY <2>1, <3>1 DEF TableFrames
    <3>3. \A t \in DOMAIN tables' : tables'[t] \in TableFrames \cup T
      BY <2>1 DEF TableFrames
    <3> WITNESS T
    <3> QED
      BY <3>2, <3>3
  <2>2. CASE \E t : \E h \in free :
                 /\ tables' = [u \in DOMAIN tables \cup {t} |-> IF u = t THEN h ELSE tables[u]]
                 /\ t \notin DOMAIN tables /\ avail' = free \ {h}
    <3>1. PICK t, h : /\ h \in free /\ t \notin DOMAIN tables /\ avail' = free \ {h}
                      /\ tables' = [u \in DOMAIN tables \cup {t} |-> IF u = t THEN h ELSE tables[u]]
      BY <2>2
    <3>2. /\ DOMAIN tables' = DOMAIN tables \cup {t} /\ tables'[t] = h
          /\ \A u \in DOMAIN tables : tables'[u] = tables[u]
      BY <3>1
    <3>3. ASSUME NEW x PROVE x \in TableFrames' <=> x \in TableFrames \cup {h}
      BY <3>2 DEF TableFrames
    <3>4. TableFrames' = TableFrames \cup {h}
      BY <3>3
    <3>5. \A u \in DOMAIN tables' : tables'[u] \in TableFrames \cup {h}
      BY <3>2 DEF TableFrames
    <3> WITNESS {h}
    <3> QED
      BY <3>1, <3>4, <3>5
  <2> QED
    BY <2>1, <2>2, <1>8
<1>11. /\ DOMAIN pagemap' \subseteq DOMAIN pagemap \cup {w}
       /\ DOMAIN pagemap \subseteq DOMAIN pagemap'
       /\ w \in DOMAIN pagemap' => pagemap'[w] = f
       /\ \A v \in DOMAIN pagemap : pagemap'[v] = pagemap[v]
       /\ ~ starved' => w \in DOMAIN pagemap' /\ ~ starved
  BY <1>7, <1>8 DEF Mapped
<1>12. TableFrames \subseteq Frame /\ starved' \in BOOLEAN
  <2>1. TableFrames \subseteq Frame
    BY <1>2 DEF TypeOK, TableFrames
  <2>2. starved' \in BOOLEAN
    BY <1>2, <1>8, Zenon DEF TypeOK
  <2> QED
    BY <2>1, <2>2
<1>13. TypeOK'
  <2>1. avail' \subseteq Frame /\ i' \in Nat
    BY <1>2, <1>6, <1>10 DEF TypeOK
  <2>2. \A v \in DOMAIN pagemap' : pagemap'[v] \in Nat
    BY <1>2, <1>11 DEF TypeOK
  <2>3. \A t \in DOMAIN tables' : tables'[t] \in Frame
    BY <1>2, <1>10, <1>12 DEF TypeOK
  <2> QED
    BY <2>1, <2>2, <2>3, <1>2, <1>4, <1>9, <1>12 DEF TypeOK
<1>14. NewInv'
  BY <1>2, <1>4 DEF NewInv
<1>15. LinkInv' /\ OrderInv'
  BY <1>2, <1>4, <1>5 DEF LinkInv, OrderInv, Apart, Last, End
<1>16. CallInv'
  <2>1. i' <= arg.n
    BY <1>6
  <2> QED
    BY <2>1, <1>2, <1>4, <1>5 DEF CallInv
<1>17. UseInv'
  <2>1. Listed' \cap avail' = {} /\ ctx' \notin avail' \cup Listed'
    BY <1>2, <1>4, <1>5, <1>10 DEF UseInv
  <2>2. TableFrames' \cap (avail' \cup Listed' \cup {ctx'}) = {}
    BY <1>2, <1>4, <1>5, <1>10 DEF UseInv
  <2>3. Hand' \subseteq Frame /\ Hand' \cap (avail' \cup Listed' \cup {ctx'} \cup TableFrames') = {}
    BY <1>2, <1>4, <1>5, <1>10 DEF UseInv
  <2>4. ASSUME NEW v \in DOMAIN pagemap', pagemap'[v] \in Frame
        PROVE  pagemap'[v] \notin avail' \cup Listed' \cup {ctx'} \cup TableFrames' \cup Hand'
    <3>1. CASE v = w
      BY <2>4, <3>1, <1>4, <1>5, <1>10, <1>11
    <3>2. CASE v # w
      BY <2>4, <3>2, <1>2, <1>4, <1>5, <1>10, <1>11 DEF UseInv
    <3> QED
      BY <3>1, <3>2
  <2>5. ASSUME NEW v \in DOMAIN pagemap', NEW u \in DOMAIN pagemap', pagemap'[v] \in Frame, pagemap'[v] = pagemap'[u]
        PROVE  v = u
    BY <2>5, <1>2, <1>11 DEF UseInv
  <2> QED
    BY <2>1, <2>2, <2>3, <2>4, <2>5 DEF UseInv
<1>18. MapInv'
  <2>1. w \in Pages(g)
    BY <1>6 DEF Pages, End
  <2> QED
    BY <2>1, <1>2, <1>4, <1>5, <1>11 DEF MapInv, Pages, End
<1>19. LoopInv'
  <2> SUFFICES ASSUME NEW j \in i + 1 .. arg.n - 1 PROVE start[g] + j \notin DOMAIN pagemap'
    BY <1>4, <1>5 DEF LoopInv
  <2>1. j \in i .. arg.n - 1 /\ start[g] + j # w
    BY <1>6
  <2>2. start[g] + j \notin DOMAIN pagemap
    BY <2>1, <1>2, <1>5 DEF LoopInv
  <2> QED
    BY <2>1, <2>2, <1>11
<1>20. LostInv'
  <2> SUFFICES ASSUME ~ starved', NEW m \in managed PROVE m \in avail' \cup InUse' \cup Hand'
    BY <1>9 DEF LostInv
  <2>1. m \in avail \cup InUse \cup Hand
    BY <1>2, <1>11 DEF LostInv
  <2>2. CASE m = f
    BY <2>2, <1>11 DEF InUse
  <2>3. CASE m # f /\ m \in avail \cup Hand
    BY <2>3, <1>10 DEF InUse, TableFrames
  <2>4. CASE m \in InUse
    <3>1. m \in Listed \cup {ctx} \/ m \in TableFrames \/ \E v \in DOMAIN pagemap : m = pagemap[v]
      BY <2>4 DEF InUse, TableFrames
    <3>2. CASE m \in Listed \cup {ctx}
      BY <3>2, <1>4, <1>5 DEF InUse
    <3>3. CASE m \in TableFrames
      BY <3>3, <1>10 DEF InUse, TableFrames
    <3>4. CASE \E v \in DOMAIN pagemap : m = pagemap[v]
      BY <3>4, <1>11 DEF InUse
    <3> QED
      BY <3>1, <3>2, <3>3, <3>4
  <2> QED
    BY <2>1, <2>2, <2>3, <2>4
<1> QED
  BY <1>13, <1>14, <1>15, <1>16, <1>17, <1>18, <1>19, <1>20 DEF IInv

LEMMA MapNewIInv ==
    ASSUME IInv, MapNew
    PROVE  IInv'
<1>1. pc = "map" /\ arg.op = "valloc" /\ i < arg.n /\ i' = i + 1 /\ Up
      /\ UNCHANGED <<ctx, given, root, fields, pc, arg, region>>
  BY DEF MapNew, Up
<1>2. TypeOK /\ ArgInv /\ UseInv
  BY <1>1 DEF IInv
<1>3. PICK f \in avail : Vmap(start[region] + i, f, avail \ {f})
  BY DEF MapNew, Palloc
<1>4. Hand = {} /\ Hand' = {}
  BY <1>1 DEF Hand
<1>5. ArgInv'
  BY <1>1, <1>2 DEF ArgInv
<1>6. f \in Nat /\ f \in Frame
  BY <1>2, NullIsNoFrame DEF TypeOK
<1>7. /\ f \notin (avail \ {f}) \cup Listed \cup {ctx} \cup TableFrames
      /\ \A v \in DOMAIN pagemap : pagemap[v] # f
  BY <1>2, <1>6 DEF UseInv
<1> QED
  BY <1>1, <1>3, <1>4, <1>5, <1>6, <1>7, MapStep

LEMMA MapGivenIInv ==
    ASSUME IInv, MapGiven
    PROVE  IInv'
<1>1. pc = "map" /\ i < arg.n /\ i' = i + 1 /\ Up
      /\ UNCHANGED <<ctx, given, root, fields, pc, arg, region>>
      /\ Vmap(start[region] + i, arg.phys + i, avail)
      /\ (arg.op = "vallocat" => arg.phys + i # 0) /\ arg.op \in {"vallocat", "vadd"}
  BY DEF MapGiven, Up
<1>2. TypeOK /\ ArgInv /\ UseInv
  BY <1>1 DEF IInv
<1>3. i \in Nat /\ arg.phys \in Nat /\ arg.n \in Nat /\ arg' = arg /\ pc' = pc
  BY <1>1, <1>2 DEF TypeOK, ArgInv
<1>4. PICK f : f = arg.phys + i
  OBVIOUS
<1>5. f \in Nat
  BY <1>3, <1>4
<1>6. ArgInv'
  <2>1. arg.op = "vallocat" => arg.phys # 0
    BY <1>1, <1>2, <1>3 DEF ArgInv
  <2> QED
    BY <2>1, <1>1, <1>2, <1>3 DEF ArgInv
<1>7. CASE arg.op = "vadd"
  <2>1. Hand = f .. arg.phys + arg.n - 1 /\ Hand' = f + 1 .. arg.phys + arg.n - 1
    BY <1>1, <1>3, <1>4, <1>7 DEF Hand
  <2>2. Hand \subseteq Hand' \cup {f} /\ Hand' \subseteq Hand /\ f \notin Hand' /\ f \in Hand
    BY <2>1, <1>1, <1>3, <1>4, <1>5
  <2>3. /\ f \notin avail \cup Listed \cup {ctx} \cup TableFrames
        /\ \A v \in DOMAIN pagemap : pagemap[v] # f
    BY <2>2, <1>2 DEF UseInv
  <2> QED
    BY <2>2, <2>3, <1>1, <1>4, <1>5, <1>6, MapStep
<1>8. CASE arg.op = "vallocat"
  <2>1. Hand = {} /\ Hand' = {}
    BY <1>1, <1>3, <1>8 DEF Hand
  <2>2. f \notin Frame
    <3>1. arg.phys \in Phys /\ arg.phys # 0
      BY <1>1, <1>2, <1>3, <1>8 DEF ArgInv
    <3>2. arg.phys > NFrames /\ NFrames \in Nat
      BY <3>1, <1>3, VMMAssumption DEF Frame
    <3> QED
      BY <3>2, <1>3, <1>4 DEF Frame
  <2> QED
    BY <2>1, <2>2, <1>1, <1>4, <1>5, <1>6, MapStep
<1> QED
  BY <1>1, <1>7, <1>8

----------------------------------------------------------------------------
(***************************************************************************)
(* The theorems                                                            *)
(***************************************************************************)
LEMMA StutterIInv ==
    ASSUME IInv, UNCHANGED vars
    PROVE  IInv'
<1>1. Listed' = Listed /\ Reach(region)' = Reach(region) /\ TableFrames' = TableFrames /\ Hand' = Hand
  BY ListedIsLeast DEF vars, TableFrames, Hand
<1>2. InUse' = InUse
  BY <1>1 DEF InUse, vars
<1>3. TypeOK' /\ ArgInv' /\ NewInv' /\ Up' = Up
  BY DEF IInv, vars, TypeOK, ArgInv, NewInv, Up
<1>4. Up => LinkInv' /\ OrderInv' /\ UseInv' /\ MapInv' /\ LoopInv' /\ LostInv'
  BY <1>1, <1>2 DEF IInv, vars, LinkInv, OrderInv, Apart, Last, Pages, End, UseInv, MapInv, LoopInv, LostInv
<1>5. Up => CallInv'
  BY <1>1 DEF IInv, vars, CallInv, RoomFor, Overlaps, Last, End
<1> QED
  BY <1>3, <1>4, <1>5 DEF IInv

LEMMA NextIInv == IInv /\ [Next]_vars => IInv'
<1> SUFFICES ASSUME IInv, [Next]_vars PROVE IInv'
  OBVIOUS
<1>1. CASE VinitFails \/ NoRoot \/ UNCHANGED vars
  BY <1>1, StutterIInv DEF VinitFails, NoRoot
<1>2. CASE Vinit
  BY <1>2, VinitIInv
<1>3. CASE VdestroyCall \/ VdestroyRegion \/ VdestroyContext
  BY <1>3, VdestroyIInv
<1>4. CASE \/ \E n \in Sizes : VallocCall(n)
           \/ \E n \in Sizes, p \in Phys : VallocatCall(n, p)
           \/ \E v \in given \cup {0} : VfreeCall(v)
  BY <1>4, CallIInv
<1>5. CASE SearchOn \/ OverlapOn \/ FindOn \/ Found
  BY <1>5, WalkIInv
<1>6. CASE Insert
  BY <1>6, InsertIInv
<1>7. CASE NoDescriptor \/ FoundNone \/ MapNoPage \/ MapZero \/ MapDone
  BY <1>7, ReturnIInv
<1>8. CASE MapNew
  BY <1>8, MapNewIInv
<1>9. CASE MapGiven
  BY <1>9, MapGivenIInv
<1>10. CASE \E n \in Sizes, v \in Segments : VaddCall(v, n)
  BY <1>10, VaddCallIInv
<1>11. CASE VaddFails
  BY <1>11, VaddFailsIInv
<1>12. CASE VaddLink
  BY <1>12, VaddLinkIInv
<1>13. CASE Unmap
  BY <1>13, UnmapIInv
<1>14. CASE Unlink
  BY <1>14, UnlinkIInv
<1> QED
  BY <1>1, <1>2, <1>3, <1>4, <1>5, <1>6, <1>7, <1>8, <1>9, <1>10, <1>11, <1>12, <1>13, <1>14 DEF Next

\* The inductive invariant holds in every state that vinit, valloc, vallocat,
\* vadd, vfree and vdestroy reach in the kernel's call patterns.
THEOREM Invariance == Spec => []IInv
BY InitIInv, NextIInv, PTL DEF Spec

\* No two regions that valloc, vallocat and vadd put into a context overlap,
\* although the first two take the place behind any last region unseen.
THEOREM RegionsDisjointCorrect == Spec => []RegionsDisjoint
<1>1. IInv => RegionsDisjoint
  <2> SUFFICES ASSUME IInv, Up, NEW r \in Listed, NEW s \in Listed, r # s PROVE Pages(r) \cap Pages(s) = {}
    BY DEF RegionsDisjoint
  <2>1. Apart(r, s)
    BY DEF IInv, OrderInv
  <2>2. start[r] \in Nat /\ pages[r] \in Nat /\ start[s] \in Nat /\ pages[s] \in Nat
    BY ListedFacts DEF IInv, TypeOK
  <2> QED
    BY <2>1, <2>2 DEF Apart, Pages, End
<1> QED
  BY <1>1, Invariance, PTL

\* The list stays doubly linked under the insertions of valloc, which leave the
\* prev of the region behind alone, and the removals of vfree; no freed
\* descriptor stays linked.
THEOREM ListIntactCorrect == Spec => []ListIntact
<1>1. IInv => ListIntact
  BY DEF IInv, ListIntact, UseInv, LinkInv
<1> QED
  BY <1>1, Invariance, PTL

\* No page of the allocator is mapped at two addresses, or mapped while it is
\* free or holds a descriptor, the context or a page table.
THEOREM MappedOnceCorrect == Spec => []MappedOnce
<1>1. IInv => MappedOnce
  BY DEF IInv, MappedOnce, UseInv, TableFrames
<1> QED
  BY <1>1, Invariance, PTL

\* vfree unmaps all of the region it takes out of the list.
THEOREM NoStrayMappingCorrect == Spec => []NoStrayMapping
<1>1. IInv => NoStrayMapping
  BY DEF IInv, NoStrayMapping, MapInv
<1> QED
  BY <1>1, Invariance, PTL

\* Between calls every page of the allocator is free or in use, whichever
\* allocation failed, unless vmap has failed for want of a table.
THEOREM NothingLostCorrect == Spec => []NothingLost
<1>1. IInv => NothingLost
  BY DEF IInv, NothingLost, LostInv, Hand, Up
<1> QED
  BY <1>1, Invariance, PTL
=============================================================================
