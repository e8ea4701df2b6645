---------------------------- MODULE SpacesProofs ----------------------------
(***************************************************************************)
(* Proofs about Spaces, for any memory, modules, regions of the kernel and *)
(* page size: every frame has one use, copies stay inside the segments,    *)
(* and a process that starts finds its whole image.                        *)
(***************************************************************************)
EXTENDS Spaces, FiniteSetTheorems, SequenceTheorems, WellFoundedInduction, TLAPS

----------------------------------------------------------------------------
(***************************************************************************)
(* Numbers                                                                 *)
(***************************************************************************)
Less == {ss \in Nat \X Nat : ss[1] < ss[2]}

LEMMA LessWF == IsWellFoundedOn(Less, Nat)
BY NatLessThanWellFounded DEF OpToRel, Less

LEMMA DivFacts ==
    ASSUME NEW a \in Nat, NEW P \in Nat \ {0}
    PROVE  /\ a \div P \in Nat /\ a % P \in 0 .. P - 1 /\ a = (a \div P) * P + (a % P)
           /\ (a \div P) * P <= a /\ a < (a \div P + 1) * P
<1>1. a \div P \in Nat /\ a % P \in 0 .. P - 1
  OBVIOUS
<1>2. a = P * (a \div P) + (a % P)
  OBVIOUS
<1>3. PICK q \in Nat : q = a \div P
  BY <1>1
<1>4. PICK r \in 0 .. P - 1 : r = a % P
  BY <1>1
<1>5. a = P * q + r
  BY <1>2, <1>3, <1>4
<1>6. P * q = q * P /\ (q + 1) * P = q * P + P /\ q * P \in Nat
  OBVIOUS
<1>7. a = q * P + r /\ q * P <= a /\ a < (q + 1) * P
  BY <1>5, <1>6
<1> QED
  BY <1>1, <1>3, <1>4, <1>7

LEMMA MinFacts ==
    ASSUME NEW S \in SUBSET Nat, S # {}
    PROVE  Min(S) \in S /\ \A y \in S : Min(S) <= y
<1>1. PICK x \in S : \A y \in S : ~ (<<y, x>> \in Less)
  BY LessWF, WFMin
<1>2. ASSUME NEW y \in S PROVE x <= y
  <2>1. ~ (<<y, x>> \in Less)
    BY <1>1
  <2>2. <<y, x>> \in Nat \X Nat /\ <<y, x>>[1] = y /\ <<y, x>>[2] = x
    OBVIOUS
  <2>3. ~ (y < x)
    BY <2>1, <2>2 DEF Less
  <2> QED
    BY <2>3
<1> QED
  BY <1>2 DEF Min

LEMMA MaxFacts ==
    ASSUME NEW n \in Nat, NEW S \in SUBSET (0 .. n), S # {}
    PROVE  Max(S) \in S /\ \A y \in S : y <= Max(S)
<1> DEFINE T == {n - y : y \in S}
<1>1. T \in SUBSET Nat /\ T # {}
  <2>1. ASSUME NEW y \in S PROVE n - y \in Nat
    BY y \in 0 .. n
  <2>2. T \in SUBSET Nat
    BY <2>1
  <2>3. PICK y : y \in S
    OBVIOUS
  <2>4. n - y \in T
    BY <2>3
  <2> QED
    BY <2>2, <2>4
<1> HIDE DEF T
<1>2. Min(T) \in T /\ \A t \in T : Min(T) <= t
  BY <1>1, MinFacts
<1>3. PICK x \in S : Min(T) = n - x
  BY <1>2 DEF T
<1>4. ASSUME NEW y \in S PROVE y <= x
  <2>1. n - y \in T
    BY DEF T
  <2>2. n - x <= n - y
    BY <2>1, <1>2, <1>3
  <2> QED
    BY <2>2
<1> QED
  BY <1>4 DEF Max

----------------------------------------------------------------------------
(***************************************************************************)
(* Memory                                                                  *)
(***************************************************************************)
\* A memory is a record such as Memory makes.
IsMemory(s) ==
    s = [avail |-> s.avail, tables |-> s.tables, map |-> s.map, held |-> s.held, short |-> s.short,
         data |-> s.data]

LEMMA TakenFacts ==
    ASSUME NEW s, IsMemory(s), NEW F, NEW r, r = Taken(s, F)
    PROVE  /\ IsMemory(r) /\ r.avail = s.avail \ F /\ r.tables = s.tables /\ r.map = s.map
           /\ r.held = s.held /\ r.short = s.short /\ r.data = s.data
BY DEF IsMemory, Taken

LEMMA HeldFacts ==
    ASSUME NEW s, IsMemory(s), NEW F, NEW r, r = [Taken(s, F) EXCEPT !.held = @ \cup F]
    PROVE  /\ IsMemory(r) /\ r.avail = s.avail \ F /\ r.tables = s.tables /\ r.map = s.map
           /\ r.held = s.held \cup F /\ r.short = s.short /\ r.data = s.data
BY DEF IsMemory, Taken

\* palloc of one frame, and of a run.
LEMMA PallocFacts ==
    ASSUME NEW s, s.avail \subseteq Nat, NEW n \in Nat, Runs(s, n) # {}
    PROVE  palloc(s, n) \in s.avail /\ palloc(s, n) .. palloc(s, n) + n - 1 \subseteq s.avail
BY MinFacts DEF Runs, palloc

LEMMA PallocOne ==
    ASSUME NEW s, s.avail \subseteq Nat, s.avail # {}
    PROVE  palloc(s, 1) \in s.avail
<1>1. \A f \in s.avail : f .. f + 1 - 1 = {f}
  OBVIOUS
<1>2. Runs(s, 1) # {}
  BY <1>1 DEF Runs
<1> QED
  BY <1>2, PallocFacts

\* What a caller of vmap can rely on.
Vmapped(s, r, page, frame) ==
    /\ IsMemory(r) /\ r.held = s.held /\ r.data = s.data
    /\ \E T \in SUBSET s.avail : r.avail = s.avail \ T /\ Range(r.tables) = Range(s.tables) \cup T
    /\ DOMAIN s.map \subseteq DOMAIN r.map
    /\ \A q \in DOMAIN r.map : \/ q = page /\ r.map[q].to = frame
                               \/ q \in DOMAIN s.map /\ r.map[q] = s.map[q]
    /\ ~ r.short => ~ s.short /\ page \in DOMAIN r.map /\ r.map[page].to = frame

LEMMA VmapFacts ==
    ASSUME NEW s, IsMemory(s), s.avail \subseteq Nat, NEW page, NEW frame, NEW fl, NEW r,
           r = vmap(s, page, frame, fl)
    PROVE  Vmapped(s, r, page, frame)
<1> DEFINE t == page \div TableSpan
           e == [to |-> frame, fl |-> fl]
           mapped == [s EXCEPT !.map = Put(@, page, e)]
<1>1. /\ IsMemory(mapped) /\ mapped.held = s.held /\ mapped.data = s.data /\ mapped.avail = s.avail
      /\ mapped.tables = s.tables /\ mapped.short = s.short /\ mapped.map = Put(s.map, page, e)
  BY DEF IsMemory
<1>2. /\ DOMAIN Put(s.map, page, e) = DOMAIN s.map \cup {page} /\ Put(s.map, page, e)[page] = e
      /\ \A q \in DOMAIN s.map : q # page => Put(s.map, page, e)[q] = s.map[q]
      /\ e.to = frame
  BY DEF Put
<1>3. CASE t \in DOMAIN s.tables
  <2>1. r = mapped
    BY <1>3 DEF vmap
  <2>2. PICK T : T = {}
    OBVIOUS
  <2>3. T \in SUBSET s.avail /\ r.avail = s.avail \ T /\ Range(r.tables) = Range(s.tables) \cup T
    BY <2>1, <2>2, <1>1
  <2> QED
    BY <2>1, <2>3, <1>1, <1>2 DEF Vmapped
<1>4. CASE t \notin DOMAIN s.tables /\ s.avail = {}
  <2>1. r = [s EXCEPT !.short = TRUE]
    BY <1>4 DEF vmap
  <2>2. /\ IsMemory(r) /\ r.held = s.held /\ r.data = s.data /\ r.avail = s.avail
        /\ r.tables = s.tables /\ r.short = TRUE /\ r.map = s.map
    BY <2>1 DEF IsMemory
  <2>3. PICK T : T = {}
    OBVIOUS
  <2>4. T \in SUBSET s.avail /\ r.avail = s.avail \ T /\ Range(r.tables) = Range(s.tables) \cup T
    BY <2>2, <2>3
  <2> QED
    BY <2>2, <2>4 DEF Vmapped
<1>5. CASE t \notin DOMAIN s.tables /\ s.avail # {}
  <2>1. PICK g : g = Min(s.avail)
    OBVIOUS
  <2>2. g \in s.avail
    BY <2>1, <1>5, MinFacts
  <2>3. r = [Taken(mapped, {g}) EXCEPT !.tables = Put(@, t, g)]
    BY <2>1, <1>5 DEF vmap
  <2>4. /\ IsMemory(r) /\ r.held = s.held /\ r.data = s.data /\ r.avail = s.avail \ {g}
        /\ r.tables = Put(s.tables, t, g) /\ r.short = s.short /\ r.map = Put(s.map, page, e)
    BY <2>3, <1>1 DEF IsMemory, Taken
  <2>5. /\ DOMAIN Put(s.tables, t, g) = DOMAIN s.tables \cup {t} /\ Put(s.tables, t, g)[t] = g
        /\ \A u \in DOMAIN s.tables : Put(s.tables, t, g)[u] = s.tables[u]
    BY <1>5 DEF Put
  <2>6. ASSUME NEW x PROVE x \in Range(r.tables) <=> x \in Range(s.tables) \cup {g}
    BY <2>4, <2>5 DEF Range
  <2>7. {g} \in SUBSET s.avail /\ r.avail = s.avail \ {g} /\ Range(r.tables) = Range(s.tables) \cup {g}
    BY <2>2, <2>4, <2>6
  <2>8. \E T \in SUBSET s.avail : r.avail = s.avail \ T /\ Range(r.tables) = Range(s.tables) \cup T
    BY <2>7
  <2> QED
    BY <2>4, <2>8, <1>2 DEF Vmapped
<1> QED
  BY <1>3, <1>4, <1>5

----------------------------------------------------------------------------
(***************************************************************************)
(* The use of frames                                                       *)
(***************************************************************************)
KFrames == {k.frame : k \in Range(KMap)}
DescsOf(R) == {r.desc : r \in Range(R)}

\* Every frame of M has one use: free, a table, the root or the context (c), a
\* descriptor (D) or a page; what is mapped is a page or the kernel's.
UseOK(s, c, D, M) ==
    /\ IsMemory(s) /\ M \subseteq Nat /\ M \cap KFrames = {}
    /\ s.avail \cap (Range(s.tables) \cup c \cup D \cup s.held) = {}
    /\ Range(s.tables) \cap (c \cup D \cup s.held) = {}
    /\ c \cap (D \cup s.held) = {} /\ D \cap s.held = {}
    /\ s.avail \cup Range(s.tables) \cup c \cup D \cup s.held = M
    /\ \A p \in DOMAIN s.map : s.map[p].to \in s.held \cup KFrames

LEMMA UseHold ==
    ASSUME NEW s, NEW c, NEW D, NEW M, UseOK(s, c, D, M), NEW F \in SUBSET s.avail,
           NEW r, r = [Taken(s, F) EXCEPT !.held = @ \cup F]
    PROVE  UseOK(r, c, D, M)
<1>1. /\ IsMemory(r) /\ r.avail = s.avail \ F /\ r.tables = s.tables /\ r.map = s.map
      /\ r.held = s.held \cup F
  <2>1. IsMemory(s)
    BY DEF UseOK
  <2> QED
    BY <2>1 DEF Taken, IsMemory
<1> QED
  BY <1>1 DEF UseOK

LEMMA UseDesc ==
    ASSUME NEW s, NEW c, NEW D, NEW M, UseOK(s, c, D, M), NEW g \in s.avail,
           NEW r, r = Taken(s, {g})
    PROVE  UseOK(r, c, D \cup {g}, M)
<1>1. /\ IsMemory(r) /\ r.avail = s.avail \ {g} /\ r.tables = s.tables /\ r.map = s.map
      /\ r.held = s.held
  BY TakenFacts DEF UseOK
<1> QED
  BY <1>1 DEF UseOK

LEMMA UseVmap ==
    ASSUME NEW s, NEW c, NEW D, NEW M, UseOK(s, c, D, M), NEW page, NEW fl,
           NEW frame \in s.held \cup KFrames, NEW r, r = vmap(s, page, frame, fl)
    PROVE  UseOK(r, c, D, M) /\ Vmapped(s, r, page, frame)
<1>1. IsMemory(s) /\ s.avail \subseteq Nat
  BY DEF UseOK
<1>2. Vmapped(s, r, page, frame)
  BY <1>1, VmapFacts
<1>3. PICK T \in SUBSET s.avail : r.avail = s.avail \ T /\ Range(r.tables) = Range(s.tables) \cup T
  BY <1>2 DEF Vmapped
<1>4. IsMemory(r) /\ r.held = s.held
  BY <1>2 DEF Vmapped
<1>5. \A p \in DOMAIN r.map : r.map[p].to \in r.held \cup KFrames
  BY <1>2, <1>4 DEF Vmapped, UseOK
<1> QED
  BY <1>2, <1>3, <1>4, <1>5 DEF UseOK

LEMMA UseData ==
    ASSUME NEW s, NEW c, NEW D, NEW M, UseOK(s, c, D, M), NEW d, NEW r, r = [s EXCEPT !.data = d]
    PROVE  /\ UseOK(r, c, D, M)
           /\ r.avail = s.avail /\ r.tables = s.tables /\ r.map = s.map /\ r.held = s.held
           /\ r.short = s.short /\ r.data = d
<1>1. /\ IsMemory(r) /\ r.avail = s.avail /\ r.tables = s.tables /\ r.map = s.map
      /\ r.held = s.held /\ r.short = s.short /\ r.data = d
  BY DEF UseOK, IsMemory
<1> QED
  BY <1>1 DEF UseOK

----------------------------------------------------------------------------
(***************************************************************************)
(* The list of regions                                                     *)
(***************************************************************************)
\* A sequence of regions with a descriptor each.
ListOK(R) ==
    /\ R \in Seq(Range(R))
    /\ \A j, k \in DOMAIN R : R[j].desc = R[k].desc => j = k

\* R2 is R with r behind its first b regions.
Inserted(R, R2, b, r) ==
    /\ R2 \in Seq(Range(R2)) /\ b \in 0 .. Len(R) /\ Len(R2) = Len(R) + 1 /\ R2[b + 1] = r
    /\ \A j \in 1 .. b : R2[j] = R[j]
    /\ \A j \in b + 1 .. Len(R) : R2[j + 1] = R[j]

LEMMA RangeSeq ==
    ASSUME NEW S, NEW R \in Seq(S)
    PROVE  /\ R \in Seq(Range(R)) /\ Len(R) \in Nat /\ DOMAIN R = 1 .. Len(R)
           /\ \A j \in 1 .. Len(R) : R[j] \in Range(R)
<1>1. Len(R) \in Nat /\ DOMAIN R = 1 .. Len(R) /\ R \in [1 .. Len(R) -> S]
  BY LenProperties
<1>2. R = [j \in 1 .. Len(R) |-> R[j]]
  BY <1>1
<1>3. \A j \in 1 .. Len(R) : R[j] \in Range(R)
  BY <1>1 DEF Range
<1>4. R \in [1 .. Len(R) -> Range(R)]
  BY <1>2, <1>3
<1>5. R \in Seq(Range(R))
  BY <1>1, <1>4, SeqDef
<1> QED
  BY <1>1, <1>3, <1>5

LEMMA PrependInserts ==
    ASSUME NEW R, R \in Seq(Range(R)), NEW r, NEW R2, R2 = <<r>> \o R
    PROVE  Inserted(R, R2, 0, r)
<1> DEFINE S == Range(R) \cup {r}
<1>1. R \in Seq(S) /\ <<r>> \in Seq(S) /\ Len(<<r>>) = 1 /\ <<r>>[1] = r
  <2>1. R \in Seq(S)
    BY SeqMonotonic
  <2> QED
    BY <2>1
<1> HIDE DEF S
<1>2. Len(R) \in Nat
  BY <1>1, LenProperties
<1>3. /\ R2 \in Seq(S) /\ Len(R2) = 1 + Len(R)
      /\ \A i \in 1 .. 1 + Len(R) : R2[i] = IF i <= 1 THEN <<r>>[i] ELSE R[i - 1]
  BY <1>1, ConcatProperties
<1>4. R2 \in Seq(Range(R2))
  BY <1>3, RangeSeq
<1>5. R2[1] = r
  BY <1>1, <1>2, <1>3
<1>6. ASSUME NEW j \in 1 .. Len(R) PROVE R2[j + 1] = R[j]
  BY <1>2, <1>3
<1> QED
  BY <1>2, <1>3, <1>4, <1>5, <1>6 DEF Inserted

LEMMA LinkedInserts ==
    ASSUME regions \in Seq(Range(regions)), NEW r, NEW b \in 1 .. Len(regions), NEW R2, R2 = Linked(b, r)
    PROVE  Inserted(regions, R2, b, r)
<1> DEFINE S == Range(regions) \cup {r}
           A == SubSeq(regions, 1, b)
           B == SubSeq(regions, b + 1, Len(regions))
<1>1. regions \in Seq(S) /\ <<r>> \in Seq(S) /\ Len(<<r>>) = 1 /\ <<r>>[1] = r
  <2>1. regions \in Seq(S)
    BY SeqMonotonic
  <2> QED
    BY <2>1
<1> HIDE DEF S
<1>2. Len(regions) \in Nat /\ \A i \in 1 .. Len(regions) : regions[i] \in S
  BY <1>1, LenProperties
<1>3. A \in Seq(S) /\ Len(A) = b /\ \A i \in 1 .. b : A[i] = regions[i]
  <2>1. \A i \in 1 .. b : regions[i] \in S
    BY <1>2
  <2>2. /\ A \in Seq(S) /\ Len(A) = IF 1 <= b THEN b - 1 + 1 ELSE 0
        /\ \A i \in 1 .. b - 1 + 1 : A[i] = regions[1 + i - 1]
    BY <2>1, SubSeqProperties
  <2> QED
    BY <2>2
<1>4. /\ B \in Seq(S) /\ Len(B) = Len(regions) - b
      /\ \A i \in 1 .. Len(regions) - b : B[i] = regions[b + i]
  <2>1. \A i \in b + 1 .. Len(regions) : regions[i] \in S
    BY <1>2
  <2>2. /\ B \in Seq(S) /\ Len(B) = IF b + 1 <= Len(regions) THEN Len(regions) - (b + 1) + 1 ELSE 0
        /\ \A i \in 1 .. Len(regions) - (b + 1) + 1 : B[i] = regions[(b + 1) + i - 1]
    BY <1>2, <2>1, SubSeqProperties
  <2> QED
    BY <1>2, <2>2
<1>5. R2 = (A \o <<r>>) \o B
  BY DEF Linked
<1> HIDE DEF A, B
<1>6. /\ A \o <<r>> \in Seq(S) /\ Len(A \o <<r>>) = b + 1
      /\ \A i \in 1 .. b + 1 : (A \o <<r>>)[i] = IF i <= b THEN A[i] ELSE <<r>>[i - b]
  BY <1>1, <1>3, ConcatProperties
<1>7. /\ R2 \in Seq(S) /\ Len(R2) = b + 1 + Len(B)
      /\ \A i \in 1 .. b + 1 + Len(B) : R2[i] = IF i <= b + 1 THEN (A \o <<r>>)[i] ELSE B[i - (b + 1)]
  <2>1. PICK C : C = A \o <<r>>
    OBVIOUS
  <2>2. C \in Seq(S) /\ Len(C) = b + 1 /\ R2 = C \o B /\ B \in Seq(S)
    BY <2>1, <1>4, <1>5, <1>6
  <2>3. /\ C \o B \in Seq(S) /\ Len(C \o B) = Len(C) + Len(B)
        /\ \A i \in 1 .. Len(C) + Len(B) : (C \o B)[i] = IF i <= Len(C) THEN C[i] ELSE B[i - Len(C)]
    <3>1. C \in Seq(S) /\ B \in Seq(S)
      BY <2>2
    <3> QED
      BY <3>1, ConcatProperties
  <2> QED
    BY <2>1, <2>2, <2>3
<1>8. R2 \in Seq(Range(R2)) /\ Len(R2) = Len(regions) + 1
  BY <1>2, <1>4, <1>7, RangeSeq
<1>9. R2[b + 1] = r
  <2>1. PICK j \in 1 .. b + 1 : j = b + 1
    OBVIOUS
  <2>2. j \in 1 .. b + 1 + Len(B) /\ j <= b + 1 /\ ~ (j <= b) /\ j - b = 1
    BY <2>1, <1>2, <1>4
  <2>3. R2[j] = (A \o <<r>>)[j]
    BY <2>2, <1>7
  <2>4. (A \o <<r>>)[j] = <<r>>[1]
    BY <2>2, <1>6
  <2> QED
    BY <2>1, <2>3, <2>4, <1>1
<1>10. ASSUME NEW j \in 1 .. b PROVE R2[j] = regions[j]
  <2>1. j \in 1 .. b + 1 + Len(B) /\ j <= b + 1 /\ j \in 1 .. b + 1 /\ j <= b
    BY <1>2, <1>4
  <2>2. R2[j] = (A \o <<r>>)[j]
    BY <2>1, <1>7
  <2>3. (A \o <<r>>)[j] = A[j]
    BY <2>1, <1>6
  <2> QED
    BY <2>2, <2>3, <1>3
<1>11. ASSUME NEW j \in b + 1 .. Len(regions) PROVE R2[j + 1] = regions[j]
  <2>1. j + 1 \in 1 .. b + 1 + Len(B) /\ ~ (j + 1 <= b + 1) /\ j + 1 - (b + 1) = j - b
    BY <1>2, <1>4
  <2>2. R2[j + 1] = B[j - b]
    BY <2>1, <1>7
  <2> QED
    BY <2>2, <1>2, <1>4
<1> QED
  BY <1>2, <1>8, <1>9, <1>10, <1>11 DEF Inserted

\* The regions of R2 are those of R and r.
LEMMA InsertedFacts ==
    ASSUME NEW R, R \in Seq(Range(R)), NEW R2, NEW b, NEW r, Inserted(R, R2, b, r)
    PROVE  /\ DOMAIN R2 = 1 .. Len(R) + 1 /\ DOMAIN R = 1 .. Len(R) /\ Len(R) \in Nat
           /\ \A i \in DOMAIN R2 : \/ i = b + 1 /\ R2[i] = r
                                   \/ i <= b /\ i \in DOMAIN R /\ R2[i] = R[i]
                                   \/ i > b + 1 /\ i - 1 \in DOMAIN R /\ R2[i] = R[i - 1]
           /\ Range(R2) = Range(R) \cup {r}
<1>1. DOMAIN R2 = 1 .. Len(R) + 1 /\ DOMAIN R = 1 .. Len(R) /\ Len(R) \in Nat /\ b \in 0 .. Len(R)
  BY LenProperties DEF Inserted
<1>2. ASSUME NEW i \in DOMAIN R2
      PROVE  \/ i = b + 1 /\ R2[i] = r
             \/ i <= b /\ i \in DOMAIN R /\ R2[i] = R[i]
             \/ i > b + 1 /\ i - 1 \in DOMAIN R /\ R2[i] = R[i - 1]
  <2>1. CASE i > b + 1
    <3>1. i - 1 \in b + 1 .. Len(R) /\ (i - 1) + 1 = i
      BY <2>1, <1>1
    <3> QED
      BY <3>1, <2>1, <1>1 DEF Inserted
  <2>2. CASE i <= b + 1
    BY <2>2, <1>1 DEF Inserted
  <2> QED
    BY <2>1, <2>2, <1>1
<1>3. ASSUME NEW x \in Range(R2) PROVE x \in Range(R) \cup {r}
  BY <1>2 DEF Range
<1>4. ASSUME NEW j \in DOMAIN R PROVE R[j] \in Range(R2)
  <2>1. CASE j <= b
    <3>1. j \in DOMAIN R2 /\ R2[j] = R[j]
      BY <2>1, <1>1 DEF Inserted
    <3> QED
      BY <3>1 DEF Range
  <2>2. CASE j > b
    <3>1. j + 1 \in DOMAIN R2 /\ R2[j + 1] = R[j]
      BY <2>2, <1>1 DEF Inserted
    <3> QED
      BY <3>1 DEF Range
  <2> QED
    BY <2>1, <2>2, <1>1
<1>5. r \in Range(R2)
  BY <1>1 DEF Inserted, Range
<1>6. ASSUME NEW x \in Range(R) PROVE x \in Range(R2)
  BY <1>4 DEF Range
<1>7. Range(R2) = Range(R) \cup {r}
  BY <1>3, <1>5, <1>6
<1> QED
  BY <1>1, <1>2, <1>7

LEMMA InsertedList ==
    ASSUME NEW R, ListOK(R), NEW R2, NEW b, NEW r, Inserted(R, R2, b, r), r.desc \notin DescsOf(R)
    PROVE  ListOK(R2) /\ DescsOf(R2) = DescsOf(R) \cup {r.desc}
<1>1. /\ DOMAIN R2 = 1 .. Len(R) + 1 /\ DOMAIN R = 1 .. Len(R) /\ Len(R) \in Nat
      /\ \A i \in DOMAIN R2 : \/ i = b + 1 /\ R2[i] = r
                              \/ i <= b /\ i \in DOMAIN R /\ R2[i] = R[i]
                              \/ i > b + 1 /\ i - 1 \in DOMAIN R /\ R2[i] = R[i - 1]
      /\ Range(R2) = Range(R) \cup {r}
  BY InsertedFacts DEF ListOK
<1>2. b \in Nat
  BY <1>1 DEF Inserted
<1>3. \A j \in DOMAIN R : R[j].desc # r.desc
  BY DEF DescsOf, Range
<1>4. ASSUME NEW i \in DOMAIN R2, NEW j \in DOMAIN R2, R2[i].desc = R2[j].desc
      PROVE  i = j
  BY <1>1, <1>2, <1>3, <1>4 DEF ListOK
<1>5. R2 \in Seq(Range(R2))
  BY DEF Inserted
<1>6. DescsOf(R2) = DescsOf(R) \cup {r.desc}
  BY <1>1 DEF DescsOf
<1> QED
  BY <1>4, <1>5, <1>6 DEF ListOK

\* As many descriptors as regions.
LEMMA DescsCount ==
    ASSUME NEW R, ListOK(R)
    PROVE  Cardinality(DescsOf(R)) = Len(R)
<1>1. Len(R) \in Nat /\ DOMAIN R = 1 .. Len(R)
  BY RangeSeq DEF ListOK
<1> DEFINE f == [j \in 1 .. Len(R) |-> R[j].desc]
<1>2. f \in [1 .. Len(R) -> DescsOf(R)]
  BY <1>1 DEF DescsOf, Range
<1>3. \A i, j \in 1 .. Len(R) : f[i] = f[j] => i = j
  BY <1>1 DEF ListOK
<1>4. \A d \in DescsOf(R) : \E j \in 1 .. Len(R) : f[j] = d
  BY <1>1 DEF DescsOf, Range
<1> HIDE DEF f
<1>5. f \in Bijection(1 .. Len(R), DescsOf(R))
  BY <1>2, <1>3, <1>4 DEF Bijection, Injection, Surjection, IsInjective
<1>6. ExistsBijection(1 .. Len(R), DescsOf(R))
  BY <1>5 DEF ExistsBijection
<1>7. IsFiniteSet(1 .. Len(R)) /\ Cardinality(1 .. Len(R)) = Len(R)
  <2>1. PICK n \in Nat : n = Len(R)
    BY <1>1
  <2>2. IsFiniteSet(1 .. n) /\ Cardinality(1 .. n) = IF 1 > n THEN 0 ELSE n - 1 + 1
    BY FS_Interval
  <2>3. Cardinality(1 .. n) = n
    BY <2>2
  <2> QED
    BY <2>1, <2>2, <2>3
<1> QED
  BY <1>6, <1>7, FS_Bijection

----------------------------------------------------------------------------
(***************************************************************************)
(* The regions of the kernel and the modules                               *)
(***************************************************************************)
LEMMA KernelFacts ==
    /\ Len(KMap) \in Nat /\ DOMAIN KMap = 1 .. Len(KMap)
    /\ \A i \in 1 .. Len(KMap) : /\ KMap[i].page \in KPages /\ KMap[i].frame \in KFrames
                                 /\ KMap[i] \in Range(KMap)
    /\ \A p \in KPages : p \in Nat \ {0}
    /\ \A x \in Range(KMap) : \E i \in 1 .. Len(KMap) : x = KMap[i]
<1>1. PICK S : S = [page : Nat \ {0}, frame : Nat]
  OBVIOUS
<1>2. KMap \in Seq(S)
  BY <1>1, SpacesAssumption
<1>3. Len(KMap) \in Nat /\ DOMAIN KMap = 1 .. Len(KMap) /\ \A i \in 1 .. Len(KMap) : KMap[i] \in S
  BY <1>2, LenProperties
<1>4. \A i \in 1 .. Len(KMap) : KMap[i].page \in Nat \ {0} /\ KMap[i] \in Range(KMap)
  BY <1>1, <1>3 DEF Range
<1>5. \A x \in Range(KMap) : \E i \in 1 .. Len(KMap) : x = KMap[i]
  BY <1>3 DEF Range
<1> QED
  BY <1>3, <1>4, <1>5 DEF KPages, KFrames


\* A module's program headers, and the pages of a segment.
LEMMA HeaderFacts ==
    ASSUME NEW im \in Images
    PROVE  /\ Len(im.ph) \in Nat /\ DOMAIN im.ph = 1 .. Len(im.ph)
           /\ \A k \in 1 .. Len(im.ph) : im.ph[k] \in Headers
<1>1. im.ph \in Seq(Range(im.ph))
  BY SpacesAssumption
<1>2. /\ Len(im.ph) \in Nat /\ DOMAIN im.ph = 1 .. Len(im.ph)
      /\ \A k \in 1 .. Len(im.ph) : im.ph[k] \in Range(im.ph)
  BY <1>1, RangeSeq
<1>3. \A x \in Range(im.ph) : x \in Headers
  BY DEF Headers
<1> QED
  BY <1>2, <1>3

LEMMA PagesFacts ==
    ASSUME NEW h \in Headers
    PROVE  /\ First(h) \in Nat /\ Pages(h) \in Nat \ {0}
           /\ First(h) >= Start + StackSize /\ \A p \in KPages : First(h) > p
           /\ \A a \in Bytes(h) : a \in Nat /\ a \div PageSize \in First(h) .. First(h) + Pages(h) - 1
           /\ h.vaddr + h.memsz - 1 >= (First(h) + Pages(h) - 1) * PageSize
           /\ h.vaddr < (First(h) + 1) * PageSize /\ h.vaddr >= First(h) * PageSize
<1>1. PICK P \in Nat \ {0} : P = PageSize
  BY SpacesAssumption
<1>2. PICK v \in Nat : v = h.vaddr
  BY SpacesAssumption
<1>3. PICK z \in Nat \ {0} : z = h.memsz
  BY SpacesAssumption
<1>4. First(h) = v \div P /\ Pages(h) = (v + z + P - 1) \div P - v \div P
  BY <1>1, <1>2, <1>3 DEF First, Pages
<1>5. PICK q \in Nat : q = v \div P
  BY DivFacts
<1>6. PICK e \in Nat : e = (v + z + P - 1) \div P
  <2>1. v + z + P - 1 \in Nat
    OBVIOUS
  <2> QED
    BY <2>1, DivFacts
<1>9. v >= q * P /\ v < (q + 1) * P
  BY <1>5, DivFacts
<1>10. v + z > (e - 1) * P /\ v + z <= e * P
  <2>1. PICK w \in Nat : w = v + z + P - 1
    OBVIOUS
  <2>2. e * P <= w /\ w < (e + 1) * P
    BY <2>1, <1>6, DivFacts
  <2>3. (e + 1) * P = e * P + P /\ (e - 1) * P = e * P - P /\ e * P \in Nat
    OBVIOUS
  <2> QED
    BY <2>1, <2>2, <2>3
<1>11. e > q
  BY <1>9, <1>10
<1>12. ASSUME NEW a \in v .. v + z - 1 PROVE a \in Nat /\ a \div P \in q .. e - 1
  <2>1. PICK c \in Nat : c = a \div P
    BY a \in Nat, DivFacts
  <2>3. a >= c * P /\ a < (c + 1) * P
    BY <2>1, DivFacts
  <2>4. c >= q
    BY <2>3, <1>9
  <2>5. c < e
    BY <2>3, <1>10
  <2> QED
    BY <2>1, <2>4, <2>5
<1>13. q >= Start + StackSize
  <2>1. PICK t \in Nat : t = Start + StackSize
    BY SpacesAssumption
  <2>2. v >= t * P
    BY <2>1, <1>1, <1>2, SpacesAssumption
  <2> QED
    BY <2>1, <2>2, <1>9
<1>14. ASSUME NEW p \in KPages PROVE q > p
  <2>1. p \in Nat
    BY KernelFacts
  <2>2. v >= (p + 1) * P
    BY <1>1, <1>2, SpacesAssumption
  <2> QED
    BY <2>1, <2>2, <1>9
<1> QED
  BY <1>1, <1>2, <1>3, <1>4, <1>5, <1>6, <1>9, <1>10, <1>11, <1>12, <1>13, <1>14 DEF Bytes

LEMMA SegTypes ==
    ASSUME NEW h \in Headers
    PROVE  First(h) \in Nat /\ Pages(h) \in Nat \ {0}
BY PagesFacts

----------------------------------------------------------------------------
(***************************************************************************)
(* Frames through a process's life                                         *)
(***************************************************************************)
HasContext == \E a, b \in managed : a < b /\ ctx = {a, b}

\* The loop over the pages of a segment has their frames.
LoopOwns ==
    /\ image \in Images /\ seg \in Nat
    /\ loop = [page |-> loop.page, frame |-> loop.frame, n |-> loop.n] /\ loop.n \in Nat
    /\ stage = "segment" => /\ seg < Len(image.ph)
                            /\ \A j \in 0 .. Pages(Header) - 1 : loop.frame + j \in m.held

FrameInv ==
    /\ UseOK(m, ctx, DescsOf(regions), managed) /\ ListOK(regions) /\ LoopOwns
    /\ IF stage = "vinit" THEN ctx = {} /\ regions = <<>>
       ELSE stage \notin {"panic", "reaped"} => HasContext

LEMMA InitFrames == Init => FrameInv
<1> SUFFICES ASSUME Init PROVE FrameInv
  OBVIOUS
<1>1. PICK P \in Pools : m = Memory(P) /\ managed = P
  BY DEF Init
<1>2. /\ IsMemory(m) /\ m.avail = P /\ m.tables = <<>> /\ m.map = <<>> /\ m.held = {}
  BY <1>1 DEF Memory, IsMemory
<1>3. P \subseteq Nat /\ P \cap KFrames = {}
  BY SpacesAssumption DEF KFrames
<1>4. Range(m.tables) = {} /\ DOMAIN m.map = {}
  BY <1>2 DEF Range
<1>5. regions = <<>> /\ ctx = {}
  BY DEF Init
<1>6. ListOK(regions) /\ DescsOf(regions) = {}
  BY <1>5 DEF ListOK, DescsOf, Range
<1>7. UseOK(m, ctx, DescsOf(regions), managed)
  BY <1>1, <1>2, <1>3, <1>4, <1>5, <1>6 DEF UseOK
<1>8. LoopOwns
  BY DEF Init, NoLoop, LoopOwns
<1> QED
  BY <1>6, <1>7, <1>8 DEF FrameInv, Init

\* The step keeps context and list and changes memory as a lemma above says.
LEMMA KeepFrames ==
    ASSUME FrameInv, ctx' = ctx, regions' = regions, managed' = managed, image' = image,
           UseOK(m', ctx, DescsOf(regions), managed), LoopOwns',
           stage' # "vinit", stage' \notin {"panic", "reaped"} => stage \notin {"vinit", "panic", "reaped"}
    PROVE  FrameInv'
<1>1. ListOK(regions)' /\ UseOK(m, ctx, DescsOf(regions), managed)'
  BY DEF FrameInv
<1>2. stage' \notin {"panic", "reaped"} => HasContext'
  BY DEF FrameInv, HasContext
<1> QED
  BY <1>1, <1>2 DEF FrameInv

LEMMA VinitFrames == FrameInv /\ Vinit => FrameInv'
<1> SUFFICES ASSUME FrameInv, Vinit PROVE FrameInv'
  OBVIOUS
<1>1. PICK a \in m.avail, b \in m.avail, d \in m.avail :
         /\ a < b /\ b < d /\ ctx' = {a, b} /\ regions' = <<Region(Start, 0, {}, d)>>
         /\ m' = Taken(m, {a, b, d})
  BY DEF Vinit
<1>2. m'.avail = m.avail \ {a, b, d} /\ m'.tables = m.tables /\ m'.map = m.map /\ m'.held = m.held /\ IsMemory(m')
  BY <1>1, TakenFacts DEF FrameInv, UseOK
<1>3. Region(Start, 0, {}, d).desc = d
  BY DEF Region
<1>4. PICK r : r = Region(Start, 0, {}, d)
  OBVIOUS
<1>5. Range(<<r>>) = {r} /\ <<r>> \in Seq({r}) /\ DOMAIN <<r>> = {1}
  BY DEF Range
<1>6. ListOK(regions)' /\ DescsOf(regions)' = {d}
  BY <1>1, <1>3, <1>4, <1>5 DEF ListOK, DescsOf
<1>7. managed' = managed /\ image' = image /\ seg' = seg /\ loop' = loop /\ stage' = "load"
  BY DEF Vinit
<1>8. UseOK(m, ctx, DescsOf(regions), managed)'
  <2>1. ctx = {} /\ DescsOf(regions) = {}
    BY DEF Vinit, FrameInv, DescsOf, Range
  <2>2. UseOK(m, {}, {}, managed)
    BY <2>1 DEF FrameInv
  <2>3. Range(m'.tables) = Range(m.tables) /\ m'.map = m.map
    BY <1>2
  <2>4. UseOK(m', {a, b}, {d}, managed)
    <3>1. PICK T : T = Range(m.tables)
      OBVIOUS
    <3>2. a # b /\ a # d /\ b # d
      <4>1. a \in Nat /\ b \in Nat /\ d \in Nat /\ a < b /\ b < d
        BY <1>1, <2>2 DEF UseOK
      <4> QED
        BY <4>1
    <3>3. m'.avail \cap (T \cup {a, b} \cup {d} \cup m'.held) = {}
      BY <1>2, <2>2, <3>1 DEF UseOK
    <3>9. a \notin T /\ b \notin T /\ d \notin T /\ a \notin m.held /\ b \notin m.held /\ d \notin m.held
      BY <2>2, <3>1 DEF UseOK
    <3>10. m'.held = m.held /\ T \cap m.held = {}
      BY <1>2, <2>2, <3>1 DEF UseOK
    <3>4. T \cap ({a, b} \cup {d} \cup m'.held) = {}
      BY <3>9, <3>10
    <3>5. {a, b} \cap ({d} \cup m'.held) = {} /\ {d} \cap m'.held = {}
      BY <3>2, <3>9, <3>10
    <3>6. m'.avail \cup T \cup {a, b} \cup {d} \cup m'.held = managed
      BY <1>1, <1>2, <2>2, <3>1 DEF UseOK
    <3>7. \A p \in DOMAIN m'.map : m'.map[p].to \in m'.held \cup KFrames
      BY <1>2, <2>2, <2>3 DEF UseOK
    <3>8. IsMemory(m') /\ managed \subseteq Nat /\ managed \cap KFrames = {}
      BY <1>2, <2>2 DEF UseOK
    <3> QED
      BY <2>3, <3>1, <3>3, <3>4, <3>5, <3>6, <3>7, <3>8 DEF UseOK
  <2> QED
    BY <1>1, <1>6, <1>7, <2>4
<1>9. a \in managed /\ b \in managed /\ a < b
  BY <1>1 DEF FrameInv, UseOK
<1>10. HasContext'
  BY <1>1, <1>7, <1>9 DEF HasContext
<1>11. LoopOwns'
  BY <1>7 DEF FrameInv, LoopOwns
<1> QED
  BY <1>6, <1>7, <1>8, <1>10, <1>11 DEF FrameInv

\* Steps that leave memory, context and list alone.
LEMMA QuietFrames ==
    ASSUME FrameInv, VinitFails \/ LoadSkips \/ LoadFails \/ LoadDone \/ SpawnPanics \/ StackDone \/ Spawned \/ Enter
    PROVE  FrameInv'
<1>1. /\ ctx' = ctx /\ regions' = regions /\ managed' = managed /\ image' = image /\ m' = m
      /\ stage' # "vinit" /\ (stage' \notin {"panic", "reaped"} => stage \notin {"vinit", "panic", "reaped"})
  BY DEF VinitFails, LoadSkips, LoadFails, LoadDone, SpawnPanics, StackDone, Spawned, Enter
<1>2. stage' # "segment" /\ seg' \in Nat /\ loop' \in {loop, NoLoop}
  BY DEF FrameInv, LoopOwns, VinitFails, LoadSkips, LoadFails, LoadDone, SpawnPanics, StackDone, Spawned, Enter
<1>3. LoopOwns'
  BY <1>1, <1>2 DEF FrameInv, LoopOwns, NoLoop
<1> QED
  BY <1>1, <1>3, KeepFrames DEF FrameInv

LEMMA LoopOnFacts ==
    ASSUME LoopOwns, LoopOn
    PROVE  /\ loop' = [page |-> loop'.page, frame |-> loop'.frame, n |-> loop'.n] /\ loop'.n = loop.n + 1
           /\ loop'.page = loop.page /\ loop'.frame = loop.frame
<1>1. PICK c : c = loop
  OBVIOUS
<1>2. c = [page |-> c.page, frame |-> c.frame, n |-> c.n] /\ loop' = [c EXCEPT !.n = @ + 1]
  BY <1>1 DEF LoopOwns, LoopOn
<1>3. loop' = [page |-> c.page, frame |-> c.frame, n |-> c.n + 1]
  BY <1>2
<1> QED
  BY <1>1, <1>3

\* The header of the segment that is loaded.
LEMMA HeaderIn ==
    ASSUME image \in Images, seg \in Nat, seg < Len(image.ph)
    PROVE  Header \in Headers /\ Pages(Header) \in Nat \ {0} /\ First(Header) \in Nat
<1>1. seg + 1 \in 1 .. Len(image.ph)
  BY HeaderFacts
<1> QED
  BY <1>1, HeaderFacts, SegTypes DEF Header

\* What LoadSegment takes.
LEMMA LoadSegmentFacts ==
    ASSUME FrameInv, LoadSegment
    PROVE  \E f \in Nat, g \in m.avail : \E own \in SUBSET m.avail :
             /\ own = f .. f + Pages(Header) - 1 /\ g \notin own
             /\ UseOK(m', ctx, DescsOf(regions) \cup {g}, managed)
             /\ m'.avail = m.avail \ (own \cup {g}) /\ m'.held = m.held \cup own /\ m'.map = m.map
             /\ m'.short = m.short /\ m'.data = m.data
             /\ loop' = [page |-> First(Header), frame |-> f, n |-> 0]
             /\ Inserted(regions, regions', 0, Region(First(Header), Pages(Header), SegmentFlags(Header), g))
<1>1. Pages(Header) \in Nat
  BY HeaderIn DEF LoadSegment, FrameInv, LoopOwns
<1>2. m.avail \subseteq Nat /\ IsMemory(m)
  BY DEF FrameInv, UseOK
<1>3. PICK f : f = palloc(m, Pages(Header))
  OBVIOUS
<1>4. PICK own : own = f .. f + Pages(Header) - 1
  OBVIOUS
<1>5. f \in Nat /\ own \in SUBSET m.avail
  BY <1>1, <1>2, <1>3, <1>4, PallocFacts DEF LoadSegment
<1>6. PICK s : s = [Taken(m, own) EXCEPT !.held = @ \cup own]
  OBVIOUS
<1>7. UseOK(s, ctx, DescsOf(regions), managed)
  BY <1>5, <1>6, UseHold DEF FrameInv
<1>8. /\ IsMemory(s) /\ s.avail = m.avail \ own /\ s.map = m.map
      /\ s.held = m.held \cup own /\ s.short = m.short /\ s.data = m.data
  BY <1>2, <1>6 DEF Taken, IsMemory
<1>9. PICK g : g = palloc(s, 1)
  OBVIOUS
<1>10. /\ s.avail # {} /\ m' = Taken(s, {g}) /\ loop' = [page |-> First(Header), frame |-> f, n |-> 0]
       /\ regions' = <<Region(First(Header), Pages(Header), SegmentFlags(Header), g)>> \o regions
  BY <1>3, <1>4, <1>6, <1>9 DEF LoadSegment, VaddSucceeds
<1>11. s.avail \subseteq Nat
  BY <1>2, <1>8
<1>12. g \in s.avail
  BY <1>9, <1>10, <1>11, PallocOne
<1>13. UseOK(m', ctx, DescsOf(regions) \cup {g}, managed)
  BY <1>7, <1>10, <1>12, UseDesc
<1>14. m'.avail = s.avail \ {g} /\ m'.held = s.held /\ m'.map = s.map /\ m'.short = s.short /\ m'.data = s.data
  BY <1>8, <1>10, TakenFacts
<1>15. Inserted(regions, regions', 0, Region(First(Header), Pages(Header), SegmentFlags(Header), g))
  <2>1. regions \in Seq(Range(regions))
    BY DEF FrameInv, ListOK
  <2> QED
    BY <2>1, <1>10, PrependInserts
<1>16. m'.avail = m.avail \ (own \cup {g}) /\ g \in m.avail /\ g \notin own
  BY <1>8, <1>12, <1>14
<1>17. /\ m'.held = m.held \cup own /\ m'.map = m.map /\ m'.short = m.short /\ m'.data = m.data
  BY <1>8, <1>14
<1> f \in Nat /\ g \in m.avail /\ own \in SUBSET m.avail
  BY <1>5, <1>16
<1> WITNESS f \in Nat, g \in m.avail
<1> WITNESS own \in SUBSET m.avail
<1> QED
  BY <1>4, <1>10, <1>13, <1>15, <1>16, <1>17

LEMMA LoadSegmentFrames == FrameInv /\ LoadSegment => FrameInv'
<1> SUFFICES ASSUME FrameInv, LoadSegment PROVE FrameInv'
  OBVIOUS
<1>1. PICK f \in Nat, g \in m.avail : \E own \in SUBSET m.avail :
             /\ own = f .. f + Pages(Header) - 1 /\ g \notin own
             /\ UseOK(m', ctx, DescsOf(regions) \cup {g}, managed)
             /\ m'.held = m.held \cup own
             /\ loop' = [page |-> First(Header), frame |-> f, n |-> 0]
             /\ Inserted(regions, regions', 0, Region(First(Header), Pages(Header), SegmentFlags(Header), g))
  BY LoadSegmentFacts
<1>2. PICK r : r = Region(First(Header), Pages(Header), SegmentFlags(Header), g)
  OBVIOUS
<1>3. r.desc = g /\ g \notin DescsOf(regions)
  BY <1>2 DEF Region, FrameInv, UseOK
<1>4. ListOK(regions') /\ DescsOf(regions') = DescsOf(regions) \cup {g}
  BY <1>1, <1>2, <1>3, InsertedList DEF FrameInv
<1>5. /\ ctx' = ctx /\ managed' = managed /\ image' = image /\ seg' = seg /\ stage = "load" /\ stage' = "segment"
      /\ seg < Len(image.ph)
  BY DEF LoadSegment
<1>6. LoopOwns'
  <2>1. Header' = Header /\ Pages(Header)' = Pages(Header)
    BY <1>5 DEF Header, Pages, First
  <2>2. PICK P \in Nat : P = Pages(Header)
    BY <1>5, HeaderIn DEF FrameInv, LoopOwns
  <2>3. loop'.frame = f /\ loop'.page = First(Header) /\ loop'.n = 0
    BY <1>1
  <2>4. \A j \in 0 .. P - 1 : f + j \in m'.held
    BY <1>1, <2>2
  <2>5. loop' = [page |-> loop'.page, frame |-> loop'.frame, n |-> loop'.n] /\ loop'.n \in Nat
    BY <1>1, <2>3
  <2> QED
    BY <1>5, <2>1, <2>2, <2>3, <2>4, <2>5 DEF FrameInv, LoopOwns
<1>7. HasContext'
  BY <1>5 DEF FrameInv, HasContext
<1> QED
  BY <1>1, <1>4, <1>5, <1>6, <1>7 DEF FrameInv

LEMMA SegmentPageFrames ==
    ASSUME FrameInv, SegmentPage
    PROVE  /\ FrameInv' /\ Vmapped(m, m', loop.page + loop.n, loop.frame + loop.n)
           /\ loop'.n = loop.n + 1 /\ loop'.page = loop.page /\ loop'.frame = loop.frame
<1>1. /\ stage = "segment" /\ stage' = stage /\ ctx' = ctx /\ regions' = regions /\ managed' = managed
      /\ image' = image /\ seg' = seg /\ LoopOn /\ loop.n < Pages(Header)
      /\ m' = vmap(m, loop.page + loop.n, loop.frame + loop.n, SegmentFlags(Header))
  BY DEF SegmentPage
<1>2. Pages(Header) \in Nat
  BY <1>1, HeaderIn DEF FrameInv, LoopOwns
<1>3. loop.frame + loop.n \in m.held
  BY <1>1, <1>2 DEF FrameInv, LoopOwns
<1>4. UseOK(m', ctx, DescsOf(regions), managed) /\ Vmapped(m, m', loop.page + loop.n, loop.frame + loop.n)
  BY <1>1, <1>3, UseVmap DEF FrameInv
<1>5. /\ loop' = [page |-> loop'.page, frame |-> loop'.frame, n |-> loop'.n] /\ loop'.n = loop.n + 1
      /\ loop'.page = loop.page /\ loop'.frame = loop.frame
  BY <1>1, LoopOnFacts DEF FrameInv
<1>6. LoopOwns'
  <2>1. Header' = Header /\ Pages(Header)' = Pages(Header)
    BY <1>1 DEF Header, Pages, First
  <2>2. m'.held = m.held
    BY <1>4 DEF Vmapped
  <2> QED
    BY <1>1, <1>5, <2>1, <2>2 DEF FrameInv, LoopOwns
<1>7. FrameInv'
  BY <1>1, <1>4, <1>6, KeepFrames
<1> QED
  BY <1>4, <1>5, <1>7

LEMMA SegmentCopiedFrames == FrameInv /\ SegmentCopied => FrameInv'
<1> SUFFICES ASSUME FrameInv, SegmentCopied PROVE FrameInv'
  OBVIOUS
<1>1. /\ stage = "segment" /\ stage' = "load" /\ ctx' = ctx /\ regions' = regions /\ managed' = managed
      /\ image' = image /\ seg' = seg + 1 /\ loop' = NoLoop
      /\ \E d : m' = [m EXCEPT !.data = d]
  BY DEF SegmentCopied, Filled
<1>2. UseOK(m', ctx, DescsOf(regions), managed)
  BY <1>1, UseData DEF FrameInv
<1>3. LoopOwns'
  BY <1>1 DEF FrameInv, LoopOwns, NoLoop
<1> QED
  BY <1>1, <1>2, <1>3, KeepFrames

\* The place valloc finds for the stack.
LEMMA StackRegionFacts ==
    ASSUME FrameInv, StackRegion
    PROVE  \E b \in DOMAIN regions, g \in m.avail :
             /\ Fits(b) /\ \A j \in 1 .. b - 1 : ~ Fits(j)
             /\ m' = Taken(m, {g}) /\ UseOK(m', ctx, DescsOf(regions) \cup {g}, managed)
             /\ loop' = [page |-> EndOf(regions[b]), frame |-> 0, n |-> 0]
             /\ Inserted(regions, regions', b, Region(EndOf(regions[b]), StackSize, StackFlags, g))
<1>1. PICK g : g = palloc(m, 1)
  OBVIOUS
<1>2. g \in m.avail
  BY <1>1, PallocOne DEF StackRegion, FrameInv, UseOK
<1>3. PICK b \in DOMAIN regions :
         /\ Fits(b) /\ \A j \in 1 .. b - 1 : ~ Fits(j)
         /\ regions' = Linked(b, Region(EndOf(regions[b]), StackSize, StackFlags, g))
         /\ loop' = [page |-> EndOf(regions[b]), frame |-> 0, n |-> 0]
  BY <1>1 DEF StackRegion
<1>4. m' = Taken(m, {g})
  BY <1>1 DEF StackRegion
<1>5. UseOK(m', ctx, DescsOf(regions) \cup {g}, managed)
  BY <1>2, <1>4, UseDesc DEF FrameInv
<1>6. regions \in Seq(Range(regions)) /\ b \in 1 .. Len(regions)
  BY <1>3, RangeSeq DEF FrameInv, ListOK
<1>7. Inserted(regions, regions', b, Region(EndOf(regions[b]), StackSize, StackFlags, g))
  BY <1>3, <1>6, LinkedInserts
<1> QED
  BY <1>2, <1>3, <1>4, <1>5, <1>7

LEMMA StackRegionFrames == FrameInv /\ StackRegion => FrameInv'
<1> SUFFICES ASSUME FrameInv, StackRegion PROVE FrameInv'
  OBVIOUS
<1>1. PICK b \in DOMAIN regions, g \in m.avail :
             /\ UseOK(m', ctx, DescsOf(regions) \cup {g}, managed)
             /\ loop' = [page |-> EndOf(regions[b]), frame |-> 0, n |-> 0]
             /\ Inserted(regions, regions', b, Region(EndOf(regions[b]), StackSize, StackFlags, g))
  BY StackRegionFacts
<1>2. PICK r : r = Region(EndOf(regions[b]), StackSize, StackFlags, g)
  OBVIOUS
<1>3. r.desc = g /\ g \notin DescsOf(regions)
  BY <1>2 DEF Region, FrameInv, UseOK
<1>4. ListOK(regions') /\ DescsOf(regions') = DescsOf(regions) \cup {g}
  BY <1>1, <1>2, <1>3, InsertedList DEF FrameInv
<1>5. ctx' = ctx /\ managed' = managed /\ image' = image /\ seg' = seg /\ stage = "spawn" /\ stage' = "stack"
  BY DEF StackRegion
<1>6. LoopOwns'
  BY <1>1, <1>5 DEF FrameInv, LoopOwns
<1>7. HasContext'
  BY <1>5 DEF FrameInv, HasContext
<1> QED
  BY <1>1, <1>4, <1>5, <1>6, <1>7 DEF FrameInv

LEMMA StackPageFrames ==
    ASSUME FrameInv, StackPage
    PROVE  /\ FrameInv'
           /\ \E f \in m.avail : \E s : /\ s = [Taken(m, {f}) EXCEPT !.held = @ \cup {f}]
                                       /\ Vmapped(s, m', loop.page + loop.n, f)
           /\ loop'.n = loop.n + 1 /\ loop'.page = loop.page /\ loop'.frame = loop.frame
<1>1. /\ stage = "stack" /\ stage' = stage /\ ctx' = ctx /\ regions' = regions /\ managed' = managed
      /\ image' = image /\ seg' = seg /\ LoopOn
  BY DEF StackPage
<1>2. PICK f : f = palloc(m, 1)
  OBVIOUS
<1>3. f \in m.avail
  BY <1>2, PallocOne DEF StackPage, FrameInv, UseOK
<1>4. PICK s : s = [Taken(m, {f}) EXCEPT !.held = @ \cup {f}]
  OBVIOUS
<1>5. m' = vmap(s, loop.page + loop.n, f, StackFlags)
  BY <1>2, <1>4 DEF StackPage
<1>6. UseOK(s, ctx, DescsOf(regions), managed)
  BY <1>3, <1>4, UseHold DEF FrameInv
<1>7. f \in s.held
  BY <1>4 DEF FrameInv, UseOK, IsMemory, Taken
<1>8. UseOK(m', ctx, DescsOf(regions), managed) /\ Vmapped(s, m', loop.page + loop.n, f)
  BY <1>5, <1>6, <1>7, UseVmap
<1>9. /\ loop' = [page |-> loop'.page, frame |-> loop'.frame, n |-> loop'.n] /\ loop'.n = loop.n + 1
      /\ loop'.page = loop.page /\ loop'.frame = loop.frame
  BY <1>1, LoopOnFacts DEF FrameInv
<1>10. LoopOwns'
  BY <1>1, <1>9 DEF FrameInv, LoopOwns
<1>11. FrameInv'
  BY <1>1, <1>8, <1>10, KeepFrames
<1> QED
  BY <1>3, <1>4, <1>8, <1>9, <1>11

LEMMA KernelPageFrames ==
    ASSUME FrameInv, KernelPage
    PROVE  /\ FrameInv' /\ Vmapped(m, m', KMap[loop.n + 1].page, KMap[loop.n + 1].frame)
           /\ loop'.n = loop.n + 1 /\ loop'.page = loop.page /\ loop'.frame = loop.frame
<1>1. /\ stage = "kernel" /\ stage' = stage /\ ctx' = ctx /\ regions' = regions /\ managed' = managed
      /\ image' = image /\ seg' = seg /\ LoopOn /\ loop.n < Len(KMap)
      /\ m' = vmap(m, KMap[loop.n + 1].page, KMap[loop.n + 1].frame, map_flags)
  BY DEF KernelPage
<1>2. KMap[loop.n + 1].frame \in KFrames
  BY <1>1, KernelFacts DEF FrameInv, LoopOwns
<1>3. /\ UseOK(m', ctx, DescsOf(regions), managed)
      /\ Vmapped(m, m', KMap[loop.n + 1].page, KMap[loop.n + 1].frame)
  BY <1>1, <1>2, UseVmap DEF FrameInv
<1>4. /\ loop' = [page |-> loop'.page, frame |-> loop'.frame, n |-> loop'.n] /\ loop'.n = loop.n + 1
      /\ loop'.page = loop.page /\ loop'.frame = loop.frame
  BY <1>1, LoopOnFacts DEF FrameInv
<1>5. LoopOwns'
  BY <1>1, <1>4 DEF FrameInv, LoopOwns
<1>6. FrameInv'
  BY <1>1, <1>3, <1>5, KeepFrames
<1> QED
  BY <1>3, <1>4, <1>6

LEMMA CopyFrames ==
    ASSUME FrameInv, NEW op, NEW a, NEW n, Copy(op, a, n)
    PROVE  FrameInv'
<1>1. /\ stage = "user" /\ stage' \in {"user", "fault"} /\ ctx' = ctx /\ regions' = regions /\ managed' = managed
      /\ image' = image /\ seg' = seg /\ loop' = loop
      /\ m' = m \/ \E d : m' = [m EXCEPT !.data = d]
  BY DEF Copy
<1>2. UseOK(m', ctx, DescsOf(regions), managed)
  BY <1>1, UseData DEF FrameInv
<1>3. LoopOwns'
  BY <1>1 DEF FrameInv, LoopOwns
<1> QED
  BY <1>1, <1>2, <1>3, KeepFrames

LEMMA ReapFrames == FrameInv /\ Reap => FrameInv'
<1> SUFFICES ASSUME FrameInv, Reap PROVE FrameInv'
  OBVIOUS
<1>1. PICK a \in managed, b \in managed : a < b /\ ctx = {a, b}
  BY DEF FrameInv, Reap, HasContext
<1>2. a \in Nat /\ b \in Nat
  BY DEF FrameInv, UseOK
<1>3. Max(ctx) = b /\ Min(ctx) = a
  <2>1. ctx \in SUBSET (0 .. b) /\ ctx \in SUBSET Nat /\ ctx # {}
    BY <1>1, <1>2
  <2>2. Max(ctx) \in ctx /\ \A y \in ctx : y <= Max(ctx)
    BY <2>1, <1>2, MaxFacts
  <2>3. Min(ctx) \in ctx /\ \A y \in ctx : Min(ctx) <= y
    BY <2>1, MinFacts
  <2> QED
    BY <2>2, <2>3, <1>1, <1>2
<1>4. PICK D : D = DescsOf(regions)
  OBVIOUS
<1>5. PICK pcb \in SUBSET KPages :
         m' = [Freed(m, D \cup {b}) EXCEPT !.map = Restrict(@, DOMAIN @ \ pcb)]
  BY <1>3, <1>4 DEF Reap, DescsOf
<1>6. /\ IsMemory(m') /\ m'.avail = m.avail \cup (D \cup {b}) /\ m'.tables = m.tables /\ m'.held = m.held
      /\ m'.map = Restrict(m.map, DOMAIN m.map \ pcb)
  BY <1>5 DEF FrameInv, UseOK, IsMemory, Freed
<1>7. DOMAIN m'.map \subseteq DOMAIN m.map /\ \A p \in DOMAIN m'.map : m'.map[p] = m.map[p]
  BY <1>6 DEF Restrict
<1>8. /\ ctx' = {a} /\ regions' = <<>> /\ managed' = managed /\ image' = image /\ seg' = seg /\ loop' = loop
      /\ stage' = "reaped"
  BY <1>3 DEF Reap
<1>9. ListOK(regions') /\ DescsOf(regions') = {}
  BY <1>8 DEF ListOK, DescsOf, Range
<1>10. UseOK(m', {a}, {}, managed)
  <2>1. UseOK(m, {a, b}, D, managed)
    BY <1>1, <1>4 DEF FrameInv
  <2>2. Range(m'.tables) = Range(m.tables) /\ a # b
    BY <1>1, <1>2, <1>6
  <2>3. \A p \in DOMAIN m'.map : m'.map[p].to \in m'.held \cup KFrames
    BY <2>1, <1>6, <1>7 DEF UseOK
  <2> QED
    BY <2>1, <2>2, <2>3, <1>6 DEF UseOK
<1>11. LoopOwns'
  BY <1>8 DEF FrameInv, LoopOwns
<1> QED
  BY <1>8, <1>9, <1>10, <1>11 DEF FrameInv

LEMMA NextFrames == FrameInv /\ [Next]_vars => FrameInv'
<1> SUFFICES ASSUME FrameInv, [Next]_vars PROVE FrameInv'
  OBVIOUS
<1>1. CASE UNCHANGED vars
  BY <1>1 DEF vars, FrameInv, LoopOwns, HasContext, Header, Pages, First
<1>2. CASE \E op \in {"from", "to"}, a \in Addresses, n \in Lengths : Copy(op, a, n)
  BY <1>2, CopyFrames
<1> QED
  BY <1>1, <1>2, VinitFrames, QuietFrames, LoadSegmentFrames, SegmentPageFrames, SegmentCopiedFrames,
     StackRegionFrames, StackPageFrames, KernelPageFrames, ReapFrames DEF Next

----------------------------------------------------------------------------
(***************************************************************************)
(* The layout of the address space                                         *)
(***************************************************************************)
SegPages(h) == First(h) .. First(h) + Pages(h) - 1
SegRegion(r, h) == r.start = First(h) /\ r.pages = Pages(h) /\ r.flags = SegmentFlags(h)
RootRegion(r) == r.start = Start /\ r.pages = 0 /\ r.flags = {}
StackRegionOf(r) == r.start = Start /\ r.pages = StackSize /\ r.flags = StackFlags

\* R has a region for every segment of im in K, from the highest down, then the
\* root and, once placed, the stack; segments do not share pages.
Layout(R, K, im, placed) ==
    /\ K \subseteq 1 .. Len(im.ph)
    /\ \A k, l \in K : k < l => First(im.ph[k]) + Pages(im.ph[k]) <= First(im.ph[l])
    /\ \A j \in DOMAIN R : \/ RootRegion(R[j])
                           \/ placed /\ StackRegionOf(R[j])
                           \/ \E k \in K : SegRegion(R[j], im.ph[k])
    /\ \A k \in K : \E j \in DOMAIN R : SegRegion(R[j], im.ph[k])
    /\ \A i, j \in DOMAIN R : i < j => \/ EndOf(R[j]) <= R[i].start
                                       \/ placed /\ j = Len(R) /\ RootRegion(R[i])
    /\ ~ placed => Len(R) > 0 /\ RootRegion(R[Len(R)])

LEMMA LayoutTypes ==
    ASSUME NEW im \in Images, NEW R, NEW K, NEW placed, Layout(R, K, im, placed)
    PROVE  /\ \A k \in K : k \in 1 .. Len(im.ph) /\ im.ph[k] \in Headers
           /\ \A j \in DOMAIN R : R[j].start \in Nat /\ R[j].pages \in Nat
<1>1. \A k \in K : k \in 1 .. Len(im.ph) /\ im.ph[k] \in Headers
  BY HeaderFacts DEF Layout
<1>2. \A k \in K : First(im.ph[k]) \in Nat /\ Pages(im.ph[k]) \in Nat
  BY <1>1, SegTypes
<1>3. Start \in Nat /\ StackSize \in Nat
  BY SpacesAssumption
<1>4. ASSUME NEW j \in DOMAIN R PROVE R[j].start \in Nat /\ R[j].pages \in Nat
  <2>1. CASE RootRegion(R[j])
    BY <2>1, <1>3 DEF RootRegion
  <2>2. CASE StackRegionOf(R[j])
    BY <2>2, <1>3 DEF StackRegionOf
  <2>3. CASE \E k \in K : SegRegion(R[j], im.ph[k])
    BY <2>3, <1>2 DEF SegRegion
  <2> QED
    BY <2>1, <2>2, <2>3 DEF Layout
<1> QED
  BY <1>1, <1>4

\* vadd puts a segment in front: the earlier ones are below it.
LEMMA LayoutSegment ==
    ASSUME NEW im \in Images, NEW R, R \in Seq(Range(R)), NEW K, Layout(R, K, im, FALSE),
           NEW k \in 1 .. Len(im.ph), \A l \in K : l < k,
           \A r \in Range(R) : ~ Overlaps(First(im.ph[k]), First(im.ph[k]) + Pages(im.ph[k]), r),
           NEW d, NEW R2, Inserted(R, R2, 0, Region(First(im.ph[k]), Pages(im.ph[k]), SegmentFlags(im.ph[k]), d))
    PROVE  Layout(R2, K \cup {k}, im, FALSE)
<1>1. PICK h : h = im.ph[k]
  OBVIOUS
<1>2. PICK r : r = Region(First(h), Pages(h), SegmentFlags(h), d)
  OBVIOUS
<1>3. h \in Headers /\ First(h) \in Nat /\ Pages(h) \in Nat /\ First(h) >= Start /\ Start \in Nat
  <2>1. h \in Headers
    BY <1>1, HeaderFacts
  <2> QED
    BY <2>1, PagesFacts, SpacesAssumption
<1>4. r.start = First(h) /\ r.pages = Pages(h) /\ SegRegion(r, h)
  BY <1>2 DEF Region, SegRegion
<1>5. /\ DOMAIN R2 = 1 .. Len(R) + 1 /\ DOMAIN R = 1 .. Len(R) /\ Len(R) \in Nat
      /\ \A i \in DOMAIN R2 : \/ i = 1 /\ R2[i] = r
                              \/ i > 1 /\ i - 1 \in DOMAIN R /\ R2[i] = R[i - 1]
  <2>1. Inserted(R, R2, 0, r)
    BY <1>1, <1>2
  <2>2. /\ DOMAIN R2 = 1 .. Len(R) + 1 /\ DOMAIN R = 1 .. Len(R) /\ Len(R) \in Nat
        /\ \A i \in DOMAIN R2 : \/ i = 0 + 1 /\ R2[i] = r
                                \/ i <= 0 /\ i \in DOMAIN R /\ R2[i] = R[i]
                                \/ i > 0 + 1 /\ i - 1 \in DOMAIN R /\ R2[i] = R[i - 1]
    BY <2>1, InsertedFacts
  <2> QED
    BY <2>2
<1>6. R2[1] = r /\ Len(R2) = Len(R) + 1 /\ \A j \in DOMAIN R : j + 1 \in DOMAIN R2 /\ R2[j + 1] = R[j]
  BY <1>1, <1>2, <1>5 DEF Inserted
<1>7. ASSUME NEW l \in K PROVE First(im.ph[l]) + Pages(im.ph[l]) <= First(h)
  <2>1. PICK j \in DOMAIN R : SegRegion(R[j], im.ph[l])
    BY DEF Layout
  <2>2. im.ph[l] \in Headers /\ l \in 1 .. Len(im.ph) /\ l < k
    BY LayoutTypes
  <2>3. First(im.ph[l]) \in Nat /\ Pages(im.ph[l]) \in Nat \ {0}
    BY <2>2, SegTypes
  <2>4. First(im.ph[l]) <= First(h)
    <3>1. im.ph[l].vaddr <= h.vaddr /\ im.ph[l].vaddr \in Nat /\ h.vaddr \in Nat
      <4>1. im.ph[l].vaddr \in Nat /\ h.vaddr \in Nat
        BY <2>2, <1>3, SpacesAssumption
      <4>2. DOMAIN im.ph = 1 .. Len(im.ph)
        BY HeaderFacts
      <4>3. im.ph[l].vaddr <= im.ph[k].vaddr
        BY <2>2, <4>2, SpacesAssumption
      <4> QED
        BY <4>1, <4>3, <1>1
    <3>2. PICK P \in Nat \ {0} : P = PageSize
      BY SpacesAssumption
    <3>3. PICK x \in Nat, y \in Nat : x = First(im.ph[l]) /\ y = First(h)
      BY <2>3, <1>3
    <3>4. x * P <= im.ph[l].vaddr /\ h.vaddr < (y + 1) * P
      BY <3>1, <3>2, <3>3, DivFacts DEF First
    <3>5. x * P < (y + 1) * P
      <4>1. x * P \in Nat /\ (y + 1) * P \in Nat
        OBVIOUS
      <4>2. PICK u \in Nat, w \in Nat : u = x * P /\ w = (y + 1) * P
        BY <4>1
      <4>3. u <= im.ph[l].vaddr /\ h.vaddr < w
        BY <3>4, <4>2
      <4>4. u < w
        BY <3>1, <4>3
      <4> QED
        BY <4>2, <4>4
    <3>6. x < y + 1
      BY <3>5
    <3> QED
      BY <3>3, <3>6
  <2>5. R[j] \in Range(R)
    BY DEF Range
  <2>6. ~ (R[j].start <= First(h) /\ First(h) < EndOf(R[j]))
    BY <2>5, <1>1 DEF Overlaps
  <2> QED
    BY <2>1, <2>3, <2>4, <2>6, <1>3 DEF SegRegion, EndOf
<1>8. ASSUME NEW j \in DOMAIN R PROVE EndOf(R[j]) <= First(h)
  <2>1. CASE RootRegion(R[j])
    BY <2>1, <1>3 DEF RootRegion, EndOf
  <2>2. CASE \E l \in K : SegRegion(R[j], im.ph[l])
    BY <2>2, <1>7 DEF SegRegion, EndOf
  <2> QED
    BY <2>1, <2>2 DEF Layout
<1>9. K \cup {k} \subseteq 1 .. Len(im.ph)
  BY DEF Layout
<1>10. ASSUME NEW x \in K \cup {k}, NEW y \in K \cup {k}, x < y
       PROVE  First(im.ph[x]) + Pages(im.ph[x]) <= First(im.ph[y])
  <2>1. x \in K
    BY <1>9, <1>10, HeaderFacts
  <2>2. CASE y = k
    BY <2>1, <2>2, <1>1, <1>7
  <2>3. CASE y \in K
    BY <2>1, <2>3, <1>10 DEF Layout
  <2> QED
    BY <2>2, <2>3
<1>11. ASSUME NEW j \in DOMAIN R2
       PROVE  RootRegion(R2[j]) \/ \E l \in K \cup {k} : SegRegion(R2[j], im.ph[l])
  BY <1>1, <1>4, <1>5 DEF Layout
<1>12. ASSUME NEW l \in K \cup {k} PROVE \E j \in DOMAIN R2 : SegRegion(R2[j], im.ph[l])
  <2>1. CASE l = k
    <3>1. 1 \in DOMAIN R2 /\ SegRegion(R2[1], im.ph[l])
      BY <2>1, <1>1, <1>4, <1>5, <1>6
    <3> QED
      BY <3>1
  <2>2. CASE l \in K
    BY <2>2, <1>6 DEF Layout
  <2> QED
    BY <2>1, <2>2
<1>13. ASSUME NEW i \in DOMAIN R2, NEW j \in DOMAIN R2, i < j PROVE EndOf(R2[j]) <= R2[i].start
  <2>1. j > 1 /\ j - 1 \in DOMAIN R /\ R2[j] = R[j - 1]
    BY <1>5, <1>13
  <2>2. CASE i = 1
    BY <2>1, <2>2, <1>4, <1>6, <1>8
  <2>3. CASE i > 1
    <3>1. i - 1 \in DOMAIN R /\ R2[i] = R[i - 1] /\ i - 1 < j - 1
      BY <2>3, <1>5, <1>13
    <3> QED
      BY <2>1, <3>1 DEF Layout
  <2> QED
    BY <2>2, <2>3, <1>5
<1>14. Len(R2) > 0 /\ RootRegion(R2[Len(R2)])
  <2>1. Len(R) > 0 /\ RootRegion(R[Len(R)]) /\ Len(R) \in DOMAIN R
    BY <1>5 DEF Layout
  <2> QED
    BY <2>1, <1>5, <1>6
<1> QED
  BY <1>9, <1>10, <1>11, <1>12, <1>13, <1>14 DEF Layout

\* Only behind the root, at the end, is there room for valloc.
LEMMA RoomAtEnd ==
    ASSUME NEW im \in Images, regions \in Seq(Range(regions)), NEW K, Layout(regions, K, im, FALSE),
           NEW b \in DOMAIN regions, Fits(b)
    PROVE  b = Len(regions) /\ RootRegion(regions[b]) /\ EndOf(regions[b]) = Start
<1>1. DOMAIN regions = 1 .. Len(regions) /\ Len(regions) \in Nat
  BY RangeSeq
<1>2. ASSUME b < Len(regions) PROVE FALSE
  <2>1. b + 1 \in DOMAIN regions
    BY <1>1, <1>2
  <2>2. EndOf(regions[b + 1]) <= regions[b].start
    BY <1>1, <2>1 DEF Layout
  <2>3. /\ regions[b].start \in Nat /\ regions[b].pages \in Nat
        /\ regions[b + 1].start \in Nat /\ regions[b + 1].pages \in Nat
    BY <2>1, LayoutTypes
  <2> QED
    BY <1>2, <2>2, <2>3 DEF Fits, EndOf
<1>3. b = Len(regions)
  BY <1>1, <1>2
<1>4. RootRegion(regions[b]) /\ Start \in Nat
  BY <1>3, SpacesAssumption DEF Layout
<1> QED
  BY <1>3, <1>4 DEF RootRegion, EndOf

LEMMA LayoutStack ==
    ASSUME NEW im \in Images, NEW R, R \in Seq(Range(R)), NEW K, Layout(R, K, im, FALSE),
           NEW d, NEW R2, Inserted(R, R2, Len(R), Region(Start, StackSize, StackFlags, d))
    PROVE  Layout(R2, K, im, TRUE)
<1>1. PICK r : r = Region(Start, StackSize, StackFlags, d)
  OBVIOUS
<1>2. StackRegionOf(r) /\ Start \in Nat /\ StackSize \in Nat /\ EndOf(r) = Start + StackSize
  BY <1>1, SpacesAssumption DEF Region, StackRegionOf, EndOf
<1>3. /\ DOMAIN R2 = 1 .. Len(R) + 1 /\ DOMAIN R = 1 .. Len(R) /\ Len(R) \in Nat
      /\ \A i \in DOMAIN R2 : \/ i = Len(R) + 1 /\ R2[i] = r
                              \/ i <= Len(R) /\ i \in DOMAIN R /\ R2[i] = R[i]
                              \/ i > Len(R) + 1 /\ i - 1 \in DOMAIN R /\ R2[i] = R[i - 1]
  BY <1>1, InsertedFacts
<1>4. ASSUME NEW i \in DOMAIN R2 PROVE (i = Len(R) + 1 /\ R2[i] = r) \/ (i \in DOMAIN R /\ R2[i] = R[i])
  <2>1. i <= Len(R) + 1 /\ i \in Nat
    BY <1>3
  <2> QED
    BY <2>1, <1>3
<1>5. Len(R2) = Len(R) + 1 /\ \A j \in DOMAIN R : j \in DOMAIN R2 /\ R2[j] = R[j]
  BY <1>1, <1>3 DEF Inserted
<1>6. ASSUME NEW i \in DOMAIN R2, NEW j \in DOMAIN R2, i < j
      PROVE  EndOf(R2[j]) <= R2[i].start \/ (j = Len(R2) /\ RootRegion(R2[i]))
  <2>1. i \in DOMAIN R /\ R2[i] = R[i]
    BY <1>3, <1>4, <1>6
  <2>2. CASE j \in DOMAIN R /\ R2[j] = R[j]
    BY <2>1, <2>2, <1>6 DEF Layout
  <2>3. CASE j = Len(R) + 1 /\ R2[j] = r
    <3>1. CASE RootRegion(R[i])
      BY <2>1, <2>3, <3>1, <1>5
    <3>2. CASE \E k \in K : SegRegion(R[i], im.ph[k])
      <4>1. PICK k \in K : SegRegion(R[i], im.ph[k])
        BY <3>2
      <4>2. First(im.ph[k]) >= Start + StackSize
        BY LayoutTypes, PagesFacts
      <4> QED
        BY <2>1, <2>3, <4>1, <4>2, <1>2 DEF SegRegion
    <3> QED
      BY <2>1, <3>1, <3>2 DEF Layout
  <2> QED
    BY <2>2, <2>3, <1>4
<1>7. ASSUME NEW j \in DOMAIN R2
      PROVE  RootRegion(R2[j]) \/ StackRegionOf(R2[j]) \/ \E k \in K : SegRegion(R2[j], im.ph[k])
  BY <1>2, <1>4 DEF Layout
<1>8. \A k \in K : \E j \in DOMAIN R2 : SegRegion(R2[j], im.ph[k])
  BY <1>5 DEF Layout
<1> QED
  BY <1>6, <1>7, <1>8 DEF Layout

----------------------------------------------------------------------------
(***************************************************************************)
(* What a copy may touch                                                   *)
(***************************************************************************)
\* Address a is in a segment of K, a writable one if it is written to.
May(op, a, K, im) ==
    \E k \in K : a \div PageSize \in SegPages(im.ph[k]) /\ (op = "to" => VALLOC_WRITE \in im.ph[k].flags)

\* VMM_USER is what tells segments from the stack.
LEMMA FlagFacts ==
    /\ VMM_USER \notin StackFlags
    /\ \A h : VMM_USER \in SegmentFlags(h) /\ (VMM_WRITE \in SegmentFlags(h) <=> VALLOC_WRITE \in h.flags)
<1>1. VMM_USER \notin StackFlags
  BY DEF StackFlags, map_flags, VFLAGS_TO_PFLAGS, VALLOC_WRITE, VALLOC_USER, VALLOC_EXEC, VMM_PRESENT, VMM_WRITE,
         VMM_USER, VMM_NX
<1>2. ASSUME NEW h
      PROVE  VMM_USER \in SegmentFlags(h) /\ (VMM_WRITE \in SegmentFlags(h) <=> VALLOC_WRITE \in h.flags)
  <2>1. PICK fl : fl = {VALLOC_READ, VALLOC_USER} \cup h.flags
    OBVIOUS
  <2>2. VALLOC_USER \in fl /\ (VALLOC_WRITE \in fl <=> VALLOC_WRITE \in h.flags)
    BY <2>1 DEF VALLOC_READ, VALLOC_USER, VALLOC_WRITE
  <2>3. SegmentFlags(h) = VFLAGS_TO_PFLAGS(fl)
    BY <2>1 DEF SegmentFlags
  <2>4. \A x \in fl \cap {VALLOC_WRITE} : x = VALLOC_WRITE
    OBVIOUS
  <2>5. VMM_USER \in VFLAGS_TO_PFLAGS(fl)
    BY <2>2 DEF VFLAGS_TO_PFLAGS
  <2>6. VMM_WRITE \in VFLAGS_TO_PFLAGS(fl) <=> VALLOC_WRITE \in fl
    BY <2>4 DEF VFLAGS_TO_PFLAGS, VMM_WRITE, VMM_USER, VMM_PRESENT, VMM_NX
  <2> QED
    BY <2>2, <2>3, <2>5, <2>6
<1> QED
  BY <1>1, <1>2

\* vget and the flags let a copy into segments, and nowhere else.
LEMMA AllowedFacts ==
    ASSUME image \in Images, regions \in Seq(Range(regions)), NEW K, Layout(regions, K, image, TRUE),
           NEW op \in {"from", "to"}, NEW a \in Nat
    PROVE  Allowed(op, a) <=> May(op, a, K, image)
<1> DEFINE In(j) == a \div PageSize \in regions[j].start .. EndOf(regions[j]) - 1
<1>1. DOMAIN regions = 1 .. Len(regions) /\ Len(regions) \in Nat
  BY RangeSeq
<1>2. PICK p \in Nat : p = a \div PageSize
  BY SpacesAssumption, DivFacts
<1>3. \A j \in DOMAIN regions : regions[j].start \in Nat /\ regions[j].pages \in Nat
  BY LayoutTypes
<1>4. \A k \in K : First(image.ph[k]) \in Nat /\ Pages(image.ph[k]) \in Nat
  BY LayoutTypes, SegTypes
<1>5. ASSUME NEW j \in DOMAIN regions, In(j) PROVE ~ RootRegion(regions[j])
  BY <1>2, <1>3, <1>5 DEF RootRegion, EndOf
<1>6. ASSUME NEW i \in DOMAIN regions, NEW j \in DOMAIN regions, i < j, In(i), In(j) PROVE FALSE
  <2>1. EndOf(regions[j]) <= regions[i].start
    BY <1>5, <1>6 DEF Layout
  <2>2. p >= regions[i].start /\ p < EndOf(regions[j])
    BY <1>2, <1>3, <1>6 DEF EndOf
  <2> QED
    BY <2>1, <2>2, <1>2, <1>3 DEF EndOf
<1>7. ASSUME NEW r \in vget(a) PROVE \E j \in DOMAIN regions : In(j) /\ r = regions[j]
  BY DEF vget
<1>8. ASSUME NEW j \in DOMAIN regions, In(j) PROVE regions[j] \in vget(a)
  <2>1. \A i \in 1 .. j - 1 : ~ In(i)
    BY <1>1, <1>6, <1>8
  <2> QED
    BY <2>1, <1>8 DEF vget
<1>9. ASSUME NEW j \in DOMAIN regions, NEW k \in K, SegRegion(regions[j], image.ph[k])
      PROVE  In(j) <=> a \div PageSize \in SegPages(image.ph[k])
  <2>1. regions[j].start = First(image.ph[k]) /\ regions[j].pages = Pages(image.ph[k])
    BY <1>9 DEF SegRegion
  <2>2. regions[j].start .. EndOf(regions[j]) - 1 = SegPages(image.ph[k])
    <3>1. EndOf(regions[j]) = First(image.ph[k]) + Pages(image.ph[k])
      BY <2>1 DEF EndOf
    <3> QED
      BY <2>1, <3>1, <1>4 DEF SegPages
  <2> QED
    BY <2>2
<1> HIDE DEF In
<1>10. ASSUME Allowed(op, a) PROVE May(op, a, K, image)
  <2>1. PICK r \in vget(a) : Needed(op) \subseteq r.flags
    BY <1>10 DEF Allowed
  <2>2. PICK j \in DOMAIN regions : In(j) /\ r = regions[j]
    BY <1>7
  <2>3. VMM_USER \in regions[j].flags /\ (op = "to" => VMM_WRITE \in regions[j].flags)
    BY <2>1, <2>2 DEF Needed
  <2>4. ~ StackRegionOf(regions[j]) /\ ~ RootRegion(regions[j])
    BY <2>2, <2>3, <1>5, FlagFacts DEF StackRegionOf
  <2>5. PICK k \in K : SegRegion(regions[j], image.ph[k])
    BY <2>4 DEF Layout
  <2>6. a \div PageSize \in SegPages(image.ph[k])
    BY <2>2, <2>5, <1>9
  <2>7. op = "to" => VALLOC_WRITE \in image.ph[k].flags
    BY <2>3, <2>5, FlagFacts DEF SegRegion
  <2> QED
    BY <2>6, <2>7 DEF May
<1>11. ASSUME May(op, a, K, image) PROVE Allowed(op, a)
  <2>1. PICK k \in K : /\ a \div PageSize \in SegPages(image.ph[k])
                       /\ op = "to" => VALLOC_WRITE \in image.ph[k].flags
    BY <1>11 DEF May
  <2>2. PICK j \in DOMAIN regions : SegRegion(regions[j], image.ph[k])
    BY DEF Layout
  <2>3. regions[j] \in vget(a)
    BY <2>1, <2>2, <1>8, <1>9
  <2>4. Needed(op) \subseteq regions[j].flags
    BY <2>1, <2>2, FlagFacts DEF Needed, SegRegion
  <2> QED
    BY <2>3, <2>4 DEF Allowed
<1> QED
  BY <1>10, <1>11

\* A copy ends before the first byte that is not allowed.
LEMMA CopiedFacts ==
    ASSUME NEW op, NEW a, NEW n \in Nat
    PROVE  /\ Copied(op, a, n) \in 0 .. n
           /\ \A j \in 0 .. Copied(op, a, n) - 1 : Allowed(op, a + j)
           /\ Copied(op, a, n) # n => ~ Allowed(op, a + Copied(op, a, n))
<1> DEFINE S == {k \in 0 .. n : \A j \in 0 .. k - 1 : Allowed(op, a + j)}
<1>1. S \in SUBSET (0 .. n) /\ 0 \in S
  OBVIOUS
<1>2. PICK c : c = Copied(op, a, n)
  OBVIOUS
<1>3. c = Max(S)
  BY <1>2 DEF Copied
<1> HIDE DEF S
<1>4. c \in S /\ \A k \in S : k <= c
  BY <1>1, <1>3, MaxFacts
<1>5. c \in 0 .. n /\ \A j \in 0 .. c - 1 : Allowed(op, a + j)
  BY <1>4 DEF S
<1>6. ASSUME c # n, Allowed(op, a + c) PROVE FALSE
  <2>1. c + 1 \in 0 .. n
    BY <1>5, <1>6
  <2>2. \A j \in 0 .. c : Allowed(op, a + j)
    BY <1>5, <1>6
  <2>3. PICK e : e = c + 1
    OBVIOUS
  <2>4. e \in 0 .. n /\ \A j \in 0 .. e - 1 : Allowed(op, a + j)
    BY <2>1, <2>2, <2>3, <1>5
  <2>5. e \in S
    BY <2>4 DEF S
  <2> QED
    BY <2>3, <2>5, <1>4, <1>5
<1> QED
  BY <1>2, <1>5, <1>6

----------------------------------------------------------------------------
(***************************************************************************)
(* What is mapped, and what it holds                                       *)
(***************************************************************************)
\* A page of the process is mapped once, and page 0 never.
MapOK(s, M) ==
    /\ DOMAIN s.data = M /\ DOMAIN s.map \subseteq Nat \ {0}
    /\ \A p, q \in DOMAIN s.map : s.map[p].to = s.map[q].to /\ s.map[p].to \in s.held => p = q

\* What byte b of page p of a segment is.
Want(h, p, b) ==
    LET n == p * PageSize + b - h.vaddr
    IN  IF n \in 0 .. h.filesz - 1 THEN FileByte(h.offset + n) ELSE Zero

Right(s, h, p) ==
    /\ p \in DOMAIN s.map /\ s.map[p].to \in s.held
    /\ \A b \in 0 .. PageSize - 1 : \/ s.data[s.map[p].to][b] = Want(h, p, b)
                                    \/ s.data[s.map[p].to][b] = Kernel /\ VALLOC_WRITE \in h.flags

\* The segments of im in K are in memory.
ImageOK(s, K, im) == \A k \in K : \A p \in SegPages(im.ph[k]) : Right(s, im.ph[k], p)

\* The first n pages of the kernel's regions are mapped.
KernelOK(s, n) == \A i \in 1 .. n : KMap[i].page \in DOMAIN s.map /\ s.map[KMap[i].page].to = KMap[i].frame

LEMMA MapVmap ==
    ASSUME NEW s, NEW r, NEW M, MapOK(s, M), NEW page \in Nat \ {0}, NEW frame, Vmapped(s, r, page, frame),
           frame \in s.held => \A q \in DOMAIN s.map : s.map[q].to # frame
    PROVE  MapOK(r, M)
<1>1. \A q \in DOMAIN r.map : \/ q = page /\ r.map[q].to = frame
                              \/ q \in DOMAIN s.map /\ r.map[q] = s.map[q]
  BY DEF Vmapped
<1>2. r.held = s.held /\ r.data = s.data
  BY DEF Vmapped
<1>3. ASSUME NEW p \in DOMAIN r.map, NEW q \in DOMAIN r.map, r.map[p].to = r.map[q].to, r.map[p].to \in r.held
      PROVE  p = q
  BY <1>1, <1>2, <1>3 DEF MapOK
<1>4. DOMAIN r.map \subseteq Nat \ {0}
  BY <1>1 DEF MapOK
<1> QED
  BY <1>2, <1>3, <1>4 DEF MapOK

LEMMA ImageVmap ==
    ASSUME NEW s, NEW r, NEW K, NEW im, NEW page, NEW frame, Vmapped(s, r, page, frame),
           ImageOK(s, K, im), \A k \in K : page \notin SegPages(im.ph[k])
    PROVE  ImageOK(r, K, im)
<1>1. ASSUME NEW k \in K, NEW p \in SegPages(im.ph[k]) PROVE Right(r, im.ph[k], p)
  <2>1. Right(s, im.ph[k], p) /\ p # page
    BY DEF ImageOK
  <2>2. p \in DOMAIN r.map /\ r.map[p] = s.map[p]
    BY <2>1 DEF Right, Vmapped
  <2>3. r.held = s.held /\ r.data = s.data
    BY DEF Vmapped
  <2> QED
    BY <2>1, <2>2, <2>3 DEF Right
<1> QED
  BY <1>1 DEF ImageOK

\* The frames a segment or a page of the stack takes are mapped nowhere.
LEMMA FreshUnmapped ==
    ASSUME NEW s, NEW c, NEW D, NEW M, UseOK(s, c, D, M), NEW f \in s.avail, NEW q \in DOMAIN s.map
    PROVE  s.map[q].to # f
BY DEF UseOK

\* Memory that is taken is not mapped yet.
LEMMA TakenImage ==
    ASSUME NEW s, NEW r, r.map = s.map, r.data = s.data, s.held \subseteq r.held, NEW K, NEW im, ImageOK(s, K, im)
    PROVE  ImageOK(r, K, im)
BY DEF ImageOK, Right

LEMMA TakenMap ==
    ASSUME NEW s, NEW c, NEW D, NEW M, UseOK(s, c, D, M), MapOK(s, M),
           NEW F \in SUBSET s.avail, NEW r, r.map = s.map, r.data = s.data, r.held = s.held \cup F
    PROVE  MapOK(r, M)
<1>1. ASSUME NEW p \in DOMAIN r.map, NEW q \in DOMAIN r.map, r.map[p].to = r.map[q].to, r.map[p].to \in r.held
      PROVE  p = q
  <2>1. r.map[p].to \notin F
    BY FreshUnmapped
  <2> QED
    BY <1>1, <2>1 DEF MapOK
<1> QED
  BY <1>1 DEF MapOK

----------------------------------------------------------------------------
(***************************************************************************)
(* The address space through a process's life                              *)
(***************************************************************************)
\* Segments with a region.
Segs == Loaded \cup (IF stage = "segment" THEN {seg + 1} ELSE {})
Placed == stage \in {"stack", "kernel", "run", "user", "fault"}

LayoutInv == stage \notin {"vinit", "panic", "reaped"} => Layout(regions, Segs, image, Placed)

\* The frames of the segment that is mapped are mapped at their page, or not
\* yet.
LoopInv ==
    /\ stage = "segment" =>
         /\ Header.load /\ loop.page = First(Header) /\ loop.frame \in Nat /\ loop.n <= Pages(Header)
         /\ \A j \in 0 .. Pages(Header) - 1 : \A q \in DOMAIN m.map :
              m.map[q].to = loop.frame + j => q = loop.page + j /\ j < loop.n
         /\ ~ m.short => \A j \in 0 .. loop.n - 1 :
              loop.page + j \in DOMAIN m.map /\ m.map[loop.page + j].to = loop.frame + j
    /\ stage = "stack" => loop.page = Start

\* Pages of the kernel that are in the process's tree.
KernelDone ==
    IF stage = "kernel" THEN loop.n ELSE IF stage \in {"run", "user", "fault"} THEN Len(KMap) ELSE 0

MemInv ==
    /\ MapOK(m, managed)
    /\ ~ m.short /\ stage # "reaped" => ImageOK(m, Loaded, image) /\ KernelOK(m, KernelDone)

\* Only a module that is loaded completely has an entry, and only then a
\* process makes copies.
RunInv ==
    /\ seg <= Len(image.ph) /\ (stage = "vinit" => seg = 0)
    /\ rip # 0 => seg = Len(image.ph)
    /\ stage = "user" => rip # 0
    /\ stage \notin {"user", "fault", "reaped"} => copy = NoCopy

SpaceInv == LayoutInv /\ LoopInv /\ MemInv /\ RunInv /\ CopiesInside

LEMMA LoadedFacts ==
    ASSUME FrameInv, image' = image
    PROVE  /\ seg' = seg => Loaded' = Loaded
           /\ seg' = seg + 1 /\ ~ Header.load => Loaded' = Loaded
           /\ seg' = seg + 1 /\ Header.load => Loaded' = Loaded \cup {seg + 1}
           /\ \A k \in Loaded : k < seg + 1 /\ k \in Nat
           /\ stage # "segment" => Segs = Loaded
           /\ stage = "segment" => Segs = Loaded \cup {seg + 1}
<1>1. seg \in Nat
  BY DEF FrameInv, LoopOwns
<1>2. seg' = seg => Loaded' = Loaded
  BY DEF Loaded
<1>3. ASSUME seg' = seg + 1, NEW k
      PROVE  k \in Loaded' <=> k \in Loaded \/ (k = seg + 1 /\ image.ph[seg + 1].load)
  <2>1. k \in 1 .. seg + 1 <=> k \in 1 .. seg \/ k = seg + 1
    BY <1>1
  <2>2. k \in Loaded' <=> k \in 1 .. seg + 1 /\ image.ph[k].load
    BY <1>3 DEF Loaded
  <2>3. k \in Loaded <=> k \in 1 .. seg /\ image.ph[k].load
    BY DEF Loaded
  <2> QED
    BY <2>1, <2>2, <2>3
<1>4. \A k \in Loaded : k < seg + 1 /\ k \in Nat
  BY <1>1 DEF Loaded
<1> QED
  BY <1>2, <1>3, <1>4 DEF Header, Segs

\* The pages of a segment that is not the one being loaded are others.
LEMMA OtherPages ==
    ASSUME FrameInv, SpaceInv, stage = "segment", NEW k \in Loaded, NEW p \in SegPages(image.ph[k])
    PROVE  p \notin SegPages(Header)
<1>1. Layout(regions, Loaded \cup {seg + 1}, image, FALSE)
  <2>1. Segs = Loaded \cup {seg + 1} /\ Placed = FALSE
    BY DEF Segs, Placed
  <2> QED
    BY <2>1 DEF SpaceInv, LayoutInv
<1>2. k \in Nat /\ k < seg + 1
  BY DEF Loaded, FrameInv, LoopOwns
<1>3. First(image.ph[k]) + Pages(image.ph[k]) <= First(Header)
  BY <1>1, <1>2 DEF Layout, Header
<1>4. image \in Images
  BY DEF FrameInv, LoopOwns
<1>5. image.ph[k] \in Headers /\ Header \in Headers
  BY <1>1, <1>4, LayoutTypes DEF Header
<1>6. /\ First(image.ph[k]) \in Nat /\ Pages(image.ph[k]) \in Nat
      /\ First(Header) \in Nat /\ Pages(Header) \in Nat
  BY <1>5, SegTypes
<1> QED
  BY <1>3, <1>6 DEF SegPages

\* Nor are the stack and the kernel in pages of a segment.
LEMMA LowPages ==
    ASSUME FrameInv, SpaceInv, stage \in {"stack", "kernel"}, NEW p \in Nat,
           p < Start + StackSize \/ p \in KPages, NEW k \in Loaded
    PROVE  p \notin SegPages(image.ph[k])
<1>1. Layout(regions, Loaded, image, TRUE)
  <2>1. Segs = Loaded /\ Placed = TRUE
    BY DEF Segs, Placed
  <2> QED
    BY <2>1 DEF SpaceInv, LayoutInv
<1>2. image \in Images
  BY DEF FrameInv, LoopOwns
<1>3. image.ph[k] \in Headers
  BY <1>1, <1>2, LayoutTypes
<1>4. /\ First(image.ph[k]) \in Nat /\ First(image.ph[k]) >= Start + StackSize
      /\ \A q \in KPages : First(image.ph[k]) > q
  BY <1>3, PagesFacts
<1>5. First(image.ph[k]) > p
  BY <1>4, SpacesAssumption
<1> QED
  BY <1>4, <1>5 DEF SegPages

LEMMA InitSpace == Init => SpaceInv
<1> SUFFICES ASSUME Init PROVE SpaceInv
  OBVIOUS
<1>1. PICK P \in Pools : m = Memory(P) /\ managed = P
  BY DEF Init
<1>2. m.map = <<>> /\ DOMAIN m.data = P
  BY <1>1 DEF Memory
<1>3. DOMAIN m.map = {}
  BY <1>2
<1>4. MapOK(m, managed)
  BY <1>1, <1>2, <1>3 DEF MapOK
<1>5. Loaded = {} /\ KernelDone = 0 /\ stage = "vinit" /\ seg = 0 /\ rip = 0 /\ copy = NoCopy /\ image \in Images
  BY DEF Init, Loaded, KernelDone
<1>6. ImageOK(m, Loaded, image) /\ KernelOK(m, KernelDone)
  BY <1>5 DEF ImageOK, KernelOK
<1>7. RunInv
  BY <1>5, HeaderFacts DEF RunInv
<1>8. CopiesInside
  BY <1>5 DEF CopiesInside
<1> QED
  BY <1>4, <1>5, <1>6, <1>7, <1>8 DEF SpaceInv, LayoutInv, LoopInv, MemInv

\* What a step does not need to show: RunInv and CopiesInside.
LEMMA RunStep ==
    ASSUME FrameInv, SpaceInv,
           \/ VinitFails \/ LoadSkips \/ LoadFails \/ LoadDone \/ SpawnPanics \/ StackDone \/ Spawned \/ Enter
           \/ Vinit \/ LoadSegment \/ SegmentPage \/ SegmentCopied \/ StackRegion \/ StackPage \/ KernelPage \/ Reap
    PROVE  RunInv' /\ CopiesInside'
<1>1. seg \in Nat /\ Len(image.ph) \in Nat
  BY HeaderFacts DEF FrameInv, LoopOwns
<1>2. RunInv
  BY DEF SpaceInv
<1>3. ASSUME Enter PROVE RunInv' /\ CopiesInside'
  <2>1. ASSUME rip = 0 PROVE ~ Fetchable(rip)
    <3>1. 0 \div PageSize = 0
      BY SpacesAssumption
    <3>2. 0 \notin DOMAIN m.map
      BY DEF SpaceInv, MemInv, MapOK
    <3> QED
      BY <2>1, <3>1, <3>2 DEF Fetchable
  <2>2. copy' = NoCopy /\ seg' = seg /\ image' = image /\ rip' = rip /\ stage' \in {"user", "fault"}
        /\ (stage' = "user" => Fetchable(rip))
    BY <1>2, <1>3 DEF Enter, RunInv
  <2>3. RunInv'
    BY <2>1, <2>2, <1>2 DEF RunInv
  <2> QED
    BY <2>2, <2>3 DEF CopiesInside, NoCopy
<1>4. ASSUME \/ VinitFails \/ LoadSkips \/ LoadFails \/ LoadDone \/ SpawnPanics \/ StackDone \/ Spawned
             \/ Vinit \/ LoadSegment \/ SegmentPage \/ SegmentCopied \/ StackRegion \/ StackPage \/ KernelPage
      PROVE  RunInv' /\ CopiesInside'
  <2>1. stage' \notin {"user", "fault", "vinit"} /\ copy' = copy /\ image' = image
        /\ stage \notin {"user", "fault", "reaped"}
    BY <1>4 DEF VinitFails, LoadSkips, LoadFails, LoadDone, SpawnPanics, StackDone, Spawned, Vinit, LoadSegment,
                SegmentPage, SegmentCopied, StackRegion, StackPage, KernelPage
  <2>2. \/ seg' = seg /\ rip' \in {rip, 0}
        \/ seg' = seg /\ seg = Len(image.ph)
        \/ seg' = seg + 1 /\ rip' = rip /\ seg < Len(image.ph)
    BY <1>4 DEF VinitFails, LoadSkips, LoadFails, LoadDone, SpawnPanics, StackDone, Spawned, Vinit, LoadSegment,
                SegmentPage, SegmentCopied, StackRegion, StackPage, KernelPage, FrameInv, LoopOwns
  <2>3. RunInv'
    BY <2>1, <2>2, <1>1, <1>2 DEF RunInv
  <2> QED
    BY <2>1, <2>3 DEF CopiesInside
<1>5. ASSUME Reap PROVE RunInv' /\ CopiesInside'
  BY <1>2, <1>5 DEF Reap, RunInv, CopiesInside
<1> QED
  BY <1>3, <1>4, <1>5

LEMMA QuietSpace ==
    ASSUME FrameInv, SpaceInv,
           VinitFails \/ LoadSkips \/ LoadFails \/ LoadDone \/ SpawnPanics \/ StackDone \/ Spawned \/ Enter
    PROVE  SpaceInv'
<1>1. /\ m' = m /\ regions' = regions /\ managed' = managed /\ image' = image
      /\ stage # "segment" /\ stage' \notin {"segment", "stack", "reaped"}
      /\ Loaded' = Loaded
  BY LoadedFacts DEF VinitFails, LoadSkips, LoadFails, LoadDone, SpawnPanics, StackDone, Spawned, Enter
<1>2. stage' \in {"vinit", "panic", "reaped"} \/ (stage \notin {"vinit", "panic", "reaped"} /\ Placed' = Placed)
  BY DEF VinitFails, LoadSkips, LoadFails, LoadDone, SpawnPanics, StackDone, Spawned, Enter, Placed
<1>3. Segs = Loaded /\ Segs' = Loaded'
  BY <1>1 DEF Segs
<1>4. LayoutInv'
  BY <1>1, <1>2, <1>3 DEF SpaceInv, LayoutInv
<1>5. LoopInv'
  BY <1>1 DEF LoopInv
<1>6. KernelDone' \in {0, KernelDone} /\ stage # "reaped"
  BY DEF VinitFails, LoadSkips, LoadFails, LoadDone, SpawnPanics, StackDone, Spawned, Enter, KernelDone, NoLoop
<1>7. MemInv'
  BY <1>1, <1>6 DEF SpaceInv, MemInv, KernelOK
<1> QED
  BY <1>4, <1>5, <1>7, RunStep DEF SpaceInv

LEMMA VinitSpace == FrameInv /\ SpaceInv /\ Vinit => SpaceInv'
<1> SUFFICES ASSUME FrameInv, SpaceInv, Vinit PROVE SpaceInv'
  OBVIOUS
<1>1. PICK d, F : regions' = <<Region(Start, 0, {}, d)>> /\ m' = Taken(m, F)
  BY DEF Vinit
<1>2. managed' = managed /\ image' = image /\ seg' = seg /\ loop' = loop /\ stage' = "load" /\ stage = "vinit"
  BY DEF Vinit
<1>3. m'.map = m.map /\ m'.data = m.data /\ m'.held = m.held /\ m'.short = m.short
  BY <1>1, TakenFacts DEF FrameInv, UseOK
<1>4. Loaded' = {} /\ Loaded = {} /\ Segs' = {} /\ Placed' = FALSE /\ KernelDone' = 0
  BY <1>2 DEF SpaceInv, RunInv, Loaded, Segs, Placed, KernelDone
<1>5. PICK r : r = Region(Start, 0, {}, d)
  OBVIOUS
<1>6. RootRegion(r)
  BY <1>5 DEF Region, RootRegion
<1>7. DOMAIN regions' = {1} /\ Len(regions') = 1 /\ regions'[1] = r
  BY <1>1, <1>5
<1>8. Layout(regions', {}, image', FALSE)
  BY <1>6, <1>7 DEF Layout
<1>9. LayoutInv'
  BY <1>2, <1>4, <1>8 DEF LayoutInv
<1>10. MemInv'
  BY <1>2, <1>3, <1>4 DEF SpaceInv, MemInv, MapOK, ImageOK, KernelOK
<1>11. LoopInv'
  BY <1>2 DEF LoopInv
<1> QED
  BY <1>9, <1>10, <1>11, RunStep DEF SpaceInv

LEMMA LoadSegmentSpace == FrameInv /\ SpaceInv /\ LoadSegment => SpaceInv'
<1> SUFFICES ASSUME FrameInv, SpaceInv, LoadSegment PROVE SpaceInv'
  OBVIOUS
<1>1. PICK f \in Nat, g \in m.avail, own \in SUBSET m.avail :
             /\ own = f .. f + Pages(Header) - 1
             /\ m'.held = m.held \cup own /\ m'.map = m.map /\ m'.short = m.short /\ m'.data = m.data
             /\ loop' = [page |-> First(Header), frame |-> f, n |-> 0]
             /\ Inserted(regions, regions', 0, Region(First(Header), Pages(Header), SegmentFlags(Header), g))
  BY LoadSegmentFacts
<1>2. /\ stage = "load" /\ stage' = "segment" /\ seg' = seg /\ image' = image /\ managed' = managed
      /\ seg < Len(image.ph) /\ Header.load
  BY DEF LoadSegment
<1>3. image \in Images /\ seg \in Nat /\ Len(image.ph) \in Nat
  BY HeaderFacts DEF FrameInv, LoopOwns
<1>4. Pages(Header) \in Nat /\ First(Header) \in Nat /\ Header' = Header
  BY <1>2, <1>3, HeaderIn DEF Header
<1>5. Loaded' = Loaded /\ Segs = Loaded /\ Segs' = Loaded \cup {seg + 1} /\ Placed = FALSE /\ Placed' = FALSE
  BY <1>2, LoadedFacts DEF Segs, Placed
<1>6. Layout(regions, Loaded, image, FALSE)
  BY <1>2, <1>5 DEF SpaceInv, LayoutInv
<1>7. \A r \in Range(regions) : ~ Overlaps(First(Header), First(Header) + Pages(Header), r)
  BY DEF LoadSegment, VaddSucceeds
<1>8. Layout(regions', Loaded \cup {seg + 1}, image, FALSE)
  <2>1. PICK k : k = seg + 1
    OBVIOUS
  <2>2. k \in 1 .. Len(image.ph) /\ Header = image.ph[k] /\ \A l \in Loaded : l < k
    BY <2>1, <1>2, <1>3, LoadedFacts DEF Header
  <2>3. regions \in Seq(Range(regions))
    BY DEF FrameInv, ListOK
  <2>4. Layout(regions', Loaded \cup {k}, image, FALSE)
    BY <2>2, <2>3, <1>1, <1>3, <1>6, <1>7, LayoutSegment
  <2> QED
    BY <2>1, <2>4
<1>9. LayoutInv'
  BY <1>2, <1>5, <1>8 DEF LayoutInv
<1>10. \A q \in DOMAIN m.map : m.map[q].to \notin own
  BY FreshUnmapped DEF FrameInv
<1>11. LoopInv'
  <2>1. loop'.page = First(Header) /\ loop'.frame = f /\ loop'.n = 0
    BY <1>1
  <2>2. First(Header)' = First(Header) /\ Pages(Header)' = Pages(Header)
    BY <1>2 DEF Header, First, Pages
  <2>3. ASSUME NEW j \in 0 .. Pages(Header) - 1, NEW q \in DOMAIN m.map PROVE m.map[q].to # f + j
    <3>1. f + j \in own
      BY <1>1, <1>4
    <3> QED
      BY <3>1, <1>10
  <2>4. Header'.load /\ loop'.n <= Pages(Header)
    BY <1>2, <1>4, <2>1
  <2>5. \A j \in 0 .. loop'.n - 1 : FALSE
    BY <2>1
  <2> QED
    BY <2>1, <2>2, <2>3, <2>4, <2>5, <1>1, <1>2 DEF LoopInv
<1>12. MemInv'
  <2>1. MapOK(m, managed) /\ UseOK(m, ctx, DescsOf(regions), managed)
    BY DEF SpaceInv, MemInv, FrameInv
  <2>2. MapOK(m', managed)
    BY <2>1, <1>1, TakenMap
  <2>3. ASSUME ~ m.short PROVE ImageOK(m', Loaded, image)
    BY <2>3, <1>1, <1>2, TakenImage DEF SpaceInv, MemInv
  <2>4. KernelOK(m', KernelDone')
    BY <1>2 DEF KernelOK, KernelDone
  <2> QED
    BY <1>1, <1>2, <1>5, <2>2, <2>3, <2>4 DEF MemInv
<1> QED
  BY <1>9, <1>11, <1>12, RunStep DEF SpaceInv

LEMMA SegmentPageSpace == FrameInv /\ SpaceInv /\ SegmentPage => SpaceInv'
<1> SUFFICES ASSUME FrameInv, SpaceInv, SegmentPage PROVE SpaceInv'
  OBVIOUS
<1>1. PICK page, frame : page = loop.page + loop.n /\ frame = loop.frame + loop.n
  OBVIOUS
<1>2. /\ Vmapped(m, m', page, frame)
      /\ loop'.n = loop.n + 1 /\ loop'.page = loop.page /\ loop'.frame = loop.frame
  BY <1>1, SegmentPageFrames
<1>3. /\ stage = "segment" /\ stage' = stage /\ regions' = regions /\ managed' = managed
      /\ image' = image /\ seg' = seg /\ loop.n < Pages(Header)
  BY DEF SegmentPage
<1>4. /\ First(Header) \in Nat \ {0} /\ Pages(Header) \in Nat /\ loop.n \in Nat /\ Header \in Headers
      /\ seg < Len(image.ph) /\ \A j \in 0 .. Pages(Header) - 1 : loop.frame + j \in m.held
  <2>1. Header \in Headers /\ Pages(Header) \in Nat /\ First(Header) \in Nat
    BY <1>3, HeaderIn DEF FrameInv, LoopOwns
  <2>2. First(Header) >= Start + StackSize /\ Start \in Nat \ {0} /\ StackSize \in Nat \ {0}
    BY <2>1, PagesFacts, SpacesAssumption
  <2> QED
    BY <2>1, <2>2, <1>3 DEF FrameInv, LoopOwns
<1>5. /\ Header.load /\ loop.page = First(Header) /\ loop.frame \in Nat
      /\ \A j \in 0 .. Pages(Header) - 1 : \A q \in DOMAIN m.map :
              m.map[q].to = loop.frame + j => q = loop.page + j /\ j < loop.n
      /\ ~ m.short => \A j \in 0 .. loop.n - 1 :
              loop.page + j \in DOMAIN m.map /\ m.map[loop.page + j].to = loop.frame + j
  BY <1>3 DEF SpaceInv, LoopInv
<1>6. Loaded' = Loaded /\ Segs' = Segs /\ Placed' = Placed /\ KernelDone' = KernelDone
  BY <1>3, LoadedFacts DEF Segs, Placed, KernelDone
<1>7. page \in Nat \ {0} /\ page \in SegPages(Header) /\ frame \in m.held
  <2>1. page = First(Header) + loop.n /\ loop.n \in 0 .. Pages(Header) - 1
    BY <1>1, <1>3, <1>4, <1>5
  <2>2. page \in Nat \ {0} /\ page \in SegPages(Header)
    BY <2>1, <1>4 DEF SegPages
  <2> QED
    BY <2>1, <2>2, <1>1, <1>4
<1>8. \A q \in DOMAIN m.map : m.map[q].to # frame
  BY <1>1, <1>3, <1>4, <1>5
<1>9. MapOK(m', managed)
  BY <1>2, <1>7, <1>8, MapVmap DEF SpaceInv, MemInv
<1>10. ASSUME ~ m'.short PROVE ~ m.short /\ ImageOK(m', Loaded, image)
  <2>1. ~ m.short
    BY <1>2, <1>10 DEF Vmapped
  <2>2. ImageOK(m, Loaded, image)
    BY <2>1, <1>3 DEF SpaceInv, MemInv
  <2>3. \A k \in Loaded : page \notin SegPages(image.ph[k])
    BY <1>3, <1>7, OtherPages
  <2> QED
    BY <2>1, <2>2, <2>3, <1>2, ImageVmap
<1>11. MemInv'
  <2>1. KernelOK(m', KernelDone')
    BY <1>3 DEF KernelOK, KernelDone
  <2> QED
    BY <2>1, <1>3, <1>6, <1>9, <1>10 DEF MemInv
<1>12. LayoutInv'
  BY <1>3, <1>6 DEF SpaceInv, LayoutInv
<1>13. Header' = Header /\ First(Header)' = First(Header) /\ Pages(Header)' = Pages(Header)
  BY <1>3 DEF Header, First, Pages
<1>14. LoopInv'
  <2>1. loop'.n <= Pages(Header)
    BY <1>2, <1>3, <1>4
  <2>2. ASSUME NEW j \in 0 .. Pages(Header) - 1, NEW q \in DOMAIN m'.map, m'.map[q].to = loop.frame + j
        PROVE  q = loop.page + j /\ j < loop.n + 1
    <3>1. CASE q = page /\ m'.map[q].to = frame
      <4>2. loop.frame + j = loop.frame + loop.n
        BY <2>2, <3>1, <1>1
      <4>5. j = loop.n
        BY <4>2, <1>4, <1>5
      <4> QED
        BY <4>5, <3>1, <1>1, <1>4
    <3>2. CASE q \in DOMAIN m.map /\ m'.map[q] = m.map[q]
      BY <2>2, <3>2, <1>4, <1>5
    <3> QED
      BY <3>1, <3>2, <1>2 DEF Vmapped
  <2>3. ASSUME ~ m'.short, NEW j \in 0 .. loop.n
        PROVE  loop.page + j \in DOMAIN m'.map /\ m'.map[loop.page + j].to = loop.frame + j
    <3>1. CASE j = loop.n
      BY <2>3, <3>1, <1>1, <1>2 DEF Vmapped
    <3>2. CASE j # loop.n
      <4>1. j \in 0 .. loop.n - 1 /\ loop.page + j # page
        BY <3>2, <1>1, <1>4, <1>5
      <4>2. loop.page + j \in DOMAIN m.map /\ m.map[loop.page + j].to = loop.frame + j
        BY <4>1, <1>5, <1>10, <2>3
      <4>3. loop.page + j \in DOMAIN m'.map
        BY <4>2, <1>2 DEF Vmapped
      <4>4. m'.map[loop.page + j] = m.map[loop.page + j]
        BY <4>1, <4>3, <1>2 DEF Vmapped
      <4> QED
        BY <4>2, <4>3, <4>4
    <3> QED
      BY <3>1, <3>2
  <2>4. loop'.n - 1 = loop.n
    BY <1>2, <1>4
  <2> QED
    BY <2>1, <2>2, <2>3, <2>4, <1>2, <1>3, <1>5, <1>13 DEF LoopInv
<1> QED
  BY <1>11, <1>12, <1>14, RunStep DEF SpaceInv

\* The bytes of the module are where Want asks for them.
IsFilled(s, r, h, f) ==
    /\ DOMAIN r.data = DOMAIN s.data
    /\ \A g \in DOMAIN s.data :
         IF g \notin f .. f + Pages(h) - 1 THEN r.data[g] = s.data[g]
         ELSE \A b \in 0 .. PageSize - 1 : r.data[g][b] = Want(h, First(h) + g - f, b)

LEMMA FilledFacts ==
    ASSUME NEW s, IsMemory(s), NEW h, NEW f, NEW r, r = Filled(s, h, f)
    PROVE  IsFilled(s, r, h, f)
<1> DEFINE d == [x \in DOMAIN s.data |->
                   IF x \notin f .. f + Pages(h) - 1 THEN s.data[x]
                   ELSE [b \in 0 .. PageSize - 1 |-> Want(h, First(h) + x - f, b)]]
<1>1. r = [s EXCEPT !.data = d]
  BY DEF Filled, Want
<1> HIDE DEF d
<1>2. r.data = d
  BY <1>1 DEF IsMemory
<1>3. DOMAIN d = DOMAIN s.data
  BY DEF d
<1>4. ASSUME NEW g \in DOMAIN s.data, g \notin f .. f + Pages(h) - 1 PROVE d[g] = s.data[g]
  BY <1>4 DEF d
<1>5. ASSUME NEW g \in DOMAIN s.data, g \in f .. f + Pages(h) - 1, NEW b \in 0 .. PageSize - 1
      PROVE  d[g][b] = Want(h, First(h) + g - f, b)
  BY <1>5 DEF d
<1> QED
  BY <1>2, <1>3, <1>4, <1>5 DEF IsFilled

LEMMA SegmentCopiedSpace == FrameInv /\ SpaceInv /\ SegmentCopied => SpaceInv'
<1> SUFFICES ASSUME FrameInv, SpaceInv, SegmentCopied PROVE SpaceInv'
  OBVIOUS
<1>1. /\ stage = "segment" /\ stage' = "load" /\ regions' = regions /\ managed' = managed
      /\ image' = image /\ seg' = seg + 1 /\ loop.n = Pages(Header) /\ m' = Filled(m, Header, loop.frame)
  BY DEF SegmentCopied
<1>2. IsMemory(m) /\ UseOK(m, ctx, DescsOf(regions), managed) /\ m.held \subseteq managed
  BY DEF FrameInv, UseOK
<1>3. m'.map = m.map /\ m'.held = m.held /\ m'.short = m.short
  <2>1. PICK d : m' = [m EXCEPT !.data = d]
    BY <1>1 DEF Filled
  <2> QED
    BY <2>1, <1>2, UseData
<1>4. MapOK(m, managed)
  BY DEF SpaceInv, MemInv
<1>5. /\ Header.load /\ loop.page = First(Header) /\ loop.frame \in Nat
      /\ \A j \in 0 .. Pages(Header) - 1 : \A q \in DOMAIN m.map :
              m.map[q].to = loop.frame + j => q = loop.page + j
      /\ ~ m.short => \A j \in 0 .. Pages(Header) - 1 :
              loop.page + j \in DOMAIN m.map /\ m.map[loop.page + j].to = loop.frame + j
  BY <1>1 DEF SpaceInv, LoopInv
<1>6. /\ First(Header) \in Nat /\ Pages(Header) \in Nat \ {0}
      /\ \A j \in 0 .. Pages(Header) - 1 : loop.frame + j \in m.held
  BY <1>1, HeaderIn DEF FrameInv, LoopOwns
<1>7. Loaded' = Loaded \cup {seg + 1} /\ Segs = Loaded \cup {seg + 1}
  BY <1>1, <1>5, LoadedFacts
<1>8. Segs' = Loaded' /\ Placed = FALSE /\ Placed' = FALSE
  BY <1>1 DEF Segs, Placed
<1>9. LayoutInv'
  BY <1>1, <1>7, <1>8 DEF SpaceInv, LayoutInv
<1>10. LoopInv'
  BY <1>1 DEF LoopInv
<1>11. DOMAIN m.data = managed
  BY <1>4 DEF MapOK
<1>12. ASSUME NEW g \in managed
       PROVE  /\ DOMAIN m'.data = managed
              /\ g \notin loop.frame .. loop.frame + Pages(Header) - 1 => m'.data[g] = m.data[g]
              /\ g \in loop.frame .. loop.frame + Pages(Header) - 1 =>
                   \A b \in 0 .. PageSize - 1 : m'.data[g][b] = Want(Header, First(Header) + g - loop.frame, b)
  <2>1. IsFilled(m, m', Header, loop.frame)
    BY <1>1, <1>2, FilledFacts
  <2> QED
    BY <2>1, <1>11 DEF IsFilled
<1>13. DOMAIN m'.data = managed
  <2>1. loop.frame + 0 \in managed
    BY <1>2, <1>6
  <2> QED
    BY <2>1, <1>12
<1>14. MapOK(m', managed)
  BY <1>3, <1>4, <1>13 DEF MapOK
<1>15. ASSUME ~ m.short PROVE ImageOK(m', Loaded', image)
  <2>1. ImageOK(m, Loaded, image)
    BY <1>1, <1>15 DEF SpaceInv, MemInv
  <2>2. ASSUME NEW k \in Loaded, NEW p \in SegPages(image.ph[k]) PROVE Right(m', image.ph[k], p)
    <3>1. Right(m, image.ph[k], p)
      BY <2>1 DEF ImageOK
    <3>2. PICK g : g = m.map[p].to
      OBVIOUS
    <3>3. g \in managed /\ p \in DOMAIN m.map
      BY <3>1, <3>2, <1>2 DEF Right
    <3>4. g \notin loop.frame .. loop.frame + Pages(Header) - 1
      <4>1. SUFFICES ASSUME g \in loop.frame .. loop.frame + Pages(Header) - 1 PROVE FALSE
        OBVIOUS
      <4>2. PICK j : j = g - loop.frame
        OBVIOUS
      <4>3. j \in 0 .. Pages(Header) - 1 /\ g = loop.frame + j
        BY <4>1, <4>2, <1>5, <1>6
      <4>4. p = First(Header) + j
        BY <4>3, <3>2, <3>3, <1>5
      <4>5. p \in SegPages(Header)
        BY <4>3, <4>4, <1>6 DEF SegPages
      <4> QED
        BY <4>5, <1>1, OtherPages
    <3>5. m'.data[g] = m.data[g]
      BY <3>3, <3>4, <1>12
    <3> QED
      BY <3>1, <3>2, <3>5, <1>3 DEF Right
  <2>3. ASSUME NEW p \in SegPages(Header) PROVE Right(m', Header, p)
    <3>1. PICK j : j = p - First(Header)
      OBVIOUS
    <3>2. j \in 0 .. Pages(Header) - 1 /\ p = First(Header) + j
      BY <3>1, <1>6 DEF SegPages
    <3>3. p \in DOMAIN m.map /\ m.map[p].to = loop.frame + j /\ loop.frame + j \in m.held
      BY <3>2, <1>5, <1>6, <1>15
    <3>4. PICK g : g = loop.frame + j
      OBVIOUS
    <3>5. g \in managed /\ g \in loop.frame .. loop.frame + Pages(Header) - 1 /\ First(Header) + g - loop.frame = p
      BY <3>2, <3>3, <3>4, <1>2, <1>5, <1>6
    <3>6. \A b \in 0 .. PageSize - 1 : m'.data[g][b] = Want(Header, p, b)
      BY <3>5, <1>12
    <3> QED
      BY <3>3, <3>4, <3>6, <1>3 DEF Right
  <2>4. image.ph[seg + 1] = Header
    BY DEF Header
  <2> QED
    BY <2>2, <2>3, <2>4, <1>7 DEF ImageOK
<1>16. MemInv'
  <2>1. KernelOK(m', KernelDone')
    BY <1>1 DEF KernelOK, KernelDone
  <2> QED
    BY <2>1, <1>1, <1>3, <1>14, <1>15 DEF MemInv
<1> QED
  BY <1>9, <1>10, <1>16, RunStep DEF SpaceInv

LEMMA StackRegionSpace == FrameInv /\ SpaceInv /\ StackRegion => SpaceInv'
<1> SUFFICES ASSUME FrameInv, SpaceInv, StackRegion PROVE SpaceInv'
  OBVIOUS
<1>1. PICK b \in DOMAIN regions, g \in m.avail :
             /\ Fits(b) /\ m' = Taken(m, {g})
             /\ loop' = [page |-> EndOf(regions[b]), frame |-> 0, n |-> 0]
             /\ Inserted(regions, regions', b, Region(EndOf(regions[b]), StackSize, StackFlags, g))
  BY StackRegionFacts
<1>2. stage = "spawn" /\ stage' = "stack" /\ seg' = seg /\ image' = image /\ managed' = managed
  BY DEF StackRegion
<1>3. image \in Images /\ regions \in Seq(Range(regions))
  BY DEF FrameInv, LoopOwns, ListOK
<1>4. Loaded' = Loaded /\ Segs = Loaded /\ Segs' = Loaded /\ Placed = FALSE /\ Placed' = TRUE
  BY <1>2, LoadedFacts DEF Segs, Placed
<1>5. Layout(regions, Loaded, image, FALSE)
  BY <1>2, <1>4 DEF SpaceInv, LayoutInv
<1>6. b = Len(regions) /\ EndOf(regions[b]) = Start
  BY <1>1, <1>3, <1>5, RoomAtEnd
<1>7. Layout(regions', Loaded, image, TRUE)
  BY <1>1, <1>3, <1>5, <1>6, LayoutStack
<1>8. LayoutInv'
  BY <1>2, <1>4, <1>7 DEF LayoutInv
<1>9. LoopInv'
  BY <1>1, <1>2, <1>6 DEF LoopInv
<1>10. m'.map = m.map /\ m'.data = m.data /\ m'.held = m.held /\ m'.short = m.short
  BY <1>1, TakenFacts DEF FrameInv, UseOK
<1>11. MemInv'
  <2>1. KernelOK(m', KernelDone')
    BY <1>2 DEF KernelOK, KernelDone
  <2>2. MapOK(m', managed)
    BY <1>10 DEF SpaceInv, MemInv, MapOK
  <2>3. ASSUME ~ m.short PROVE ImageOK(m', Loaded, image)
    BY <2>3, <1>2, <1>10, TakenImage DEF SpaceInv, MemInv
  <2> QED
    BY <2>1, <2>2, <2>3, <1>2, <1>4, <1>10 DEF MemInv
<1> QED
  BY <1>8, <1>9, <1>11, RunStep DEF SpaceInv

LEMMA StackPageSpace == FrameInv /\ SpaceInv /\ StackPage => SpaceInv'
<1> SUFFICES ASSUME FrameInv, SpaceInv, StackPage PROVE SpaceInv'
  OBVIOUS
<1>0. PICK f \in m.avail : \E s : /\ s = [Taken(m, {f}) EXCEPT !.held = @ \cup {f}]
                                  /\ Vmapped(s, m', loop.page + loop.n, f)
  BY StackPageFrames
<1>1. PICK s : s = [Taken(m, {f}) EXCEPT !.held = @ \cup {f}] /\ Vmapped(s, m', loop.page + loop.n, f)
  BY <1>0
<1>2. loop'.page = loop.page
  BY StackPageFrames
<1>3. /\ stage = "stack" /\ stage' = stage /\ regions' = regions /\ managed' = managed
      /\ image' = image /\ seg' = seg /\ loop.n < StackSize
  BY DEF StackPage
<1>4. loop.page = Start /\ loop.n \in Nat /\ Start \in Nat \ {0} /\ StackSize \in Nat
  BY <1>3, SpacesAssumption DEF SpaceInv, LoopInv, FrameInv, LoopOwns
<1>5. PICK page \in Nat \ {0} : page = loop.page + loop.n /\ page < Start + StackSize
  BY <1>3, <1>4
<1>6. Loaded' = Loaded /\ Segs' = Segs /\ Placed' = Placed
  BY <1>3, LoadedFacts DEF Segs, Placed
<1>7. LayoutInv'
  BY <1>3, <1>6 DEF SpaceInv, LayoutInv
<1>8. LoopInv'
  BY <1>2, <1>3, <1>4 DEF LoopInv
<1>9. UseOK(m, ctx, DescsOf(regions), managed) /\ MapOK(m, managed)
  BY DEF FrameInv, SpaceInv, MemInv
<1>10. s.map = m.map /\ s.data = m.data /\ s.held = m.held \cup {f} /\ s.short = m.short
  BY <1>1, <1>9 DEF UseOK, IsMemory, Taken
<1>11. MapOK(s, managed)
  BY <1>9, <1>10, TakenMap
<1>12. \A q \in DOMAIN s.map : s.map[q].to # f
  BY <1>9, <1>10, FreshUnmapped
<1>13. MapOK(m', managed)
  BY <1>1, <1>5, <1>11, <1>12, MapVmap
<1>14. ASSUME ~ m'.short PROVE ImageOK(m', Loaded, image)
  <2>1. ~ m.short
    BY <1>1, <1>10, <1>14 DEF Vmapped
  <2>2. ImageOK(m, Loaded, image)
    BY <2>1, <1>3 DEF SpaceInv, MemInv
  <2>3. ImageOK(s, Loaded, image)
    BY <2>2, <1>10, TakenImage
  <2>4. ASSUME NEW k \in Loaded PROVE page \notin SegPages(image.ph[k])
    BY <1>3, <1>4, <1>5, LowPages
  <2> QED
    BY <2>3, <2>4, <1>1, <1>5, ImageVmap
<1>15. MemInv'
  <2>1. KernelOK(m', KernelDone')
    BY <1>3 DEF KernelOK, KernelDone
  <2> QED
    BY <2>1, <1>3, <1>6, <1>13, <1>14 DEF MemInv
<1> QED
  BY <1>7, <1>8, <1>15, RunStep DEF SpaceInv

LEMMA KernelPageSpace == FrameInv /\ SpaceInv /\ KernelPage => SpaceInv'
<1> SUFFICES ASSUME FrameInv, SpaceInv, KernelPage PROVE SpaceInv'
  OBVIOUS
<1>1. PICK i : i = loop.n + 1
  OBVIOUS
<1>2. PICK page, frame : page = KMap[i].page /\ frame = KMap[i].frame
  OBVIOUS
<1>3. Vmapped(m, m', page, frame) /\ loop'.n = i
  BY <1>1, <1>2, KernelPageFrames
<1>4. /\ stage = "kernel" /\ stage' = stage /\ regions' = regions /\ managed' = managed
      /\ image' = image /\ seg' = seg /\ loop.n < Len(KMap) /\ loop.n \in Nat
  BY DEF KernelPage, FrameInv, LoopOwns
<1>5. i \in 1 .. Len(KMap) /\ page \in KPages /\ page \in Nat \ {0} /\ frame \in KFrames
  BY <1>1, <1>2, <1>4, KernelFacts
<1>6. Loaded' = Loaded /\ Segs' = Segs /\ Placed' = Placed
  BY <1>4, LoadedFacts DEF Segs, Placed
<1>7. LayoutInv'
  BY <1>4, <1>6 DEF SpaceInv, LayoutInv
<1>8. LoopInv'
  BY <1>4 DEF LoopInv
<1>9. frame \notin m.held
  BY <1>5 DEF FrameInv, UseOK
<1>10. MapOK(m', managed)
  BY <1>3, <1>5, <1>9, MapVmap DEF SpaceInv, MemInv
<1>11. ASSUME ~ m'.short PROVE ImageOK(m', Loaded, image) /\ KernelOK(m', KernelDone')
  <2>1. ~ m.short /\ page \in DOMAIN m'.map /\ m'.map[page].to = frame
    BY <1>3, <1>11 DEF Vmapped
  <2>2. ImageOK(m, Loaded, image) /\ KernelOK(m, loop.n)
    BY <2>1, <1>4 DEF SpaceInv, MemInv, KernelDone
  <2>3. ASSUME NEW k \in Loaded PROVE page \notin SegPages(image.ph[k])
    BY <1>4, <1>5, LowPages
  <2>4. ImageOK(m', Loaded, image)
    BY <2>2, <2>3, <1>3, ImageVmap
  <2>5. KernelDone' = i
    BY <1>3, <1>4 DEF KernelDone
  <2>6. ASSUME NEW j \in 1 .. i PROVE KMap[j].page \in DOMAIN m'.map /\ m'.map[KMap[j].page].to = KMap[j].frame
    <3>1. CASE j = i
      BY <2>1, <3>1, <1>2
    <3>2. CASE j # i
      <4>1. j \in 1 .. loop.n /\ j \in DOMAIN KMap /\ i \in DOMAIN KMap
        BY <3>2, <1>1, <1>4, <1>5, KernelFacts
      <4>2. KMap[j].page # page
        BY <4>1, <3>2, <1>2, SpacesAssumption
      <4>3. KMap[j].page \in DOMAIN m.map /\ m.map[KMap[j].page].to = KMap[j].frame
        BY <4>1, <2>2 DEF KernelOK
      <4>4. KMap[j].page \in DOMAIN m'.map
        BY <4>3, <1>3 DEF Vmapped
      <4>5. m'.map[KMap[j].page] = m.map[KMap[j].page]
        BY <4>2, <4>4, <1>3 DEF Vmapped
      <4> QED
        BY <4>3, <4>4, <4>5
    <3> QED
      BY <3>1, <3>2
  <2> QED
    BY <2>4, <2>5, <2>6 DEF KernelOK
<1>12. MemInv'
  BY <1>4, <1>6, <1>10, <1>11 DEF MemInv
<1> QED
  BY <1>7, <1>8, <1>12, RunStep DEF SpaceInv

\* A copy to a page of a segment is to a writable segment.
LEMMA CopySpace ==
    ASSUME FrameInv, SpaceInv, NEW op \in {"from", "to"}, NEW a \in Nat, NEW n \in Nat, Copy(op, a, n)
    PROVE  SpaceInv'
<1>1. PICK done : done = Copied(op, a, n)
  OBVIOUS
<1>2. done \in 0 .. n /\ (\A j \in 0 .. done - 1 : Allowed(op, a + j)) /\ (done # n => ~ Allowed(op, a + done))
  BY <1>1, CopiedFacts
<1>3. /\ stage = "user" /\ stage' \in {"user", "fault"} /\ regions' = regions /\ managed' = managed
      /\ image' = image /\ seg' = seg /\ rip' = rip
      /\ copy' = [op |-> op, addr |-> a, len |-> n, done |-> done, ret |-> IF done = n THEN 0 ELSE -1]
  BY <1>1 DEF Copy
<1>4. image \in Images /\ regions \in Seq(Range(regions)) /\ seg \in Nat
  BY DEF FrameInv, LoopOwns, ListOK
<1>5. Loaded' = Loaded /\ Segs = Loaded /\ Segs' = Loaded /\ Placed = TRUE /\ Placed' = TRUE
  BY <1>3, LoadedFacts DEF Segs, Placed
<1>6. Layout(regions, Loaded, image, TRUE)
  BY <1>3, <1>5 DEF SpaceInv, LayoutInv
<1>7. \A x \in Nat : Allowed(op, x) <=> May(op, x, Loaded, image)
  BY <1>4, <1>6, AllowedFacts
<1>8. (\A j \in 0 .. done - 1 : May(op, a + j, Loaded, image)) /\ (done # n => ~ May(op, a + done, Loaded, image))
  BY <1>2, <1>7
<1>9. LayoutInv'
  BY <1>3, <1>5, <1>6 DEF LayoutInv
<1>10. LoopInv'
  BY <1>3 DEF LoopInv
<1>11. RunInv'
  BY <1>3 DEF SpaceInv, RunInv
<1>12. m'.map = m.map /\ m'.held = m.held /\ m'.short = m.short
  <2>1. m' = m \/ \E d : m' = [m EXCEPT !.data = d]
    BY DEF Copy
  <2>2. UseOK(m, ctx, DescsOf(regions), managed)
    BY DEF FrameInv
  <2>3. CASE m' = m
    BY <2>3
  <2>4. CASE \E d : m' = [m EXCEPT !.data = d]
    BY <2>2, <2>4, UseData
  <2> QED
    BY <2>1, <2>3, <2>4
<1>13. ASSUME ~ m.short, NEW j \in 0 .. done - 1 PROVE (a + j) \div PageSize \in DOMAIN m.map
  <2>1. PICK k \in Loaded : (a + j) \div PageSize \in SegPages(image.ph[k])
    BY <1>8 DEF May
  <2> QED
    BY <2>1, <1>3, <1>13 DEF SpaceInv, MemInv, ImageOK, Right
<1>14. CopiesInside'
  <2>1. stage' = "fault" => m'.short
    <3>1. stage' = "fault" => ~ \A j \in 0 .. done - 1 : (a + j) \div PageSize \in DOMAIN m.map
      BY <1>1 DEF Copy
    <3> QED
      BY <3>1, <1>12, <1>13
  <2>2. copy'.op = op /\ copy'.addr = a /\ copy'.len = n /\ copy'.done = done /\ (copy'.ret = 0 <=> done = n)
    BY <1>3
  <2>3. ASSUME NEW x
        PROVE  May(op, x, Loaded, image) <=>
                 \E k \in Loaded' :
                   /\ x \div PageSize \in First(image'.ph[k]) .. First(image'.ph[k]) + Pages(image'.ph[k]) - 1
                   /\ copy'.op = "to" => VALLOC_WRITE \in image'.ph[k].flags
    BY <1>3, <1>5, <2>2 DEF May, SegPages
  <2> QED
    BY <1>8, <2>1, <2>2, <2>3 DEF CopiesInside
<1>15. MapOK(m, managed)
  BY DEF SpaceInv, MemInv
<1>16. /\ DOMAIN m'.data = managed
       /\ \A g \in managed, b \in 0 .. PageSize - 1 :
              \/ m'.data[g][b] = m.data[g][b]
              \/ /\ m'.data[g][b] = Kernel /\ op = "to"
                 /\ \E j \in 0 .. done - 1 : /\ m.map[(a + j) \div PageSize].to = g
                                             /\ (a + j) \div PageSize \in DOMAIN m.map
  <2>1. DOMAIN m.data = managed /\ IsMemory(m)
    BY <1>15 DEF MapOK, FrameInv, UseOK
  <2>2. CASE m' = m
    BY <2>1, <2>2
  <2>3. CASE /\ op # "from" /\ \A j \in 0 .. done - 1 : (a + j) \div PageSize \in DOMAIN m.map
             /\ m' = [m EXCEPT !.data = [x \in DOMAIN @ |-> [y \in 0 .. PageSize - 1 |->
                        IF \E j \in 0 .. done - 1 : m.map[(a + j) \div PageSize].to = x /\ (a + j) % PageSize = y
                        THEN Kernel ELSE @[x][y]]]]
    <3> DEFINE d == [x \in DOMAIN m.data |-> [y \in 0 .. PageSize - 1 |->
                        IF \E j \in 0 .. done - 1 : m.map[(a + j) \div PageSize].to = x /\ (a + j) % PageSize = y
                        THEN Kernel ELSE m.data[x][y]]]
    <3>1. m' = [m EXCEPT !.data = d]
      BY <2>3
    <3> HIDE DEF d
    <3>2. m'.data = d
      BY <3>1, <2>1 DEF IsMemory
    <3>3. DOMAIN d = managed
      BY <2>1 DEF d
    <3>4. ASSUME NEW g \in managed, NEW b \in 0 .. PageSize - 1
          PROVE  d[g][b] = IF \E j \in 0 .. done - 1 : m.map[(a + j) \div PageSize].to = g /\ (a + j) % PageSize = b
                           THEN Kernel ELSE m.data[g][b]
      BY <2>1 DEF d
    <3> QED
      BY <2>3, <3>2, <3>3, <3>4
  <2> QED
    BY <1>1, <2>2, <2>3 DEF Copy
<1>17. MapOK(m', managed)
  BY <1>12, <1>15, <1>16 DEF MapOK
<1>18. ASSUME ~ m.short, NEW k \in Loaded, NEW p \in SegPages(image.ph[k]) PROVE Right(m', image.ph[k], p)
  <2>1. Right(m, image.ph[k], p)
    BY <1>3, <1>18 DEF SpaceInv, MemInv, ImageOK
  <2>2. PICK g : g = m.map[p].to
    OBVIOUS
  <2>3. g \in m.held /\ g \in managed /\ p \in DOMAIN m.map
    BY <2>1, <2>2 DEF Right, FrameInv, UseOK
  <2>4. ASSUME NEW b \in 0 .. PageSize - 1, m'.data[g][b] # m.data[g][b]
        PROVE  m'.data[g][b] = Kernel /\ VALLOC_WRITE \in image.ph[k].flags
    <3>1. PICK j \in 0 .. done - 1 : m.map[(a + j) \div PageSize].to = g /\ (a + j) \div PageSize \in DOMAIN m.map
      BY <2>3, <2>4, <1>16
    <3>2. m'.data[g][b] = Kernel /\ op = "to"
      BY <2>3, <2>4, <1>16
    <3>3. (a + j) \div PageSize = p
      BY <3>1, <2>2, <2>3, <1>15 DEF MapOK
    <3>4. PICK l \in Loaded : p \in SegPages(image.ph[l]) /\ VALLOC_WRITE \in image.ph[l].flags
      BY <3>2, <3>3, <1>8 DEF May
    <3>5. l = k
      <4>1. /\ k \in Nat /\ l \in Nat
            /\ First(image.ph[k]) \in Nat /\ Pages(image.ph[k]) \in Nat
            /\ First(image.ph[l]) \in Nat /\ Pages(image.ph[l]) \in Nat
        <5>1. /\ k \in 1 .. Len(image.ph) /\ image.ph[k] \in Headers
              /\ l \in 1 .. Len(image.ph) /\ image.ph[l] \in Headers
          BY <1>4, <1>6, LayoutTypes
        <5>2. Len(image.ph) \in Nat
          BY <1>4, HeaderFacts
        <5>3. k \in Nat /\ l \in Nat
          BY <5>1, <5>2
        <5> QED
          BY <5>1, <5>3, SegTypes
      <4>2. k < l => First(image.ph[k]) + Pages(image.ph[k]) <= First(image.ph[l])
        BY <1>6 DEF Layout
      <4>3. l < k => First(image.ph[l]) + Pages(image.ph[l]) <= First(image.ph[k])
        BY <1>6 DEF Layout
      <4>4. p \in SegPages(image.ph[k]) /\ p \in SegPages(image.ph[l])
        BY <3>4
      <4> QED
        BY <4>1, <4>2, <4>3, <4>4 DEF SegPages
    <3> QED
      BY <3>2, <3>4, <3>5
  <2> QED
    BY <2>1, <2>2, <2>4, <1>12 DEF Right
<1>19. MemInv'
  <2>1. KernelDone' = KernelDone /\ KernelDone = Len(KMap)
    BY <1>3 DEF KernelDone
  <2>2. ~ m.short => KernelOK(m', KernelDone')
    BY <2>1, <1>3, <1>12 DEF SpaceInv, MemInv, KernelOK
  <2> QED
    BY <2>2, <1>3, <1>5, <1>12, <1>17, <1>18 DEF MemInv, ImageOK
<1> QED
  BY <1>9, <1>10, <1>11, <1>14, <1>19 DEF SpaceInv

LEMMA ReapSpace == FrameInv /\ SpaceInv /\ Reap => SpaceInv'
<1> SUFFICES ASSUME FrameInv, SpaceInv, Reap PROVE SpaceInv'
  OBVIOUS
<1>1. PICK pcb, F : m' = [Freed(m, F) EXCEPT !.map = Restrict(@, DOMAIN @ \ pcb)]
  BY DEF Reap
<1>2. m'.data = m.data /\ m'.held = m.held /\ m'.map = Restrict(m.map, DOMAIN m.map \ pcb)
  BY <1>1 DEF FrameInv, UseOK, IsMemory, Freed
<1>3. DOMAIN m'.map \subseteq DOMAIN m.map /\ \A p \in DOMAIN m'.map : m'.map[p] = m.map[p]
  BY <1>2 DEF Restrict
<1>4. stage' = "reaped" /\ managed' = managed
  BY DEF Reap
<1>5. MapOK(m', managed)
  BY <1>2, <1>3 DEF SpaceInv, MemInv, MapOK
<1> QED
  BY <1>4, <1>5, RunStep DEF SpaceInv, LayoutInv, LoopInv, MemInv

LEMMA NextSpace == FrameInv /\ SpaceInv /\ [Next]_vars => SpaceInv'
<1> SUFFICES ASSUME FrameInv, SpaceInv, [Next]_vars PROVE SpaceInv'
  OBVIOUS
<1>1. CASE UNCHANGED vars
  BY <1>1 DEF vars, SpaceInv, LayoutInv, Segs, Placed, Loaded, LoopInv, Header, MemInv, KernelDone, RunInv,
              CopiesInside, First, Pages
<1>2. CASE /\ stage = "user"
           /\ \E op \in {"from", "to"}, a \in Addresses, n \in Lengths : Copy(op, a, n)
  <2>1. PICK op \in {"from", "to"}, a \in Addresses, n \in Lengths : Copy(op, a, n)
    BY <1>2
  <2>2. a \in Nat /\ n \in Nat
    BY SpacesAssumption DEF Addresses
  <2> QED
    BY <2>1, <2>2, CopySpace
<1> QED
  BY <1>1, <1>2, VinitSpace, QuietSpace, LoadSegmentSpace, SegmentPageSpace, SegmentCopiedSpace,
     StackRegionSpace, StackPageSpace, KernelPageSpace, ReapSpace DEF Next

----------------------------------------------------------------------------
(***************************************************************************)
(* What the kernel still reaches                                           *)
(***************************************************************************)
StackPages == Start .. Start + StackSize - 1

\* Until the kernel's regions are mapped.
Early == stage \in {"vinit", "load", "segment", "spawn", "stack", "panic"}
Late == stage \in {"kernel", "run", "user", "fault"}

\* Pages that are mapped belong to a segment, to the stack or to the kernel.
DomInv ==
    stage \in {"vinit", "load", "segment", "spawn", "stack", "kernel"} =>
        \A p \in DOMAIN m.map :
            \/ \E k \in Loaded : p \in SegPages(image.ph[k])
            \/ stage \in {"segment", "stack"} /\ p \in loop.page .. loop.page + loop.n - 1
            \/ stage = "kernel" /\ (p \in StackPages \/ \E i \in 1 .. loop.n : p = KMap[i].page)

\* A page of the stack is there until the kernel maps it over.
StackInv ==
    /\ stage = "stack" => /\ loop.n <= StackSize
                          /\ ~ m.short => \A p \in Start .. Start + loop.n - 1 : p \in DOMAIN m.map
    /\ stage = "kernel" /\ ~ m.short =>
         \A p \in StackPages : \/ \E i \in 1 .. loop.n : p = KMap[i].page
                               \/ p \in DOMAIN m.map /\ m.map[p].to \in m.held

Lost == m.held \ (Mapped \cup Hand)

LostInv ==
    /\ managed \in Pools /\ (Early \/ Late \/ stage = "reaped") /\ DomInv /\ StackInv
    /\ Early => \A p \in DOMAIN m.map : m.map[p].to \in m.held
    /\ Early /\ ~ m.short => Lost = {}
    /\ Late /\ ~ m.short => Cardinality(Lost) = Cardinality(MappedOver)

LEMMA InitLost == Init => LostInv
<1> SUFFICES ASSUME Init PROVE LostInv
  OBVIOUS
<1>1. PICK P \in Pools : m = Memory(P) /\ managed = P
  BY DEF Init
<1>2. m.map = <<>> /\ m.held = {} /\ stage = "vinit"
  BY <1>1 DEF Memory, Init
<1>3. DOMAIN m.map = {} /\ Lost = {}
  BY <1>2 DEF Lost
<1> QED
  BY <1>1, <1>2, <1>3 DEF LostInv, DomInv, StackInv, Early, Late

\* What an early step without a table too few has to show: no frame is lost.
LEMMA NothingLost ==
    ASSUME FrameInv, LostInv, Early, ~ m.short
    PROVE  m.held \subseteq Mapped \cup Hand /\ MappedOver = {} /\ Lost = {}
<1>1. Lost = {}
  BY DEF LostInv
<1>2. m.held \subseteq managed
  BY DEF FrameInv, UseOK
<1>3. \A p \in DOMAIN m.map : m.map[p].to \in managed
  BY <1>2 DEF LostInv
<1> QED
  BY <1>1, <1>3 DEF Lost, MappedOver

LEMMA QuietLost ==
    ASSUME FrameInv, SpaceInv, LostInv,
           VinitFails \/ LoadSkips \/ LoadFails \/ LoadDone \/ SpawnPanics \/ StackDone \/ Spawned \/ Enter
    PROVE  LostInv'
<1>1. m' = m /\ managed' = managed /\ image' = image /\ stage # "segment" /\ Loaded' = Loaded
  BY LoadedFacts DEF VinitFails, LoadSkips, LoadFails, LoadDone, SpawnPanics, StackDone, Spawned, Enter
<1>2. /\ stage' \notin {"vinit", "segment", "stack", "reaped"} /\ (Early' => Early)
      /\ Late' => Late \/ StackDone
  BY DEF VinitFails, LoadSkips, LoadFails, LoadDone, SpawnPanics, StackDone, Spawned, Enter, Early, Late
<1>3. Lost' = Lost /\ MappedOver' = MappedOver
  BY <1>1, <1>2 DEF Lost, Mapped, Hand, MappedOver
<1>4. ASSUME StackDone PROVE /\ Early /\ stage = "stack" /\ stage' = "kernel" /\ loop'.n = 0
                             /\ loop.page = Start /\ loop.n = StackSize /\ StackSize \in Nat /\ Start \in Nat
  BY <1>4, SpacesAssumption DEF StackDone, Early, NoLoop, SpaceInv, LoopInv
<1>5. DomInv'
  <2>1. CASE StackDone
    <3>1. \A p \in DOMAIN m.map : (\E k \in Loaded : p \in SegPages(image.ph[k])) \/ p \in StackPages
      BY <2>1, <1>4 DEF LostInv, DomInv, StackPages
    <3> QED
      BY <3>1, <1>1, <1>4, <2>1 DEF DomInv
  <2>2. CASE ~ StackDone
    <3>1. stage' \in {"load", "spawn", "kernel"} => stage \in {"load", "spawn"} /\ stage' # "kernel"
      BY <2>2 DEF VinitFails, LoadSkips, LoadFails, LoadDone, SpawnPanics, StackDone, Spawned, Enter
    <3> QED
      BY <3>1, <1>1, <1>2 DEF LostInv, DomInv
  <2> QED
    BY <2>1, <2>2
<1>6. StackInv'
  <2>1. CASE StackDone
    <3>1. ~ m.short => \A p \in StackPages : p \in DOMAIN m.map /\ m.map[p].to \in m.held
      BY <2>1, <1>4 DEF LostInv, StackInv, StackPages
    <3> QED
      BY <3>1, <1>1, <1>4, <2>1 DEF StackInv
  <2>2. CASE ~ StackDone
    <3>1. stage' # "kernel"
      BY <2>2 DEF VinitFails, LoadSkips, LoadFails, LoadDone, SpawnPanics, StackDone, Spawned, Enter
    <3> QED
      BY <3>1, <1>2 DEF StackInv
  <2> QED
    BY <2>1, <2>2
<1>7. ASSUME Late', ~ m.short PROVE Cardinality(Lost') = Cardinality(MappedOver')
  <2>1. CASE StackDone
    <3>1. Lost = {} /\ MappedOver = {}
      BY <2>1, <1>4, <1>7, NothingLost
    <3> QED
      BY <3>1, <1>3
  <2>2. CASE Late
    BY <2>2, <1>3, <1>7 DEF LostInv
  <2> QED
    BY <2>1, <2>2, <1>2, <1>7
<1>8. Early' \/ Late'
  BY DEF VinitFails, LoadSkips, LoadFails, LoadDone, SpawnPanics, StackDone, Spawned, Enter, Early, Late
<1> QED
  BY <1>1, <1>2, <1>3, <1>5, <1>6, <1>7, <1>8 DEF LostInv

LEMMA VinitLost == FrameInv /\ SpaceInv /\ LostInv /\ Vinit => LostInv'
<1> SUFFICES ASSUME FrameInv, SpaceInv, LostInv, Vinit PROVE LostInv'
  OBVIOUS
<1>1. PICK F : m' = Taken(m, F)
  BY DEF Vinit
<1>2. managed' = managed /\ image' = image /\ seg' = seg /\ loop' = loop /\ stage' = "load" /\ stage = "vinit"
  BY DEF Vinit
<1>3. m'.map = m.map /\ m'.held = m.held /\ m'.short = m.short
  BY <1>1, TakenFacts DEF FrameInv, UseOK
<1>4. Loaded' = Loaded /\ Lost' = Lost
  BY <1>2, <1>3, LoadedFacts DEF Lost, Mapped, Hand
<1>5. DomInv'
  BY <1>2, <1>3, <1>4 DEF LostInv, DomInv
<1> QED
  BY <1>2, <1>3, <1>4, <1>5 DEF LostInv, StackInv, Early, Late

LEMMA LoadSegmentLost == FrameInv /\ SpaceInv /\ LostInv /\ LoadSegment => LostInv'
<1> SUFFICES ASSUME FrameInv, SpaceInv, LostInv, LoadSegment PROVE LostInv'
  OBVIOUS
<1>1. PICK f \in Nat, g \in m.avail, own \in SUBSET m.avail :
             /\ own = f .. f + Pages(Header) - 1
             /\ m'.held = m.held \cup own /\ m'.map = m.map /\ m'.short = m.short
             /\ loop' = [page |-> First(Header), frame |-> f, n |-> 0]
  BY LoadSegmentFacts
<1>2. stage = "load" /\ stage' = "segment" /\ seg' = seg /\ image' = image /\ managed' = managed /\ seg < Len(image.ph)
  BY DEF LoadSegment
<1>3. Pages(Header) \in Nat /\ Pages(Header)' = Pages(Header)
  BY <1>2, HeaderIn DEF FrameInv, LoopOwns, Header, Pages, First
<1>4. Loaded' = Loaded
  BY <1>2, LoadedFacts
<1>5. DomInv'
  BY <1>1, <1>2, <1>4 DEF LostInv, DomInv
<1>6. \A p \in DOMAIN m.map : m.map[p].to \in m.held
  BY <1>2 DEF LostInv, Early
<1>7. ASSUME ~ m.short PROVE Lost' = {}
  <2>1. m.held \subseteq Mapped
    BY <1>2, <1>7, NothingLost DEF Early, Hand
  <2>2. ASSUME NEW x \in own PROVE x \in Hand'
    <3>1. loop'.frame = f /\ loop'.n = 0
      BY <1>1
    <3>2. PICK n \in 0 .. Pages(Header) - 1 : x = f + n
      <4>1. x - f \in 0 .. Pages(Header) - 1 /\ x = f + (x - f)
        BY <1>1, <1>3
      <4> QED
        BY <4>1
    <3> QED
      BY <3>1, <3>2, <1>2, <1>3 DEF Hand
  <2>3. Mapped' = Mapped
    BY <1>1 DEF Mapped
  <2> QED
    BY <2>1, <2>2, <2>3, <1>1 DEF Lost
<1> QED
  BY <1>1, <1>2, <1>5, <1>6, <1>7 DEF LostInv, StackInv, Early, Late

FramesOf(s) == {s.map[p].to : p \in DOMAIN s.map}

\* vmap of a page that was not there reaches what was reached before.
LEMMA FreshMapped ==
    ASSUME NEW s, NEW r, NEW page, NEW frame, Vmapped(s, r, page, frame), page \notin DOMAIN s.map, ~ r.short
    PROVE  FramesOf(r) = FramesOf(s) \cup {frame}
<1>1. \A p \in DOMAIN s.map : p \in DOMAIN r.map /\ r.map[p] = s.map[p]
  BY DEF Vmapped
<1>2. page \in DOMAIN r.map /\ r.map[page].to = frame
  BY DEF Vmapped
<1>3. \A p \in DOMAIN r.map : p = page \/ (p \in DOMAIN s.map /\ r.map[p] = s.map[p])
  BY DEF Vmapped
<1>4. ASSUME NEW x \in FramesOf(r) PROVE x \in FramesOf(s) \cup {frame}
  BY <1>2, <1>3 DEF FramesOf
<1>5. ASSUME NEW x \in FramesOf(s) \cup {frame} PROVE x \in FramesOf(r)
  BY <1>1, <1>2 DEF FramesOf
<1> QED
  BY <1>4, <1>5

LEMMA SegmentPageLost == FrameInv /\ SpaceInv /\ LostInv /\ SegmentPage => LostInv'
<1> SUFFICES ASSUME FrameInv, SpaceInv, LostInv, SegmentPage PROVE LostInv'
  OBVIOUS
<1>1. PICK page, frame : page = loop.page + loop.n /\ frame = loop.frame + loop.n
  OBVIOUS
<1>2. /\ Vmapped(m, m', page, frame)
      /\ loop'.n = loop.n + 1 /\ loop'.page = loop.page /\ loop'.frame = loop.frame
  BY <1>1, SegmentPageFrames
<1>3. /\ stage = "segment" /\ stage' = stage /\ managed' = managed /\ image' = image /\ seg' = seg
      /\ loop.n < Pages(Header)
  BY DEF SegmentPage
<1>4. /\ First(Header) \in Nat /\ Pages(Header) \in Nat /\ loop.n \in Nat /\ loop.page = First(Header)
      /\ loop.frame \in Nat /\ frame \in m.held /\ Pages(Header)' = Pages(Header)
  <2>1. First(Header) \in Nat /\ Pages(Header) \in Nat /\ loop.n \in Nat
    BY <1>3, HeaderIn DEF FrameInv, LoopOwns
  <2>2. frame \in m.held
    BY <2>1, <1>1, <1>3 DEF FrameInv, LoopOwns
  <2> QED
    BY <2>1, <2>2, <1>3 DEF SpaceInv, LoopInv, Header, Pages, First
<1>5. Loaded' = Loaded
  BY <1>3, LoadedFacts
<1>6. /\ m'.held = m.held
      /\ \A p \in DOMAIN m'.map : (p = page /\ m'.map[p].to = frame) \/ (p \in DOMAIN m.map /\ m'.map[p] = m.map[p])
  BY <1>2 DEF Vmapped
<1>7. page \in SegPages(Header) /\ page \notin loop.page .. loop.page + loop.n - 1
      /\ page \in loop.page .. loop.page + loop.n
  BY <1>1, <1>3, <1>4 DEF SegPages
<1>8. page \notin DOMAIN m.map
  <2>1. \A k \in Loaded : page \notin SegPages(image.ph[k])
    BY <1>3, <1>7, OtherPages
  <2> QED
    BY <2>1, <1>3, <1>7 DEF LostInv, DomInv
<1>9. DomInv'
  <2>1. ASSUME NEW p \in DOMAIN m'.map
        PROVE  (\E k \in Loaded : p \in SegPages(image.ph[k])) \/ p \in loop.page .. loop.page + loop.n
    <3>1. CASE p = page
      BY <3>1, <1>7
    <3>2. CASE p \in DOMAIN m.map
      <4>1. (\E k \in Loaded : p \in SegPages(image.ph[k])) \/ p \in loop.page .. loop.page + loop.n - 1
        BY <3>2, <1>3 DEF LostInv, DomInv
      <4> QED
        BY <4>1, <1>4
    <3> QED
      BY <3>1, <3>2, <1>6
  <2>2. loop'.n - 1 = loop.n /\ loop'.page + loop'.n - 1 = loop.page + loop.n
    BY <1>2, <1>4
  <2> QED
    BY <2>1, <2>2, <1>2, <1>3, <1>5 DEF DomInv
<1>10. \A p \in DOMAIN m'.map : m'.map[p].to \in m'.held
  BY <1>3, <1>4, <1>6 DEF LostInv, Early
<1>11. ASSUME ~ m'.short PROVE Lost' = {}
  <2>1. ~ m.short
    BY <1>2, <1>11 DEF Vmapped
  <2>2. m.held \subseteq Mapped \cup Hand
    BY <2>1, <1>3, NothingLost DEF Early
  <2>3. Mapped' = Mapped \cup {frame}
    BY <1>2, <1>8, <1>11, FreshMapped DEF Mapped, FramesOf
  <2>4. ASSUME NEW x \in Hand PROVE x = frame \/ x \in Hand'
    <3>1. PICK n \in loop.n .. Pages(Header) - 1 : x = loop.frame + n
      BY <1>3 DEF Hand
    <3>2. CASE n = loop.n
      BY <3>1, <3>2, <1>1
    <3>3. CASE n # loop.n
      <4>1. n \in loop'.n .. Pages(Header)' - 1
        BY <3>1, <3>3, <1>2, <1>4
      <4> QED
        BY <4>1, <3>1, <1>2, <1>3 DEF Hand
    <3> QED
      BY <3>2, <3>3
  <2> QED
    BY <2>2, <2>3, <2>4, <1>6 DEF Lost
<1> QED
  BY <1>3, <1>9, <1>10, <1>11 DEF LostInv, StackInv, Early, Late

LEMMA SegmentCopiedLost == FrameInv /\ SpaceInv /\ LostInv /\ SegmentCopied => LostInv'
<1> SUFFICES ASSUME FrameInv, SpaceInv, LostInv, SegmentCopied PROVE LostInv'
  OBVIOUS
<1>1. /\ stage = "segment" /\ stage' = "load" /\ managed' = managed /\ image' = image /\ seg' = seg + 1
      /\ loop.n = Pages(Header)
  BY DEF SegmentCopied
<1>2. m'.map = m.map /\ m'.held = m.held /\ m'.short = m.short
  <2>1. PICK d : m' = [m EXCEPT !.data = d]
    BY DEF SegmentCopied, Filled
  <2> QED
    BY <2>1, UseData DEF FrameInv
<1>3. Header.load /\ loop.page = First(Header) /\ Pages(Header) \in Nat
  BY <1>1, HeaderIn DEF SpaceInv, LoopInv, FrameInv, LoopOwns
<1>4. Loaded' = Loaded \cup {seg + 1}
  BY <1>1, <1>3, LoadedFacts
<1>5. DomInv'
  <2>1. ASSUME NEW p \in DOMAIN m.map PROVE \E k \in Loaded \cup {seg + 1} : p \in SegPages(image.ph[k])
    <3>1. (\E k \in Loaded : p \in SegPages(image.ph[k])) \/ p \in loop.page .. loop.page + loop.n - 1
      BY <1>1 DEF LostInv, DomInv
    <3>2. loop.page .. loop.page + loop.n - 1 = SegPages(image.ph[seg + 1])
      BY <1>1, <1>3 DEF SegPages, Header
    <3> QED
      BY <3>1, <3>2
  <2> QED
    BY <2>1, <1>1, <1>2, <1>4 DEF DomInv
<1>6. Hand = {} /\ Hand' = {} /\ Mapped' = Mapped
  <2>1. loop.n .. Pages(Header) - 1 = {}
    BY <1>1, <1>3
  <2> QED
    BY <2>1, <1>1, <1>2 DEF Hand, Mapped
<1> QED
  BY <1>1, <1>2, <1>5, <1>6 DEF LostInv, StackInv, Early, Late, Lost

LEMMA StackRegionLost == FrameInv /\ SpaceInv /\ LostInv /\ StackRegion => LostInv'
<1> SUFFICES ASSUME FrameInv, SpaceInv, LostInv, StackRegion PROVE LostInv'
  OBVIOUS
<1>1. PICK b \in DOMAIN regions, g \in m.avail :
             /\ m' = Taken(m, {g}) /\ loop' = [page |-> EndOf(regions[b]), frame |-> 0, n |-> 0]
  BY StackRegionFacts
<1>2. stage = "spawn" /\ stage' = "stack" /\ seg' = seg /\ image' = image /\ managed' = managed
  BY DEF StackRegion
<1>3. m'.map = m.map /\ m'.held = m.held /\ m'.short = m.short
  BY <1>1, TakenFacts DEF FrameInv, UseOK
<1>4. Loaded' = Loaded
  BY <1>2, LoadedFacts
<1>5. DomInv'
  BY <1>2, <1>3, <1>4 DEF LostInv, DomInv
<1>6. loop'.n = 0 /\ StackSize \in Nat /\ Start \in Nat
  BY <1>1, SpacesAssumption
<1>7. StackInv'
  BY <1>2, <1>6 DEF StackInv
<1>8. Lost' = Lost
  BY <1>2, <1>3 DEF Lost, Mapped, Hand
<1> QED
  BY <1>2, <1>3, <1>5, <1>7, <1>8 DEF LostInv, Early, Late

LEMMA StackPageLost == FrameInv /\ SpaceInv /\ LostInv /\ StackPage => LostInv'
<1> SUFFICES ASSUME FrameInv, SpaceInv, LostInv, StackPage PROVE LostInv'
  OBVIOUS
<1>0. PICK f \in m.avail : \E s : /\ s = [Taken(m, {f}) EXCEPT !.held = @ \cup {f}]
                                  /\ Vmapped(s, m', loop.page + loop.n, f)
  BY StackPageFrames
<1>1. PICK s : s = [Taken(m, {f}) EXCEPT !.held = @ \cup {f}] /\ Vmapped(s, m', loop.page + loop.n, f)
  BY <1>0
<1>2. loop'.page = loop.page /\ loop'.n = loop.n + 1
  BY StackPageFrames
<1>3. /\ stage = "stack" /\ stage' = stage /\ managed' = managed /\ image' = image /\ seg' = seg
      /\ loop.n < StackSize
  BY DEF StackPage
<1>4. loop.page = Start /\ loop.n \in Nat /\ Start \in Nat \ {0} /\ StackSize \in Nat
  BY <1>3, SpacesAssumption DEF SpaceInv, LoopInv, FrameInv, LoopOwns
<1>5. PICK page \in Nat : page = loop.page + loop.n /\ page < Start + StackSize
  BY <1>3, <1>4
<1>6. Loaded' = Loaded
  BY <1>3, LoadedFacts
<1>7. s.map = m.map /\ s.held = m.held \cup {f} /\ s.short = m.short
  BY <1>1 DEF FrameInv, UseOK, IsMemory, Taken
<1>8. /\ m'.held = m.held \cup {f}
      /\ \A p \in DOMAIN m'.map : (p = page /\ m'.map[p].to = f) \/ (p \in DOMAIN m.map /\ m'.map[p] = m.map[p])
  BY <1>1, <1>5, <1>7 DEF Vmapped
<1>9. page \notin DOMAIN m.map
  <2>1. \A k \in Loaded : page \notin SegPages(image.ph[k])
    BY <1>3, <1>5, LowPages
  <2>2. page \notin loop.page .. loop.page + loop.n - 1
    BY <1>4, <1>5
  <2> QED
    BY <2>1, <2>2, <1>3 DEF LostInv, DomInv
<1>10. DomInv'
  <2>1. ASSUME NEW p \in DOMAIN m'.map
        PROVE  (\E k \in Loaded : p \in SegPages(image.ph[k])) \/ p \in loop.page .. loop.page + loop.n
    <3>1. CASE p = page
      BY <3>1, <1>4, <1>5
    <3>2. CASE p \in DOMAIN m.map
      <4>1. (\E k \in Loaded : p \in SegPages(image.ph[k])) \/ p \in loop.page .. loop.page + loop.n - 1
        BY <3>2, <1>3 DEF LostInv, DomInv
      <4> QED
        BY <4>1, <1>4
    <3> QED
      BY <3>1, <3>2, <1>8
  <2>2. loop'.page + loop'.n - 1 = loop.page + loop.n
    BY <1>2, <1>4
  <2> QED
    BY <2>1, <2>2, <1>2, <1>3, <1>6 DEF DomInv
<1>11. StackInv'
  <2>1. loop'.n <= StackSize
    BY <1>2, <1>3, <1>4
  <2>2. ASSUME ~ m'.short, NEW p \in Start .. Start + loop'.n - 1 PROVE p \in DOMAIN m'.map
    <3>1. ~ m.short /\ page \in DOMAIN m'.map /\ DOMAIN m.map \subseteq DOMAIN m'.map
      BY <2>2, <1>1, <1>5, <1>7 DEF Vmapped
    <3>2. p = page \/ p \in Start .. Start + loop.n - 1
      BY <1>2, <1>4, <1>5
    <3> QED
      BY <3>1, <3>2, <1>3 DEF LostInv, StackInv
  <2> QED
    BY <2>1, <2>2, <1>3 DEF StackInv
<1>12. \A p \in DOMAIN m'.map : m'.map[p].to \in m'.held
  BY <1>3, <1>8 DEF LostInv, Early
<1>13. ASSUME ~ m'.short PROVE Lost' = {}
  <2>1. ~ m.short
    BY <1>1, <1>7, <1>13 DEF Vmapped
  <2>2. m.held \subseteq Mapped
    BY <2>1, <1>3, NothingLost DEF Early, Hand
  <2>3. Mapped' = Mapped \cup {f}
    <3>1. PICK r : r = m'
      OBVIOUS
    <3>2. Vmapped(s, r, page, f) /\ page \notin DOMAIN s.map /\ ~ r.short
      BY <3>1, <1>1, <1>5, <1>7, <1>9, <1>13
    <3>3. FramesOf(r) = FramesOf(s) \cup {f}
      BY <3>2, FreshMapped
    <3> QED
      BY <3>1, <3>3, <1>7 DEF Mapped, FramesOf
  <2> QED
    BY <2>2, <2>3, <1>8 DEF Lost
<1> QED
  BY <1>3, <1>10, <1>11, <1>12, <1>13 DEF LostInv, Early, Late

\* A page of the kernel goes to a page of the stack, whose frame is then lost,
\* or to a page that was not there.
LEMMA KernelPageLost == FrameInv /\ SpaceInv /\ LostInv /\ KernelPage => LostInv'
<1> SUFFICES ASSUME FrameInv, SpaceInv, LostInv, KernelPage PROVE LostInv'
  OBVIOUS
<1>1. PICK i : i = loop.n + 1
  OBVIOUS
<1>2. PICK page, frame : page = KMap[i].page /\ frame = KMap[i].frame
  OBVIOUS
<1>3. Vmapped(m, m', page, frame) /\ loop'.n = i
  BY <1>1, <1>2, KernelPageFrames
<1>4. /\ stage = "kernel" /\ stage' = stage /\ managed' = managed /\ image' = image /\ seg' = seg
      /\ loop.n < Len(KMap) /\ loop.n \in Nat
  BY DEF KernelPage, FrameInv, LoopOwns
<1>5. i \in 1 .. Len(KMap) /\ page \in KPages /\ page \in Nat \ {0} /\ frame \in KFrames
  BY <1>1, <1>2, <1>4, KernelFacts
<1>6. Loaded' = Loaded
  BY <1>4, LoadedFacts
<1>7. frame \notin m.held /\ frame \notin managed /\ m.held \subseteq managed
  BY <1>5 DEF FrameInv, UseOK
<1>8. /\ m'.held = m.held
      /\ \A p \in DOMAIN m'.map : (p = page /\ m'.map[p].to = frame) \/ (p \in DOMAIN m.map /\ m'.map[p] = m.map[p])
  BY <1>3 DEF Vmapped
<1>9. \A j \in 1 .. loop.n : j \in 1 .. i /\ KMap[j].page # page
  <2>1. ASSUME NEW j \in 1 .. loop.n PROVE j \in 1 .. i /\ KMap[j].page # page
    <3>1. j \in DOMAIN KMap /\ i \in DOMAIN KMap /\ j # i /\ j \in 1 .. i
      BY <1>1, <1>4, <1>5, KernelFacts
    <3> QED
      BY <3>1, <1>2, SpacesAssumption
  <2> QED
    BY <2>1
<1>10. DomInv'
  <2>1. ASSUME NEW p \in DOMAIN m'.map
        PROVE  \/ \E k \in Loaded : p \in SegPages(image.ph[k])
               \/ p \in StackPages \/ \E j \in 1 .. i : p = KMap[j].page
    <3>1. CASE p = page
      BY <3>1, <1>2, <1>5
    <3>2. CASE p \in DOMAIN m.map
      <4>1. \/ \E k \in Loaded : p \in SegPages(image.ph[k])
            \/ p \in StackPages \/ \E j \in 1 .. loop.n : p = KMap[j].page
        BY <3>2, <1>4 DEF LostInv, DomInv
      <4> QED
        BY <4>1, <1>9
    <3> QED
      BY <3>1, <3>2, <1>8
  <2> QED
    BY <2>1, <1>3, <1>4, <1>6 DEF DomInv
<1>11. StackInv'
  <2>1. ASSUME ~ m'.short, NEW p \in StackPages
        PROVE  (\E j \in 1 .. i : p = KMap[j].page) \/ (p \in DOMAIN m'.map /\ m'.map[p].to \in m'.held)
    <3>1. ~ m.short /\ DOMAIN m.map \subseteq DOMAIN m'.map
      BY <2>1, <1>3 DEF Vmapped
    <3>2. CASE p = page
      BY <3>2, <1>2, <1>5
    <3>3. CASE p # page
      <4>1. (\E j \in 1 .. loop.n : p = KMap[j].page) \/ (p \in DOMAIN m.map /\ m.map[p].to \in m.held)
        BY <3>1, <1>4, <2>1 DEF LostInv, StackInv
      <4> QED
        BY <4>1, <3>1, <3>3, <1>8, <1>9
    <3> QED
      BY <3>2, <3>3
  <2> QED
    BY <2>1, <1>3, <1>4 DEF StackInv
<1>12. ASSUME ~ m'.short PROVE Cardinality(Lost') = Cardinality(MappedOver')
  <2>1. ~ m.short /\ page \in DOMAIN m'.map /\ m'.map[page].to = frame
    BY <1>3, <1>12 DEF Vmapped
  <2>2. Cardinality(Lost) = Cardinality(MappedOver)
    BY <2>1, <1>4 DEF LostInv, Late
  <2>3. Hand = {} /\ Hand' = {}
    BY <1>4 DEF Hand
  <2>4. \A p \in DOMAIN m.map : p # page => p \in DOMAIN m'.map /\ m'.map[p] = m.map[p]
    BY <1>3 DEF Vmapped
  <2>5. MappedOver' = MappedOver \cup ({page} \cap StackPages)
    <3>1. ASSUME NEW p \in StackPages
          PROVE  p \in MappedOver' <=> p \in MappedOver \/ p = page
      <4>1. p \in MappedOver <=> p \in DOMAIN m.map /\ m.map[p].to \notin managed
        BY DEF MappedOver, StackPages
      <4>2. p \in MappedOver' <=> p \in DOMAIN m'.map /\ m'.map[p].to \notin managed
        BY <1>4 DEF MappedOver, StackPages
      <4> QED
        BY <4>1, <4>2, <2>1, <2>4, <1>7, <1>8
    <3>2. MappedOver \subseteq StackPages /\ MappedOver' \subseteq StackPages
      BY DEF MappedOver, StackPages
    <3> QED
      BY <3>1, <3>2
  <2>6. CASE page \in StackPages
    <3>1. PICK g : g = m.map[page].to
      OBVIOUS
    <3>2. page \in DOMAIN m.map /\ g \in m.held
      BY <2>1, <2>6, <3>1, <1>4, <1>9 DEF LostInv, StackInv
    <3>3. page \notin MappedOver
      BY <3>1, <3>2, <1>7 DEF MappedOver
    <3>4. \A p \in DOMAIN m.map : m.map[p].to = g => p = page
      BY <3>1, <3>2 DEF SpaceInv, MemInv, MapOK
    <3>5. ASSUME NEW x \in m.held PROVE x \in Mapped' <=> x \in Mapped /\ x # g
      <4>1. ASSUME x \in Mapped' PROVE x \in Mapped /\ x # g
        <5>1. PICK p \in DOMAIN m'.map : x = m'.map[p].to
          BY <4>1 DEF Mapped
        <5>2. p # page /\ p \in DOMAIN m.map /\ m'.map[p] = m.map[p]
          BY <5>1, <2>1, <1>7, <1>8
        <5> QED
          BY <5>1, <5>2, <3>4 DEF Mapped
      <4>2. ASSUME x \in Mapped, x # g PROVE x \in Mapped'
        <5>1. PICK p \in DOMAIN m.map : x = m.map[p].to
          BY <4>2 DEF Mapped
        <5>2. p # page
          BY <5>1, <4>2, <3>1
        <5>3. p \in DOMAIN m'.map /\ x = m'.map[p].to
          BY <5>1, <5>2, <2>4
        <5> QED
          BY <5>3 DEF Mapped
      <4> QED
        BY <4>1, <4>2
    <3>6. Lost' = Lost \cup {g} /\ g \notin Lost
      <4>1. g \in Mapped
        BY <3>1, <3>2 DEF Mapped
      <4> QED
        BY <4>1, <3>2, <3>5, <2>3, <1>8 DEF Lost
    <3>7. MappedOver' = MappedOver \cup {page}
      BY <2>5, <2>6
    <3>8. IsFiniteSet(Lost) /\ IsFiniteSet(MappedOver)
      <4>1. IsFiniteSet(managed) /\ Lost \subseteq managed
        BY <1>7, SpacesAssumption DEF LostInv, Lost
      <4>2. IsFiniteSet(StackPages) /\ MappedOver \subseteq StackPages
        BY SpacesAssumption, FS_Interval DEF StackPages, MappedOver
      <4> QED
        BY <4>1, <4>2, FS_Subset
    <3>9. Cardinality(Lost \cup {g}) = Cardinality(Lost) + 1
      BY <3>6, <3>8, FS_AddElement
    <3>10. Cardinality(MappedOver \cup {page}) = Cardinality(MappedOver) + 1
      BY <3>3, <3>8, FS_AddElement
    <3> QED
      BY <2>2, <3>6, <3>7, <3>9, <3>10
  <2>7. CASE page \notin StackPages
    <3>1. page \notin DOMAIN m.map
      <4>1. \A k \in Loaded : page \notin SegPages(image.ph[k])
        BY <1>4, <1>5, LowPages
      <4> QED
        BY <4>1, <2>7, <1>4, <1>9 DEF LostInv, DomInv
    <3>2. Mapped' = Mapped \cup {frame}
      BY <3>1, <1>3, <1>12, FreshMapped DEF Mapped, FramesOf
    <3>3. Lost' = Lost
      BY <3>2, <2>3, <1>7, <1>8 DEF Lost
    <3>4. MappedOver' = MappedOver
      BY <2>5, <2>7
    <3> QED
      BY <2>2, <3>3, <3>4
  <2> QED
    BY <2>6, <2>7
<1> QED
  BY <1>4, <1>10, <1>11, <1>12 DEF LostInv, Early, Late

LEMMA CopyLost ==
    ASSUME FrameInv, LostInv, NEW op, NEW a, NEW n, Copy(op, a, n)
    PROVE  LostInv'
<1>1. stage = "user" /\ stage' \in {"user", "fault"} /\ managed' = managed
  BY DEF Copy
<1>2. m'.map = m.map /\ m'.held = m.held /\ m'.short = m.short
  <2>1. m' = m \/ \E d : m' = [m EXCEPT !.data = d]
    BY DEF Copy
  <2>2. UseOK(m, ctx, DescsOf(regions), managed)
    BY DEF FrameInv
  <2>3. CASE m' = m
    BY <2>3
  <2>4. CASE \E d : m' = [m EXCEPT !.data = d]
    BY <2>2, <2>4, UseData
  <2> QED
    BY <2>1, <2>3, <2>4
<1>3. Lost' = Lost /\ MappedOver' = MappedOver
  BY <1>1, <1>2 DEF Lost, Mapped, Hand, MappedOver
<1> QED
  BY <1>1, <1>2, <1>3 DEF LostInv, DomInv, StackInv, Early, Late

LEMMA NextLost == FrameInv /\ SpaceInv /\ LostInv /\ [Next]_vars => LostInv'
<1> SUFFICES ASSUME FrameInv, SpaceInv, LostInv, [Next]_vars PROVE LostInv'
  OBVIOUS
<1>1. CASE UNCHANGED vars
  <2>1. Lost' = Lost /\ MappedOver' = MappedOver /\ Loaded' = Loaded
    BY <1>1 DEF vars, Lost, Mapped, Hand, MappedOver, Loaded, Header, Pages, First
  <2> QED
    BY <1>1, <2>1 DEF vars, LostInv, DomInv, StackInv, Early, Late
<1>2. CASE \E op \in {"from", "to"}, a \in Addresses, n \in Lengths : Copy(op, a, n)
  BY <1>2, CopyLost
<1>3. CASE Reap
  <2>1. stage' = "reaped" /\ managed' = managed
    BY <1>3 DEF Reap
  <2> QED
    BY <2>1 DEF LostInv, DomInv, StackInv, Early, Late
<1> QED
  BY <1>1, <1>2, <1>3, VinitLost, QuietLost, LoadSegmentLost, SegmentPageLost, SegmentCopiedLost,
     StackRegionLost, StackPageLost, KernelPageLost DEF Next

THEOREM Invariance == Spec => [](FrameInv /\ SpaceInv /\ LostInv)
<1>1. Init => FrameInv /\ SpaceInv /\ LostInv
  BY InitFrames, InitSpace, InitLost
<1>2. FrameInv /\ SpaceInv /\ LostInv /\ [Next]_vars => FrameInv' /\ SpaceInv' /\ LostInv'
  BY NextFrames, NextSpace, NextLost
<1> QED
  BY <1>1, <1>2, PTL DEF Spec

\* For every amount of memory, every module and every order of failures: no
\* frame has two uses or two pages, and until the process is reaped the frames
\* the kernel no longer reaches are as many as the pages of the stack that it
\* mapped over, as long as there was memory for page tables.
THEOREM FramesAccountedCorrect == Spec => []FramesAccounted
<1>1. FrameInv /\ SpaceInv /\ LostInv => FramesAccounted
  <2> SUFFICES ASSUME FrameInv, SpaceInv, LostInv PROVE FramesAccounted
    OBVIOUS
  <2>1. PICK D : D = {r.desc : r \in Range(regions)}
    OBVIOUS
  <2>2. PICK T : T = Range(m.tables)
    OBVIOUS
  <2>3. PICK uses : uses = <<m.avail, T, ctx, D, Mapped, Hand>>
    OBVIOUS
  <2>4. UseOK(m, ctx, D, managed) /\ Cardinality(D) = Len(regions)
    BY <2>1, DescsCount DEF FrameInv, DescsOf
  <2>5. /\ DOMAIN uses = 1 .. 6 /\ uses[1] = m.avail /\ uses[2] = T /\ uses[3] = ctx /\ uses[4] = D
        /\ uses[5] = Mapped /\ uses[6] = Hand
    BY <2>3
  <2>6. Hand \subseteq m.held /\ Mapped \cap Hand = {}
    <3>1. CASE stage = "segment"
      <4>1. Pages(Header) \in Nat /\ loop.n \in Nat /\ loop.frame \in Nat
        BY <3>1, HeaderIn DEF FrameInv, LoopOwns, SpaceInv, LoopInv
      <4>2. ASSUME NEW x \in Hand PROVE x \in m.held /\ x \notin Mapped
        <5>1. PICK n \in loop.n .. Pages(Header) - 1 : x = loop.frame + n
          BY <3>1 DEF Hand
        <5>2. n \in 0 .. Pages(Header) - 1 /\ ~ (n < loop.n)
          BY <5>1, <4>1
        <5>3. x \in m.held
          BY <5>1, <5>2, <3>1 DEF FrameInv, LoopOwns
        <5>4. \A q \in DOMAIN m.map : m.map[q].to # x
          BY <5>1, <5>2, <3>1 DEF SpaceInv, LoopInv
        <5> QED
          BY <5>3, <5>4 DEF Mapped
      <4> QED
        BY <4>2
    <3>2. CASE stage # "segment"
      BY <3>2 DEF Hand
    <3> QED
      BY <3>1, <3>2
  <2>7. /\ Mapped \subseteq m.held \cup KFrames
        /\ managed \cap KFrames = {}
        /\ m.avail \subseteq managed /\ T \subseteq managed /\ ctx \subseteq managed /\ D \subseteq managed
    BY <2>2, <2>4 DEF UseOK, Mapped
  <2>8. /\ m.avail \cap T = {} /\ m.avail \cap ctx = {} /\ m.avail \cap D = {} /\ m.avail \cap m.held = {}
        /\ T \cap ctx = {} /\ T \cap D = {} /\ T \cap m.held = {}
        /\ ctx \cap D = {} /\ ctx \cap m.held = {} /\ D \cap m.held = {}
    BY <2>2, <2>4 DEF UseOK
  <2>9. ASSUME NEW i \in 1 .. 6, NEW j \in 1 .. 6, i < j PROVE uses[i] \cap uses[j] = {}
    <3>1. ASSUME NEW S \in {m.avail, T, ctx, D} PROVE S \cap Mapped = {} /\ S \cap Hand = {}
      <4>1. S \subseteq managed /\ S \cap m.held = {}
        BY <2>7, <2>8
      <4> QED
        BY <4>1, <2>6, <2>7
    <3>2. i = 1 \/ i = 2 \/ i = 3 \/ i = 4 \/ i = 5
      BY <2>9
    <3>3. CASE i = 1
      <4>1. j = 2 \/ j = 3 \/ j = 4 \/ j = 5 \/ j = 6
        BY <2>9, <3>3
      <4> QED
        BY <2>8, <3>1, <3>3, <4>1, <2>5
    <3>4. CASE i = 2
      <4>1. j = 3 \/ j = 4 \/ j = 5 \/ j = 6
        BY <2>9, <3>4
      <4> QED
        BY <2>8, <3>1, <3>4, <4>1, <2>5
    <3>5. CASE i = 3
      <4>1. j = 4 \/ j = 5 \/ j = 6
        BY <2>9, <3>5
      <4> QED
        BY <2>8, <3>1, <3>5, <4>1, <2>5
    <3>6. CASE i = 4
      <4>1. j = 5 \/ j = 6
        BY <2>9, <3>6
      <4> QED
        BY <3>1, <3>6, <4>1, <2>5
    <3>7. CASE i = 5
      <4>1. j = 6
        BY <2>9, <3>7
      <4> QED
        BY <2>6, <3>7, <4>1, <2>5
    <3> QED
      BY <3>2, <3>3, <3>4, <3>5, <3>6, <3>7
  <2>10. ASSUME NEW i \in DOMAIN uses, NEW j \in DOMAIN uses, i # j PROVE uses[i] \cap uses[j] = {}
    <3>1. i \in 1 .. 6 /\ j \in 1 .. 6 /\ (i < j \/ j < i)
      BY <2>5, <2>10
    <3>2. uses[j] \cap uses[i] = {} => uses[i] \cap uses[j] = {}
      OBVIOUS
    <3> QED
      BY <3>1, <3>2, <2>9
  <2>11. managed \ UNION Range(uses) = Lost
    <3>1. ASSUME NEW x PROVE x \in UNION Range(uses) <=> \E i \in 1 .. 6 : x \in uses[i]
      BY <2>5 DEF Range
    <3>2. ASSUME NEW x
          PROVE (\E i \in 1 .. 6 : x \in uses[i])
                    <=> (x \in m.avail \/ x \in T \/ x \in ctx \/ x \in D \/ x \in Mapped \/ x \in Hand)
      <4>1. 1 .. 6 = {1, 2, 3, 4, 5, 6}
        OBVIOUS
      <4> QED
        BY <4>1, <2>5
    <3>3. ASSUME NEW x
          PROVE x \in managed <=> (x \in m.avail \/ x \in T \/ x \in ctx \/ x \in D \/ x \in m.held)
      BY <2>2, <2>4 DEF UseOK
    <3>4. ASSUME NEW x \in m.held PROVE x \notin m.avail /\ x \notin T /\ x \notin ctx /\ x \notin D
      BY <2>8
    <3>5. ASSUME NEW x PROVE x \in managed \ UNION Range(uses) <=> x \in Lost
      BY <3>1, <3>2, <3>3, <3>4 DEF Lost
    <3> QED
      BY <3>5
  <2>12. ASSUME NEW p \in DOMAIN m.map, NEW q \in DOMAIN m.map, m.map[p].to = m.map[q].to, m.map[p].to \in managed
         PROVE  p = q
    <3>1. m.map[p].to \in m.held
      BY <2>7, <2>12 DEF Mapped
    <3> QED
      BY <3>1, <2>12 DEF SpaceInv, MemInv, MapOK
  <2>13. ASSUME stage # "reaped", ~ m.short PROVE Cardinality(Lost) = Cardinality(MappedOver)
    <3>1. CASE Early
      <4>1. Lost = {} /\ MappedOver = {}
        BY <3>1, <2>13, NothingLost
      <4> QED
        BY <4>1
    <3>2. CASE Late
      BY <3>2, <2>13 DEF LostInv
    <3> QED
      BY <3>1, <3>2, <2>13 DEF LostInv
  <2> QED
    BY <2>1, <2>2, <2>3, <2>4, <2>10, <2>11, <2>12, <2>13 DEF FramesAccounted
<1> QED
  BY <1>1, Invariance, PTL

\* Whatever the module, the memory and the copies before: copy_from_user and
\* copy_to_user stay in the segments of the process, and end at the first page
\* they may not touch.
THEOREM CopiesInsideCorrect == Spec => []CopiesInside
<1>1. SpaceInv => CopiesInside
  BY DEF SpaceInv
<1> QED
  BY <1>1, Invariance, PTL

\* Whatever the module and the memory: a process that starts finds its image
\* and the kernel, as long as there was memory for page tables.
THEOREM ImageIntactCorrect == Spec => []ImageIntact
<1>1. FrameInv /\ SpaceInv => ImageIntact
  <2> SUFFICES ASSUME FrameInv, SpaceInv, stage = "user" PROVE ImageIntact
    BY DEF ImageIntact
  <2>1. rip # 0 /\ seg = Len(image.ph)
    BY DEF SpaceInv, RunInv
  <2>2. ASSUME ~ m.short PROVE ImageOK(m, Loaded, image) /\ KernelOK(m, Len(KMap))
    BY <2>2 DEF SpaceInv, MemInv, KernelDone
  <2>3. ASSUME ~ m.short, NEW x \in Range(KMap) PROVE x.page \in DOMAIN m.map /\ m.map[x.page].to = x.frame
    BY <2>2, <2>3, KernelFacts DEF KernelOK
  <2>4. ASSUME ~ m.short, NEW k \in Loaded, NEW h, h = image.ph[k], NEW a \in Bytes(h)
        PROVE  /\ a \div PageSize \in DOMAIN m.map /\ m.map[a \div PageSize].to \in m.held
               /\ \/ Byte(a) = IF a - h.vaddr < h.filesz THEN FileByte(h.offset + a - h.vaddr) ELSE Zero
                  \/ Byte(a) = Kernel /\ VALLOC_WRITE \in h.flags
    <3>1. Layout(regions, Loaded, image, TRUE) /\ image \in Images
      BY DEF SpaceInv, LayoutInv, Segs, Placed, FrameInv, LoopOwns
    <3>2. h \in Headers
      BY <2>4, <3>1, LayoutTypes
    <3>3. a \in Nat /\ a \div PageSize \in SegPages(h)
      BY <3>2, PagesFacts DEF SegPages
    <3>4. Right(m, h, a \div PageSize)
      BY <2>2, <2>4, <3>3 DEF ImageOK
    <3>5. PICK P \in Nat \ {0} : P = PageSize
      BY SpacesAssumption
    <3>6. PICK p, b : p = a \div PageSize /\ b = a % PageSize
      OBVIOUS
    <3>7. p \in Nat /\ b \in 0 .. PageSize - 1 /\ a = p * PageSize + b
      BY <3>3, <3>5, <3>6, DivFacts
    <3>8. h.vaddr \in Nat /\ h.offset \in Nat /\ h.filesz \in Nat /\ a >= h.vaddr
      <4>1. h.vaddr \in Nat /\ h.offset \in Nat /\ h.memsz \in Nat /\ h.filesz \in 0 .. h.memsz
        BY <3>2, SpacesAssumption
      <4> QED
        BY <4>1 DEF Bytes
    <3>9. Want(h, p, b) = IF a - h.vaddr < h.filesz THEN FileByte(h.offset + a - h.vaddr) ELSE Zero
      <4>1. PICK i : i = p * PageSize + b - h.vaddr
        OBVIOUS
      <4>2. i = a - h.vaddr /\ i \in Nat
        <5>1. i = a - h.vaddr
          <6>1. PICK w \in Nat : w = p * PageSize
            BY <3>5, <3>7
          <6>2. a = w + b /\ i = w + (b - h.vaddr) /\ b \in Nat
            BY <6>1, <4>1, <3>5, <3>7
          <6> QED
            BY <6>2, <3>8
        <5> QED
          BY <5>1, <3>3, <3>8
      <4>3. Want(h, p, b) = IF i \in 0 .. h.filesz - 1 THEN FileByte(h.offset + i) ELSE Zero
        BY <4>1 DEF Want
      <4>4. i \in 0 .. h.filesz - 1 <=> a - h.vaddr < h.filesz
        BY <4>2, <3>3, <3>8
      <4>5. h.offset + i = h.offset + a - h.vaddr
        BY <4>2, <3>3, <3>8
      <4> QED
        BY <4>3, <4>4, <4>5
    <3>10. Byte(a) = m.data[m.map[p].to][b] /\ Right(m, h, p)
      BY <3>4, <3>6, Zenon DEF Byte
    <3>11. /\ p \in DOMAIN m.map /\ m.map[p].to \in m.held
           /\ \/ m.data[m.map[p].to][b] = Want(h, p, b)
              \/ m.data[m.map[p].to][b] = Kernel /\ VALLOC_WRITE \in h.flags
      BY <3>7, <3>10 DEF Right
    <3>12. Byte(a) = Want(h, p, b) \/ (Byte(a) = Kernel /\ VALLOC_WRITE \in h.flags)
      BY <3>10, <3>11
    <3>13. a \div PageSize \in DOMAIN m.map /\ m.map[a \div PageSize].to \in m.held
      BY <3>6, <3>11
    <3> QED
      BY <3>9, <3>12, <3>13
  <2> QED
    BY <2>1, <2>3, <2>4 DEF ImageIntact
<1> QED
  BY <1>1, Invariance, PTL
=============================================================================
