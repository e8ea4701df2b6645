----------------------------- MODULE HeapProofs -----------------------------
(***************************************************************************)
(* Proofs about Heap, for a pool, a header, an alignment and request sizes *)
(* of any size: the blocks tile the pool, held memory is intact, the free  *)
(* list is sorted, complete and joined, and kmalloc gives up only when     *)
(* nothing fits.                                                           *)
(***************************************************************************)
EXTENDS Heap, TLAPS

\* x points to the first element of S above a, or to none.
FirstAbove(x, a, S) ==
    /\ x = NULL => \A d \in S : d <= a
    /\ x # NULL => x \in S /\ a < x /\ \A d \in S : a < d => x <= d

\* The list that starts at head and goes on by nx runs through S in order.
Sorted(head, nx, S) == FirstAbove(head, -1, S) /\ \A b \in S : FirstAbove(nx[b], b, S)

\* c is what the link of p points to: the head's if p is NULL.
LinkOf(p, c, head, nx, S) == (p = NULL => c = head) /\ (p # NULL => p \in S /\ nx[p] = c)

\* The link of p is set to x; the other links, of the elements of S, stay.
Relinked(p, x, head, nx, head2, nx2, S) ==
    /\ p = NULL => head2 = x
    /\ p # NULL => head2 = head /\ nx2[p] = x
    /\ \A b \in S : b # p => nx2[b] = nx[b]

\* The free blocks in the list: kfree's own is not yet.
Linked == IF pc = "kfree" THEN FreeBlocks \ {block} ELSE FreeBlocks

Freeing == pc \in {"kfree", "join_next", "join_prev"}

\* A request is at least a byte and rounded up; what kfree returns has no holder.
CallInv ==
    /\ pc = "kmalloc" => bytes > 0 /\ bytes <= want
    /\ Freeing => block \in FreeBlocks

ListInv == Sorted(freelist, next, Linked)

\* A walk stands at a link of the list: kmalloc has passed only blocks that are
\* too small, kfree only blocks before its own, and that is where it inserts.
WalkInv ==
    /\ pc \in {"kmalloc", "kfree"} => LinkOf(prev, cur, freelist, next, Linked)
    /\ pc = "kmalloc" => \A d \in Linked : (cur # NULL => d < cur) => size[d] < want
    /\ Freeing /\ prev # NULL => prev < block
    /\ pc \in {"join_next", "join_prev"} => LinkOf(prev, block, freelist, next, Linked)

\* Free neighbours exist only around a block that is being freed.
ApartInv ==
    \A b, d \in FreeBlocks : End(b) = d =>
        /\ Freeing
        /\ b = block \/ d = block
        /\ pc = "join_prev" => d = block

IInv == Tiling /\ HeldIntact /\ CallInv /\ ListInv /\ WalkInv /\ ApartInv

----------------------------------------------------------------------------
(***************************************************************************)
(* Sorted lists over a set of addresses.                                   *)
(***************************************************************************)

\* Taking the element c out of the list.
LEMMA RemoveNode ==
    ASSUME NEW S \in SUBSET Nat, NEW head, NEW nx, Sorted(head, nx, S),
           NEW c \in S, NEW p, LinkOf(p, c, head, nx, S),
           NEW head2, NEW nx2, Relinked(p, nx[c], head, nx, head2, nx2, S \ {c})
    PROVE  Sorted(head2, nx2, S \ {c})
<1> DEFINE T == S \ {c}
<1>0. NULL \notin Nat /\ \A d \in S : d \in Nat
  BY HeapAssumption
<1> USE <1>0
<1>1. \A b \in S : FirstAbove(nx[b], b, S)
  BY DEF Sorted
<1>2. p # NULL => p \in T /\ p \in Nat /\ p < c
  <2> SUFFICES ASSUME p # NULL PROVE p \in T /\ p \in Nat /\ p < c
    OBVIOUS
  <2>1. p \in S /\ p \in Nat /\ p < c
    BY <1>1 DEF LinkOf, FirstAbove
  <2>2. p # c
    BY <2>1
  <2> QED
    BY <2>1, <2>2
<1>3. \A b \in T : b # p => nx[b] # c
  <2> SUFFICES ASSUME NEW b \in T, b # p, nx[b] = c PROVE FALSE
    OBVIOUS
  <2>1. c # NULL /\ b < c /\ \A d \in S : d > b => c <= d
    BY <1>1 DEF FirstAbove
  <2>2. CASE p = NULL
    BY <2>1, <2>2 DEF LinkOf, Sorted, FirstAbove
  <2>3. CASE p # NULL
    <3>1. p < c /\ \A d \in S : d > p => c <= d
      BY <2>3, <1>1, <1>2 DEF LinkOf, FirstAbove
    <3> QED
      <4>1. p \in Nat /\ b \in Nat /\ p # b /\ p \in S /\ b \in S
        BY <1>2, <2>3
      <4>2. p < b \/ b < p
        BY <4>1
      <4> QED
        BY <2>1, <3>1, <4>1, <4>2
  <2> QED
    BY <2>2, <2>3
<1>4. \A b \in T : b # p => FirstAbove(nx2[b], b, T)
  <2> SUFFICES ASSUME NEW b \in T, b # p PROVE FirstAbove(nx2[b], b, T)
    OBVIOUS
  <2>1. nx2[b] = nx[b] /\ nx[b] # c /\ FirstAbove(nx[b], b, S)
    BY <1>1, <1>3 DEF Relinked
  <2> QED
    BY <2>1 DEF FirstAbove
<1>5. FirstAbove(nx[c], c, S)
  BY <1>1
<1>6. CASE p = NULL
  <2>1. head2 = nx[c] /\ \A d \in T : d > c
    BY <1>6 DEF Relinked, LinkOf, Sorted, FirstAbove
  <2>2. FirstAbove(head2, -1, T)
    <3>1. CASE nx[c] = NULL
      BY <3>1, <2>1, <1>5 DEF FirstAbove
    <3>2. CASE nx[c] # NULL
      <4>1. nx[c] \in S /\ c < nx[c] /\ nx[c] \in Nat /\ \A d \in T : nx[c] <= d
        BY <3>2, <2>1, <1>5 DEF FirstAbove
      <4>2. nx[c] # c
        BY <4>1
      <4> QED
        BY <4>1, <4>2, <3>2, <2>1 DEF FirstAbove
    <3> QED
      BY <3>1, <3>2
  <2> QED
    BY <2>2, <1>4, <1>6 DEF Sorted
<1>7. CASE p # NULL
  <2>1. head2 = head /\ nx2[p] = nx[c]
    BY <1>7 DEF Relinked
  <2>2. FirstAbove(nx2[p], p, T)
    <3>1. \A d \in S : d > p => c <= d
      BY <1>7, <1>1, <1>2 DEF LinkOf, FirstAbove
    <3> QED
      <4>1. \A d \in T : p < d => c < d
        BY <3>1
      <4>2. CASE nx[c] = NULL
        BY <4>1, <4>2, <2>1, <1>2, <1>5, <1>7 DEF FirstAbove
      <4>3. CASE nx[c] # NULL
        <5>1. nx[c] \in S /\ c < nx[c] /\ nx[c] \in Nat /\ \A d \in T : c < d => nx[c] <= d
          BY <4>3, <1>5 DEF FirstAbove
        <5>2. nx[c] # c /\ p < nx[c]
          BY <5>1, <1>2, <1>7
        <5> QED
          BY <4>1, <4>3, <5>1, <5>2, <2>1 DEF FirstAbove
      <4> QED
        BY <4>2, <4>3
  <2>3. FirstAbove(head2, -1, T)
    <3>1. head \in S /\ head # NULL /\ \A d \in S : -1 < d => head <= d
      BY DEF Sorted, FirstAbove
    <3>2. head <= p /\ p \in Nat /\ p < c /\ head \in Nat
      BY <3>1, <1>2, <1>7
    <3>3. head # c
      BY <3>2
    <3> QED
      BY <2>1, <3>1, <3>2, <3>3 DEF FirstAbove
  <2> QED
    BY <2>2, <2>3, <1>4 DEF Sorted
<1> QED
  BY <1>6, <1>7

\* Putting n into the list at a link that leads from below n to above it.
LEMMA InsertNode ==
    ASSUME NEW S \in SUBSET Nat, NEW head, NEW nx, Sorted(head, nx, S),
           NEW n \in Nat \ S, NEW c, NEW p, LinkOf(p, c, head, nx, S),
           p # NULL => p < n, c # NULL => n < c,
           NEW head2, NEW nx2, Relinked(p, n, head, nx, head2, nx2, S), nx2[n] = c
    PROVE  Sorted(head2, nx2, S \cup {n})
<1> DEFINE T == S \cup {n}
<1>0. NULL \notin Nat /\ (\A d \in S : d \in Nat) /\ n \in Nat
  BY HeapAssumption
<1> USE <1>0
<1>1. \A b \in S : FirstAbove(nx[b], b, S)
  BY DEF Sorted
<1>2. \A d \in S : d < n \/ d > n
  OBVIOUS
<1>3. \A d \in S : d > n => c # NULL /\ c <= d
  <2>1. CASE p = NULL
    BY <2>1 DEF LinkOf, Sorted, FirstAbove
  <2>2. CASE p # NULL
    <3>1. p \in S /\ p \in Nat /\ p < n /\ FirstAbove(c, p, S)
      BY <2>2, <1>1 DEF LinkOf
    <3>2. \A d \in S : n < d => p < d
      BY <3>1
    <3> QED
      BY <3>1, <3>2 DEF FirstAbove
  <2> QED
    BY <2>1, <2>2
<1>4. c # NULL => c \in S
  BY <1>1 DEF LinkOf, Sorted, FirstAbove
<1>5. FirstAbove(nx2[n], n, T)
  BY <1>2, <1>3, <1>4 DEF FirstAbove
<1>6. \A d \in S : d < n => p # NULL /\ d <= p
  <2>1. CASE p = NULL
    <3>1. FirstAbove(c, -1, S)
      BY <2>1 DEF LinkOf, Sorted
    <3>5. \A d \in S : -1 < d
      OBVIOUS
    <3>2. c # NULL => c \in Nat /\ \A d \in S : c <= d
      BY <3>1, <3>5 DEF FirstAbove
    <3>3. c = NULL => \A d \in S : d <= -1
      BY <3>1 DEF FirstAbove
    <3>4. \A d \in S : ~ (d < n)
      <4>1. CASE c = NULL
        BY <4>1, <3>3
      <4>2. CASE c # NULL
        BY <4>2, <3>2
      <4> QED
        BY <4>1, <4>2
    <3> QED
      BY <3>4
  <2>2. CASE p # NULL
    <3>1. FirstAbove(c, p, S) /\ p \in S /\ p \in Nat
      BY <2>2, <1>1 DEF LinkOf
    <3>2. CASE c = NULL
      BY <2>2, <3>1, <3>2 DEF FirstAbove
    <3>3. CASE c # NULL
      <4>1. c \in Nat /\ n < c /\ \A d \in S : p < d => c <= d
        BY <3>1, <3>3 DEF FirstAbove
      <4>2. ASSUME NEW d \in S, d < n PROVE d <= p
        BY <3>1, <4>1, <4>2
      <4> QED
        BY <2>2, <4>2
    <3> QED
      BY <3>2, <3>3
  <2> QED
    BY <2>1, <2>2
<1>7. \A b \in S : b # p => FirstAbove(nx2[b], b, T)
  <2> SUFFICES ASSUME NEW b \in S, b # p PROVE FirstAbove(nx2[b], b, T)
    OBVIOUS
  <2>1. nx2[b] = nx[b] /\ FirstAbove(nx[b], b, S)
    BY <1>1 DEF Relinked
  <2>2. CASE b > n
    BY <2>1, <2>2 DEF FirstAbove
  <2>3. CASE b < n
    <3>1. p # NULL /\ p \in S /\ p \in Nat /\ b <= p /\ p < n
      BY <2>3, <1>6 DEF LinkOf
    <3>2. b < p
      BY <3>1
    <3>3. nx[b] # NULL /\ nx[b] \in Nat /\ nx[b] \in S /\ nx[b] <= p /\ b < nx[b]
      <4>1. nx[b] # NULL
        <5>1. nx[b] = NULL => p <= b
          BY <2>1, <3>1 DEF FirstAbove
        <5> QED
          BY <5>1, <3>1, <3>2
      <4> QED
        BY <4>1, <2>1, <3>1, <3>2 DEF FirstAbove
    <3>4. nx[b] <= n
      BY <3>1, <3>3
    <3> QED
      BY <2>1, <3>3, <3>4 DEF FirstAbove
  <2> QED
    BY <2>2, <2>3, <1>2
<1>8. CASE p = NULL
  <2>1. head2 = n /\ \A d \in S : d > n
    BY <1>2, <1>6, <1>8 DEF Relinked
  <2> QED
    BY <2>1, <1>5, <1>7, <1>8 DEF Sorted, FirstAbove
<1>9. CASE p # NULL
  <2>1. head2 = head /\ nx2[p] = n /\ p \in S /\ p < n
    BY <1>9 DEF Relinked, LinkOf
  <2>2. FirstAbove(nx2[p], p, T)
    <3>1. \A d \in S : d > p => d > n
      BY <2>1, <1>2, <1>6
    <3> QED
      BY <2>1, <3>1 DEF FirstAbove
  <2>3. FirstAbove(head2, -1, T)
    <3>1. head \in S /\ head # NULL /\ \A d \in S : -1 < d => head <= d
      BY <2>1 DEF Sorted, FirstAbove
    <3>2. head <= p /\ p \in Nat /\ p < n /\ head \in Nat
      BY <3>1, <2>1
    <3>3. head <= n
      BY <3>2
    <3> QED
      BY <2>1, <3>1, <3>2, <3>3 DEF FirstAbove
  <2> QED
    BY <2>2, <2>3, <1>5, <1>7 DEF Sorted
<1> QED
  BY <1>8, <1>9

\* Putting n into the place of c, which it follows in order.
LEMMA ReplaceNode ==
    ASSUME NEW S \in SUBSET Nat, NEW head, NEW nx, Sorted(head, nx, S),
           NEW c \in S, NEW p, LinkOf(p, c, head, nx, S),
           NEW n \in Nat \ S, c < n, \A d \in S : c < d => n < d,
           NEW head2, NEW nx2, Relinked(p, n, head, nx, head2, nx2, S \ {c}), nx2[n] = nx[c]
    PROVE  Sorted(head2, nx2, (S \ {c}) \cup {n})
<1> DEFINE T == S \ {c}
           head1 == IF p = NULL THEN nx[c] ELSE head
           nx1 == [b \in S |-> IF b = p THEN nx[c] ELSE nx[b]]
<1>0. NULL \notin Nat /\ (\A d \in S : d \in Nat) /\ c \in Nat /\ n \in Nat
  BY HeapAssumption
<1>1. \A b \in S : FirstAbove(nx[b], b, S)
  BY DEF Sorted
<1>2. p # NULL => p \in T /\ p < n
  <2> SUFFICES ASSUME p # NULL PROVE p \in T /\ p < n
    OBVIOUS
  <2>1. p \in S /\ p \in Nat /\ p < c
    BY <1>0, <1>1 DEF LinkOf, FirstAbove
  <2>2. p # c /\ p < n
    BY <1>0, <2>1
  <2> QED
    BY <2>1, <2>2
<1>3. Sorted(head1, nx1, T)
  <2>1. Relinked(p, nx[c], head, nx, head1, nx1, T)
    BY <1>2 DEF Relinked
  <2> HIDE DEF head1, nx1
  <2> QED
    BY <2>1, RemoveNode
<1>4. LinkOf(p, nx[c], head1, nx1, T)
  BY <1>2 DEF LinkOf
<1>5. nx[c] # NULL => n < nx[c]
  BY <1>0, <1>1 DEF FirstAbove
<1>6. Relinked(p, n, head1, nx1, head2, nx2, T)
  BY <1>2 DEF Relinked
<1>7. T \in SUBSET Nat /\ n \in Nat \ T
  OBVIOUS
<1> HIDE DEF T, head1, nx1
<1> QED
  BY <1>2, <1>3, <1>4, <1>5, <1>6, <1>7, InsertNode DEF T

\* ALIGN_UP gives a number that is no smaller.
LEMMA AlignUpBound ==
    ASSUME NEW n \in Nat
    PROVE  AlignUp(n) \in Nat /\ n <= AlignUp(n)
<1> DEFINE m == n + Align - 1
           q == m \div Align
           r == m % Align
<1>1. m \in Nat /\ Align \in Nat /\ Align > 0
  BY HeapAssumption
<1> HIDE DEF m
<1>2. q \in Nat /\ r \in 0 .. Align - 1 /\ m = Align * q + r
  BY <1>1
<1> HIDE DEF q, r
<1>3. q * Align \in Nat /\ q * Align = m - r
  BY <1>1, <1>2
<1>4. n <= q * Align
  BY <1>1, <1>2, <1>3 DEF m
<1> QED
  BY <1>3, <1>4 DEF AlignUp, q, m

----------------------------------------------------------------------------
(***************************************************************************)
(* What the invariant says of one state.                                   *)
(***************************************************************************)

\* The facts about addresses that the steps below use.
LEMMA Basics ==
    ASSUME IInv
    PROVE  /\ NULL \notin Nat /\ Hdr \in Nat /\ Hdr > 0 /\ Pool \in Nat
           /\ \A b \in Blocks : b \in Nat /\ size[b] \in Nat /\ End(b) \in Nat /\ End(b) <= Pool
                                /\ b + Hdr <= End(b) /\ b < End(b)
           /\ \A p \in DOMAIN held : p \in Nat /\ held[p] \in Nat
           /\ FreeBlocks \in SUBSET Nat /\ Linked \in SUBSET Nat
<1>1. NULL \notin Nat /\ Hdr \in Nat /\ Hdr > 0 /\ Pool \in Nat
  BY HeapAssumption
<1>2. \A b \in Blocks : b \in Nat /\ b < Pool /\ size[b] \in Nat
  BY <1>1 DEF IInv, Tiling, TypeOK, Addr
<1>3. \A b \in Blocks : End(b) \in Nat /\ b + Hdr <= End(b) /\ b < End(b)
  BY <1>1, <1>2 DEF End
<1>4. \A b \in Blocks : End(b) <= Pool
  BY <1>1, <1>2, <1>3 DEF IInv, Tiling
<1>5. \A p \in DOMAIN held : p \in Nat /\ held[p] \in Nat
  BY DEF IInv, Tiling, TypeOK, Addr
<1> QED
  BY <1>1, <1>2, <1>3, <1>4, <1>5 DEF FreeBlocks, Linked

\* The pointer into a block is its address and the header's size.
LEMMA Behind ==
    ASSUME NEW B \in SUBSET Nat, NEW D \in SUBSET Nat, NEW b
    PROVE  b \in B \ {p - Hdr : p \in D} <=> b \in B /\ b + Hdr \notin D
<1>1. Hdr \in Nat
  BY HeapAssumption
<1>2. b \in B => \A p \in D : p - Hdr = b <=> p = b + Hdr
  BY <1>1
<1> QED
  BY <1>2

\* A free block is one behind which no caller holds memory.
LEMMA FreeIff ==
    ASSUME IInv, NEW b
    PROVE  b \in FreeBlocks <=> b \in Blocks /\ b + Hdr \notin DOMAIN held
<1>1. Blocks \in SUBSET Nat /\ DOMAIN held \in SUBSET Nat
  BY Basics
<1> QED
  BY <1>1, Behind DEF FreeBlocks

\* Blocks do not overlap, so a block ends where at most one other begins.
LEMMA EndsOnce ==
    ASSUME IInv, NEW b \in Blocks, NEW d \in Blocks, End(b) = End(d)
    PROVE  b = d
<1>1. b \in Nat /\ d \in Nat /\ b < End(b) /\ d < End(d) /\ End(b) \in Nat
  BY Basics
<1>2. (b < d => End(b) <= d) /\ (d < b => End(d) <= b)
  BY DEF IInv, Tiling
<1> QED
  BY <1>1, <1>2

\* The node a walk looks at is in the list.
LEMMA CurLinked ==
    ASSUME IInv, pc \in {"kmalloc", "kfree"}, cur # NULL
    PROVE  cur \in Linked /\ cur \in FreeBlocks /\ cur \in Blocks /\ cur \in Nat
<1>1. LinkOf(prev, cur, freelist, next, Linked) /\ Sorted(freelist, next, Linked)
  BY DEF IInv, WalkInv, ListInv
<1>2. cur \in Linked
  BY <1>1 DEF LinkOf, Sorted, FirstAbove
<1> QED
  BY <1>2, Basics DEF Linked, FreeBlocks

\* The initial block fills the pool.
LEMMA InitIInv == Init => IInv
<1> SUFFICES ASSUME Init PROVE IInv
  OBVIOUS
<1>0. NULL \notin Nat /\ Hdr \in Nat /\ Hdr > 0 /\ Pool \in Nat /\ Pool > Hdr
  BY HeapAssumption
<1>1. /\ Blocks = {0} /\ DOMAIN held = {} /\ size[0] = Pool - Hdr /\ next[0] = NULL
      /\ freelist = 0 /\ pc = "idle"
  BY DEF Init, Blocks
<1>2. FreeBlocks = {0} /\ Linked = {0} /\ End(0) = Pool
  BY <1>0, <1>1 DEF FreeBlocks, Linked, End
<1>3. Tiling
  <2>1. TypeOK
    BY <1>0, <1>1 DEF Init, TypeOK, Addr, Pointer
  <2> QED
    BY <2>1, <1>0, <1>1, <1>2 DEF Tiling
<1>4. HeldIntact /\ CallInv /\ WalkInv
  BY <1>1 DEF HeldIntact, CallInv, WalkInv, Freeing
<1>5. ListInv
  BY <1>0, <1>1, <1>2 DEF ListInv, Sorted, FirstAbove
<1>6. ApartInv
  BY <1>0, <1>2 DEF ApartInv
<1> QED
  BY <1>3, <1>4, <1>5, <1>6 DEF IInv

\* Tiling and what is held depend on the pool and the callers only.
LEMMA PoolFrame ==
    ASSUME IInv, UNCHANGED <<size, next, freelist, held>>,
           pc' \in {"idle", "kmalloc", "kfree", "join_next", "join_prev"},
           bytes' \in Nat, want' \in Nat, prev' \in Pointer, cur' \in Pointer, block' \in Pointer
    PROVE  Tiling' /\ HeldIntact' /\ FreeBlocks' = FreeBlocks
<1>1. TypeOK'
  BY DEF IInv, Tiling, TypeOK, Blocks
<1> QED
  BY <1>1 DEF IInv, Tiling, HeldIntact, FreeBlocks, Blocks, End

----------------------------------------------------------------------------
(***************************************************************************)
(* kmalloc                                                                 *)
(***************************************************************************)
LEMMA KmallocEnterKeeps ==
    ASSUME IInv, NEW n \in Sizes, KmallocEnter(n)
    PROVE  IInv'
<1>a. /\ pc = "idle" /\ n # 0 /\ pc' = "kmalloc" /\ bytes' = n /\ want' = AlignUp(n)
      /\ prev' = NULL /\ cur' = freelist /\ UNCHANGED <<size, next, freelist, held, block>>
  BY DEF KmallocEnter, list
<1>b. n \in Nat /\ n > 0 /\ AlignUp(n) \in Nat /\ n <= AlignUp(n)
  BY <1>a, AlignUpBound, HeapAssumption
<1>1. Tiling' /\ HeldIntact' /\ FreeBlocks' = FreeBlocks
  BY <1>a, <1>b, PoolFrame DEF IInv, Tiling, TypeOK, Pointer
<1>2. Linked' = Linked /\ Linked = FreeBlocks
  BY <1>a, <1>1 DEF Linked
<1>3. CallInv'
  BY <1>a, <1>b DEF CallInv, Freeing
<1>4. ListInv'
  BY <1>a, <1>2 DEF IInv, ListInv, Sorted, FirstAbove
<1>5. WalkInv'
  <2>1. LinkOf(prev, cur, freelist, next, Linked)'
    BY <1>a DEF LinkOf
  <2>2. FirstAbove(freelist, -1, Linked) /\ \A d \in Linked : d \in Nat
    BY Basics DEF IInv, ListInv, Sorted
  <2>3. \A d \in Linked : freelist # NULL /\ freelist <= d /\ freelist \in Nat
    BY <2>2 DEF FirstAbove
  <2>4. \A d \in Linked : ~ (freelist # NULL => d < freelist)
    BY <2>2, <2>3
  <2> QED
    BY <1>a, <1>2, <2>1, <2>4 DEF WalkInv, Freeing
<1>6. ApartInv'
  BY <1>a, <1>1 DEF IInv, ApartInv, Freeing, End
<1> QED
  BY <1>1, <1>3, <1>4, <1>5, <1>6 DEF IInv

LEMMA KmallocSkipKeeps ==
    ASSUME IInv, KmallocSkip
    PROVE  IInv'
<1>a. /\ pc = "kmalloc" /\ cur # NULL /\ size[cur] < want /\ prev' = cur /\ cur' = next[cur]
      /\ UNCHANGED <<size, next, freelist, held, pc, bytes, want, block>>
  BY DEF KmallocSkip, Advance, list, args
<1>b. cur \in Linked /\ cur \in Blocks /\ cur \in Nat /\ FirstAbove(next[cur], cur, Linked)
  BY <1>a, CurLinked DEF IInv, ListInv, Sorted
<1>1. Tiling' /\ HeldIntact' /\ FreeBlocks' = FreeBlocks
  <2>1. prev' \in Pointer /\ cur' \in Pointer
    BY <1>a, <1>b DEF IInv, Tiling, TypeOK, Pointer
  <2> QED
    BY <1>a, <2>1, PoolFrame DEF IInv, Tiling, TypeOK
<1>2. Linked' = Linked
  BY <1>a, <1>1 DEF Linked
<1>3. CallInv'
  BY <1>a, <1>1 DEF IInv, CallInv, Freeing
<1>4. ListInv'
  BY <1>a, <1>2 DEF IInv, ListInv, Sorted, FirstAbove
<1>5. WalkInv'
  <2>1. LinkOf(prev, cur, freelist, next, Linked)'
    BY <1>a, <1>b, <1>2 DEF LinkOf
  <2>2. ASSUME NEW d \in Linked, next[cur] # NULL => d < next[cur] PROVE size[d] < want
    <3>1. d \in Nat /\ (next[cur] # NULL => next[cur] \in Nat)
      BY <1>b, Basics DEF FirstAbove
    <3>2. d <= cur
      BY <1>b, <2>2, <3>1 DEF FirstAbove
    <3>3. d < cur => size[d] < want
      BY <1>a DEF IInv, WalkInv
    <3> QED
      BY <1>a, <1>b, <3>1, <3>2, <3>3
  <2> QED
    BY <1>a, <1>2, <2>1, <2>2 DEF WalkInv, Freeing
<1>6. ApartInv'
  BY <1>a, <1>1 DEF IInv, ApartInv, Freeing, End
<1> QED
  BY <1>1, <1>3, <1>4, <1>5, <1>6 DEF IInv

LEMMA KmallocFailKeeps ==
    ASSUME IInv, KmallocFail
    PROVE  IInv'
<1>a. /\ pc = "kmalloc" /\ pc' = "idle" /\ bytes' = 0 /\ want' = 0 /\ prev' = NULL /\ cur' = NULL
      /\ block' = NULL /\ UNCHANGED <<size, next, freelist, held>>
  BY DEF KmallocFail, Return, list
<1>1. Tiling' /\ HeldIntact' /\ FreeBlocks' = FreeBlocks
  BY <1>a, PoolFrame DEF Pointer
<1>2. Linked' = Linked
  BY <1>a, <1>1 DEF Linked
<1>4. ListInv'
  BY <1>a, <1>2 DEF IInv, ListInv, Sorted, FirstAbove
<1>5. CallInv' /\ WalkInv'
  BY <1>a DEF CallInv, WalkInv, Freeing
<1>6. ApartInv'
  BY <1>a, <1>1 DEF IInv, ApartInv, Freeing, End
<1> QED
  BY <1>1, <1>4, <1>5, <1>6 DEF IInv

\* What granting the block cur means for the callers.
LEMMA GrantFacts ==
    ASSUME IInv, pc = "kmalloc", cur # NULL, size[cur] >= want, Grant
    PROVE  /\ cur \in Linked /\ cur \in Blocks /\ cur \in Nat /\ cur + Hdr \notin DOMAIN held
           /\ DOMAIN held' = DOMAIN held \cup {cur + Hdr} /\ DOMAIN held' \subseteq Addr
           /\ held' \in [DOMAIN held' -> Nat] /\ held'[cur + Hdr] = bytes
           /\ \A p \in DOMAIN held : held'[p] = held[p]
           /\ bytes \in Nat /\ want \in Nat /\ bytes > 0 /\ bytes <= want
<1>1. cur \in Linked /\ cur \in FreeBlocks /\ cur \in Blocks /\ cur \in Nat
  BY CurLinked
<1>2. cur + Hdr \notin DOMAIN held
  BY <1>1, FreeIff
<1>3. bytes \in Nat /\ want \in Nat /\ bytes > 0 /\ bytes <= want
  BY DEF IInv, CallInv, Tiling, TypeOK
<1>4. held' = [p \in DOMAIN held \cup {cur + Hdr} |-> IF p = cur + Hdr THEN bytes ELSE held[p]]
  BY DEF Grant
<1>5. DOMAIN held' = DOMAIN held \cup {cur + Hdr} /\ held'[cur + Hdr] = bytes
  BY <1>4
<1>6. \A p \in DOMAIN held : held'[p] = held[p]
  BY <1>2, <1>4
<1>7. held' \in [DOMAIN held' -> Nat]
  BY <1>3, <1>4, Basics
<1>8. cur + Hdr \in Addr
  <2>1. cur + Hdr + size[cur] <= Pool /\ size[cur] \in Nat /\ Hdr \in Nat /\ Pool \in Nat
    BY <1>1, Basics DEF End
  <2> QED
    BY <1>1, <1>3, <2>1 DEF Addr
<1> QED
  BY <1>1, <1>2, <1>3, <1>5, <1>6, <1>7, <1>8 DEF IInv, Tiling, TypeOK

\* A whole block is taken out of the list.
LEMMA KmallocWholeKeeps ==
    ASSUME IInv, KmallocWhole
    PROVE  IInv'
<1>a. /\ pc = "kmalloc" /\ cur # NULL /\ size[cur] >= want /\ Grant /\ size' = size
      /\ next' = IF prev = NULL THEN next ELSE [next EXCEPT ![prev] = next[cur]]
      /\ freelist' = IF prev = NULL THEN next[cur] ELSE freelist
  BY DEF KmallocWhole, Link
<1>b. /\ pc' = "idle" /\ bytes' = 0 /\ want' = 0 /\ prev' = NULL /\ cur' = NULL /\ block' = NULL
  BY <1>a DEF Grant, Return
<1>c. /\ cur \in Linked /\ cur \in Blocks /\ cur \in Nat /\ cur + Hdr \notin DOMAIN held
      /\ DOMAIN held' = DOMAIN held \cup {cur + Hdr} /\ DOMAIN held' \subseteq Addr
      /\ held' \in [DOMAIN held' -> Nat] /\ held'[cur + Hdr] = bytes
      /\ \A p \in DOMAIN held : held'[p] = held[p]
      /\ bytes \in Nat /\ want \in Nat /\ bytes > 0 /\ bytes <= want
  BY <1>a, GrantFacts
<1>d. Blocks' = Blocks /\ \A b : End(b)' = End(b)
  BY <1>a DEF Blocks, End
<1>e. /\ NULL \notin Nat /\ Hdr \in Nat /\ (\A b \in Blocks : b \in Nat /\ size[b] \in Nat)
      /\ (\A p \in DOMAIN held : p \in Nat /\ held[p] \in Nat)
      /\ Linked \in SUBSET Nat /\ Linked \subseteq Blocks /\ Linked = FreeBlocks
  BY <1>a, Basics DEF Linked, FreeBlocks
<1>f. FreeBlocks' = Linked \ {cur}
  BY <1>c, <1>d, <1>e DEF FreeBlocks
<1>g. Linked' = Linked \ {cur}
  BY <1>b, <1>f DEF Linked
<1>h. LinkOf(prev, cur, freelist, next, Linked) /\ Sorted(freelist, next, Linked)
  BY <1>a DEF IInv, WalkInv, ListInv
<1>i. DOMAIN next = Blocks /\ next \in [Blocks -> Pointer] /\ next[cur] \in Pointer
  BY <1>c DEF IInv, Tiling, TypeOK
<1>1. Tiling'
  <2>1. next' \in [Blocks -> Pointer]
    BY <1>a, <1>i
  <2>2. freelist' \in Pointer
    BY <1>a, <1>i DEF IInv, Tiling, TypeOK
  <2>3. TypeOK'
    BY <1>a, <1>b, <1>c, <1>d, <2>1, <2>2 DEF IInv, Tiling, TypeOK, Pointer
  <2> QED
    BY <1>d, <2>3 DEF IInv, Tiling
<1>2. HeldIntact'
  <2> SUFFICES ASSUME NEW p \in DOMAIN held' PROVE p - Hdr \in Blocks /\ held'[p] <= size[p - Hdr]
    BY <1>a, <1>d DEF HeldIntact
  <2>1. CASE p = cur + Hdr
    <3>1. p - Hdr = cur
      BY <2>1, <1>c, <1>e
    <3> QED
      BY <2>1, <3>1, <1>a, <1>c, <1>e
  <2>2. CASE p # cur + Hdr
    BY <2>2, <1>c DEF IInv, HeldIntact
  <2> QED
    BY <2>1, <2>2
<1>3. CallInv' /\ WalkInv'
  BY <1>b DEF CallInv, WalkInv, Freeing
<1>4. ListInv'
  <2>1. Relinked(prev, next[cur], freelist, next, freelist', next', Linked \ {cur})
    BY <1>a, <1>e, <1>h, <1>i DEF Relinked, LinkOf
  <2>2. Sorted(freelist', next', Linked \ {cur})
    BY <2>1, <1>c, <1>e, <1>h, RemoveNode
  <2> QED
    BY <2>2, <1>g DEF ListInv, Sorted, FirstAbove
<1>5. ApartInv'
  BY <1>a, <1>d, <1>e, <1>f DEF IInv, ApartInv, Freeing
<1> QED
  BY <1>1, <1>2, <1>3, <1>4, <1>5 DEF IInv

\* A block is split: its front is granted, the remainder takes its place.
LEMMA KmallocSplitKeeps ==
    ASSUME IInv, KmallocSplit
    PROVE  IInv'
<1>u. PICK c, new : c = cur /\ new = c + Hdr + want
  OBVIOUS
<1> USE <1>u
<1>a. /\ pc = "kmalloc" /\ cur # NULL /\ size[c] >= want /\ Splits /\ Grant
      /\ size' = [b \in Blocks \cup {new} |-> CASE b = new -> Remainder
                                                [] b = c -> want
                                                [] OTHER -> size[b]]
      /\ Link(new, [b \in Blocks \cup {new} |-> IF b = new THEN next[c] ELSE next[b]])
  BY DEF KmallocSplit
<1>b. /\ pc' = "idle" /\ bytes' = 0 /\ want' = 0 /\ prev' = NULL /\ cur' = NULL /\ block' = NULL
  BY <1>a DEF Grant, Return
<1>c. /\ c \in Linked /\ c \in Blocks /\ c \in Nat /\ c + Hdr \notin DOMAIN held
      /\ DOMAIN held' = DOMAIN held \cup {c + Hdr} /\ DOMAIN held' \subseteq Addr
      /\ held' \in [DOMAIN held' -> Nat] /\ held'[c + Hdr] = bytes
      /\ \A p \in DOMAIN held : held'[p] = held[p]
      /\ bytes \in Nat /\ want \in Nat /\ bytes > 0 /\ bytes <= want
  BY <1>a, GrantFacts
<1>d. /\ NULL \notin Nat /\ Hdr \in Nat /\ Hdr > 0 /\ Pool \in Nat
      /\ \A b \in Blocks : b \in Nat /\ size[b] \in Nat /\ End(b) \in Nat /\ End(b) <= Pool
                           /\ b + Hdr <= End(b) /\ b < End(b)
      /\ \A p \in DOMAIN held : p \in Nat /\ held[p] \in Nat
      /\ Linked \in SUBSET Nat /\ Linked \subseteq Blocks /\ Linked = FreeBlocks
  BY <1>a, Basics DEF Linked, FreeBlocks
<1>e. size[c] \in Nat /\ Hdr + want + Hdr <= size[c]
  <2>1. Hdr + want + Hdr \in Nat
    BY <1>c, <1>d
  <2>2. AlignUp(Hdr + want + Hdr) \in Nat /\ Hdr + want + Hdr <= AlignUp(Hdr + want + Hdr)
    BY <2>1, AlignUpBound
  <2> QED
    BY <2>1, <2>2, <1>a, <1>c, <1>d DEF Splits
<1>f. new \in Nat /\ c < new /\ new < End(c) /\ Remainder \in Nat /\ End(c) = c + Hdr + size[c]
      /\ new + Hdr + Remainder = End(c)
  BY <1>c, <1>d, <1>e DEF Remainder, End
<1>g. \A b \in Blocks : (c < b => End(c) <= b) /\ (b < c => End(b) <= c)
  BY <1>c DEF IInv, Tiling
<1>h. new \notin Blocks
  BY <1>c, <1>d, <1>f, <1>g
<1>i. /\ Blocks' = Blocks \cup {new} /\ size' \in [Blocks' -> Nat]
      /\ size'[new] = Remainder /\ size'[c] = want /\ \A b \in Blocks \ {c} : size'[b] = size[b]
  <2>1. size' = [b \in Blocks \cup {new} |-> IF b = new THEN Remainder ELSE IF b = c THEN want ELSE size[b]]
    BY <1>a, <1>f, <1>c, <1>h
  <2> QED
    BY <2>1, <1>c, <1>d, <1>f, <1>h DEF Blocks
<1>j. End(new)' = End(c) /\ End(c)' = new /\ \A b \in Blocks \ {c} : End(b)' = End(b)
  <2>1. \A b : End(b)' = b + Hdr + size'[b]
    BY DEF End
  <2> QED
    BY <2>1, <1>c, <1>f, <1>i DEF End
<1>k. DOMAIN next = Blocks /\ next \in [Blocks -> Pointer] /\ next[c] \in Pointer
  BY <1>c DEF IInv, Tiling, TypeOK
<1>l. LinkOf(prev, c, freelist, next, Linked) /\ Sorted(freelist, next, Linked)
  BY <1>a DEF IInv, WalkInv, ListInv
<1>m. PICK nx : /\ nx = [b \in Blocks \cup {new} |-> IF b = new THEN next[c] ELSE next[b]]
                /\ next' = IF prev = NULL THEN nx ELSE [nx EXCEPT ![prev] = new]
                /\ freelist' = IF prev = NULL THEN new ELSE freelist
  BY <1>a DEF Link
<1>n. prev # NULL => prev \in Blocks /\ prev # new
  BY <1>d, <1>h, <1>l DEF LinkOf
<1>o. /\ next' \in [Blocks' -> Pointer] /\ next'[new] = next[c]
      /\ prev # NULL => next'[prev] = new
      /\ \A b \in Blocks : b # prev => next'[b] = next[b]
  <2>1. nx \in [Blocks' -> Pointer] /\ nx[new] = next[c] /\ \A b \in Blocks : nx[b] = next[b]
    BY <1>h, <1>i, <1>k, <1>m
  <2>2. new \in Pointer
    BY <1>f DEF Pointer
  <2>3. prev # NULL => prev \in Blocks' /\ prev # new
    BY <1>i, <1>n
  <2>4. next' = IF prev = NULL THEN nx ELSE [nx EXCEPT ![prev] = new]
    BY <1>m
  <2>5. NULL \notin Blocks
    BY <1>d
  <2> QED
    BY <2>1, <2>2, <2>3, <2>4, <2>5, <1>i
<1>p. FreeBlocks' = (Linked \ {c}) \cup {new}
  <2>1. new + Hdr \notin DOMAIN held
    <3>1. \A p \in DOMAIN held : p \in Nat /\ p - Hdr # new
      BY <1>d, <1>h DEF IInv, HeldIntact
    <3> QED
      BY <3>1, <1>d, <1>f
  <2>2. c # new /\ c + Hdr # new + Hdr
    BY <1>c, <1>d, <1>f
  <2>3. \A b \in Linked \ {c} : b + Hdr # c + Hdr
    BY <1>c, <1>d
  <2>4. \A b : b \in FreeBlocks' <=> b \in Blocks' /\ b + Hdr \notin DOMAIN held'
    <3>1. Blocks' \in SUBSET Nat /\ DOMAIN held' \in SUBSET Nat
      BY <1>c, <1>d, <1>f, <1>i DEF Addr
    <3> QED
      BY <3>1, Behind DEF FreeBlocks
  <2>5. \A b : b \in Linked <=> b \in Blocks /\ b + Hdr \notin DOMAIN held
    BY <1>d, FreeIff
  <2>6. ASSUME NEW b PROVE b \in FreeBlocks' <=> b \in (Linked \ {c}) \cup {new}
    BY <2>1, <2>2, <2>3, <2>4, <2>5, <1>c, <1>i
  <2> QED
    BY <2>6
<1>q. Linked' = (Linked \ {c}) \cup {new}
  BY <1>b, <1>p DEF Linked
<1>1. Tiling'
  <2>1. freelist' \in Pointer
    BY <1>f, <1>m DEF IInv, Tiling, TypeOK, Pointer
  <2>2. Blocks' \subseteq Addr
    BY <1>c, <1>d, <1>f, <1>i DEF IInv, Tiling, TypeOK, Addr
  <2>3. TypeOK'
    BY <1>b, <1>c, <1>i, <1>o, <2>1, <2>2 DEF TypeOK, Pointer
  <2>4. 0 \in Blocks'
    BY <1>i DEF IInv, Tiling
  <2>5. \A b \in Blocks' : End(b)' = Pool \/ End(b)' \in Blocks'
    BY <1>c, <1>i, <1>j DEF IInv, Tiling
  <2>6. ASSUME NEW b \in Blocks', NEW d \in Blocks', b < d PROVE End(b)' <= d
    <3>1. CASE b = new
      BY <3>1, <2>6, <1>c, <1>d, <1>f, <1>g, <1>i, <1>j
    <3>2. CASE b = c
      BY <3>2, <2>6, <1>c, <1>d, <1>f, <1>g, <1>i, <1>j
    <3>3. CASE b \in Blocks \ {c} /\ d = new
      BY <3>3, <2>6, <1>c, <1>d, <1>f, <1>g, <1>i, <1>j
    <3>4. CASE b \in Blocks \ {c} /\ d \in Blocks
      BY <3>4, <2>6, <1>j DEF IInv, Tiling
    <3> QED
      BY <3>1, <3>2, <3>3, <3>4, <1>i
  <2> QED
    BY <2>3, <2>4, <2>5, <2>6 DEF Tiling
<1>2. HeldIntact'
  <2> SUFFICES ASSUME NEW p \in DOMAIN held' PROVE p - Hdr \in Blocks' /\ held'[p] <= size'[p - Hdr]
    BY DEF HeldIntact
  <2>1. CASE p = c + Hdr
    <3>1. p - Hdr = c
      BY <2>1, <1>c, <1>d
    <3> QED
      BY <2>1, <3>1, <1>c, <1>i
  <2>2. CASE p # c + Hdr
    <3>1. p \in DOMAIN held /\ p \in Nat /\ p - Hdr \in Blocks /\ held[p] <= size[p - Hdr]
      BY <2>2, <1>c, <1>d DEF IInv, HeldIntact
    <3>2. p - Hdr # c
      BY <2>2, <3>1, <1>c, <1>d
    <3> QED
      BY <3>1, <3>2, <1>c, <1>i
  <2> QED
    BY <2>1, <2>2
<1>3. CallInv' /\ WalkInv'
  BY <1>b DEF CallInv, WalkInv, Freeing
<1>4. ListInv'
  <2>1. Relinked(prev, new, freelist, next, freelist', next', Linked \ {c})
    BY <1>d, <1>m, <1>o DEF Relinked
  <2>2. new \in Nat \ Linked /\ \A d \in Linked : c < d => new < d
    BY <1>c, <1>d, <1>f, <1>g, <1>h
  <2>3. Sorted(freelist', next', (Linked \ {c}) \cup {new})
    BY <2>1, <2>2, <1>c, <1>d, <1>f, <1>l, <1>o, ReplaceNode
  <2> QED
    BY <2>3, <1>q DEF ListInv, Sorted, FirstAbove
<1>5. ApartInv'
  <2> SUFFICES ASSUME NEW b \in FreeBlocks', NEW d \in FreeBlocks', End(b)' = d PROVE FALSE
    BY DEF ApartInv
  <2>0. \A e, f \in FreeBlocks : End(e) # f
    BY <1>a DEF IInv, ApartInv, Freeing
  <2>1. CASE b = new
    <3>1. End(c) = d /\ d # new
      BY <2>1, <1>j, <1>f, <1>c, <1>d
    <3> QED
      BY <3>1, <2>0, <1>c, <1>d, <1>p
  <2>2. CASE b # new
    <3>1. b \in Linked \ {c} /\ End(b) = d /\ b \in Blocks
      BY <2>2, <1>d, <1>j, <1>p
    <3>2. CASE d = new
      BY <3>1, <3>2, <1>c, <1>d, <1>f, <1>g, <1>h DEF IInv, Tiling
    <3>3. CASE d # new
      BY <3>1, <3>3, <2>0, <1>d, <1>p
    <3> QED
      BY <3>2, <3>3
  <2> QED
    BY <2>1, <2>2
<1> QED
  BY <1>1, <1>2, <1>3, <1>4, <1>5 DEF IInv

----------------------------------------------------------------------------
(***************************************************************************)
(* kfree                                                                   *)
(***************************************************************************)

\* The block behind the pointer loses its holder.
LEMMA KfreeEnterKeeps ==
    ASSUME IInv, NEW ptr \in DOMAIN held, KfreeEnter(ptr)
    PROVE  IInv'
<1>u. PICK k : k = ptr - Hdr
  OBVIOUS
<1>a. /\ pc = "idle" /\ block' = k /\ held' = [p \in DOMAIN held \ {ptr} |-> held[p]]
      /\ pc' = "kfree" /\ prev' = NULL /\ cur' = freelist
      /\ UNCHANGED <<size, next, freelist, bytes, want>>
  BY <1>u DEF KfreeEnter, list
<1>b. /\ Hdr \in Nat /\ (\A b \in Blocks : b \in Nat) /\ (\A p \in DOMAIN held : p \in Nat /\ held[p] \in Nat)
      /\ k \in Blocks
  BY <1>u, Basics DEF IInv, HeldIntact
<1>c. k \in Nat /\ ptr \in Nat /\ ptr = k + Hdr
  BY <1>b, <1>u
<1>d. /\ DOMAIN held' = DOMAIN held \ {ptr} /\ held' \in [DOMAIN held' -> Nat]
      /\ \A p \in DOMAIN held' : held'[p] = held[p]
  BY <1>a, <1>b
<1>e. Blocks' = Blocks /\ \A b : End(b)' = End(b)
  BY <1>a DEF Blocks, End
<1>f. FreeBlocks' = FreeBlocks \cup {k} /\ k \notin FreeBlocks
  <2>1. \A b : b \in FreeBlocks' <=> b \in Blocks' /\ b + Hdr \notin DOMAIN held'
    <3>1. Blocks' \in SUBSET Nat /\ DOMAIN held' \in SUBSET Nat
      BY <1>b, <1>d, <1>e
    <3> QED
      BY <3>1, Behind DEF FreeBlocks
  <2>2. \A b : b \in FreeBlocks <=> b \in Blocks /\ b + Hdr \notin DOMAIN held
    BY FreeIff
  <2>3. \A b \in Blocks : b + Hdr = ptr <=> b = k
    BY <1>b, <1>c
  <2>4. ASSUME NEW b PROVE b \in FreeBlocks' <=> b \in FreeBlocks \cup {k}
    BY <2>1, <2>2, <2>3, <1>b, <1>d, <1>e
  <2>5. k \notin FreeBlocks
    BY <2>2, <1>c
  <2> QED
    BY <2>4, <2>5
<1>g. Linked' = FreeBlocks /\ Linked = FreeBlocks
  BY <1>a, <1>f DEF Linked
<1>1. Tiling'
  <2>1. TypeOK'
    BY <1>a, <1>c, <1>d, <1>e DEF IInv, Tiling, TypeOK, Pointer
  <2> QED
    BY <2>1, <1>e DEF IInv, Tiling
<1>2. HeldIntact'
  BY <1>a, <1>d, <1>e DEF IInv, HeldIntact
<1>3. CallInv'
  BY <1>a, <1>f DEF CallInv
<1>4. ListInv'
  BY <1>a, <1>g DEF IInv, ListInv, Sorted, FirstAbove
<1>5. WalkInv'
  BY <1>a DEF WalkInv, LinkOf
<1>6. ApartInv'
  <2> SUFFICES ASSUME NEW b \in FreeBlocks', NEW d \in FreeBlocks', End(b)' = d
               PROVE  b = block' \/ d = block'
    BY <1>a DEF ApartInv, Freeing
  <2> QED
    BY <1>a, <1>e, <1>f DEF IInv, ApartInv, Freeing
<1> QED
  BY <1>1, <1>2, <1>3, <1>4, <1>5, <1>6 DEF IInv

LEMMA KfreeWalkKeeps ==
    ASSUME IInv, KfreeWalk
    PROVE  IInv'
<1>a. /\ pc = "kfree" /\ cur # NULL /\ cur < block /\ prev' = cur /\ cur' = next[cur]
      /\ UNCHANGED <<size, next, freelist, held, pc, bytes, want, block>>
  BY DEF KfreeWalk, Advance, list, args
<1>b. cur \in Linked /\ cur \in Blocks /\ cur \in Nat
  BY <1>a, CurLinked
<1>1. Tiling' /\ HeldIntact' /\ FreeBlocks' = FreeBlocks
  <2>1. prev' \in Pointer /\ cur' \in Pointer
    BY <1>a, <1>b DEF IInv, Tiling, TypeOK, Pointer
  <2> QED
    BY <1>a, <2>1, PoolFrame DEF IInv, Tiling, TypeOK
<1>2. Linked' = Linked
  BY <1>a, <1>1 DEF Linked
<1>3. CallInv'
  BY <1>a, <1>1 DEF IInv, CallInv, Freeing
<1>4. ListInv'
  BY <1>a, <1>2 DEF IInv, ListInv, Sorted, FirstAbove
<1>5. WalkInv'
  <2>1. LinkOf(prev, cur, freelist, next, Linked)'
    BY <1>a, <1>b, <1>2 DEF LinkOf
  <2> QED
    BY <1>a, <2>1 DEF WalkInv, Freeing
<1>6. ApartInv'
  BY <1>a, <1>1 DEF IInv, ApartInv, Freeing, End
<1> QED
  BY <1>1, <1>3, <1>4, <1>5, <1>6 DEF IInv

\* The block goes in where the walk stopped.
LEMMA KfreeInsertKeeps ==
    ASSUME IInv, KfreeInsert
    PROVE  IInv'
<1>a. /\ pc = "kfree" /\ ~ (cur # NULL /\ cur < block) /\ pc' = "join_next"
      /\ next' = IF prev = NULL THEN [next EXCEPT ![block] = cur]
                 ELSE [[next EXCEPT ![block] = cur] EXCEPT ![prev] = block]
      /\ freelist' = IF prev = NULL THEN block ELSE freelist
      /\ UNCHANGED <<size, held, bytes, want, block, prev, cur>>
  BY DEF KfreeInsert, Link, args
<1>b. block \in FreeBlocks /\ Linked = FreeBlocks \ {block}
  BY <1>a DEF IInv, CallInv, Freeing, Linked
<1>c. NULL \notin Nat /\ FreeBlocks \in SUBSET Nat /\ Linked \in SUBSET Nat /\ FreeBlocks \subseteq Blocks
  BY Basics DEF FreeBlocks
<1>d. LinkOf(prev, cur, freelist, next, Linked) /\ Sorted(freelist, next, Linked)
  BY <1>a DEF IInv, WalkInv, ListInv
<1>e. cur # NULL => cur \in Linked /\ block < cur
  <2>1. cur # NULL => cur \in Linked /\ cur \in Nat
    BY <1>a, CurLinked
  <2> QED
    BY <2>1, <1>a, <1>b, <1>c
<1>f. prev # NULL => prev \in Linked /\ prev # block /\ prev < block
  BY <1>a, <1>b, <1>d DEF LinkOf, IInv, WalkInv, Freeing
<1>g. DOMAIN next = Blocks /\ next \in [Blocks -> Pointer] /\ cur \in Pointer /\ block \in Pointer
  BY DEF IInv, Tiling, TypeOK
<1>h. Blocks' = Blocks /\ FreeBlocks' = FreeBlocks /\ \A b : End(b)' = End(b)
  BY <1>a DEF Blocks, FreeBlocks, End
<1>i. Linked' = Linked \cup {block}
  BY <1>a, <1>b, <1>h DEF Linked
<1>j. /\ next' \in [Blocks -> Pointer] /\ next'[block] = cur
      /\ prev # NULL => next'[prev] = block
      /\ \A b \in Blocks : b # prev /\ b # block => next'[b] = next[b]
  <2>1. CASE prev = NULL
    BY <2>1, <1>a, <1>b, <1>c, <1>g
  <2>2. CASE prev # NULL
    BY <2>2, <1>a, <1>b, <1>c, <1>f, <1>g
  <2> QED
    BY <2>1, <2>2
<1>1. Tiling' /\ HeldIntact'
  <2>1. freelist' \in Pointer
    BY <1>a, <1>g DEF IInv, Tiling, TypeOK
  <2>2. TypeOK'
    BY <1>a, <1>h, <1>j, <2>1 DEF IInv, Tiling, TypeOK
  <2> QED
    BY <2>2, <1>a, <1>h DEF IInv, Tiling, HeldIntact
<1>2. CallInv'
  BY <1>a, <1>b, <1>h DEF CallInv
<1>3. ListInv'
  <2>1. Relinked(prev, block, freelist, next, freelist', next', Linked)
    BY <1>a, <1>b, <1>c, <1>j DEF Relinked
  <2>2. block \in Nat \ Linked
    BY <1>b, <1>c
  <2>3. Sorted(freelist', next', Linked \cup {block})
    BY <2>1, <2>2, <1>c, <1>d, <1>e, <1>f, <1>j, InsertNode
  <2> QED
    BY <2>3, <1>i DEF ListInv, Sorted, FirstAbove
<1>4. WalkInv'
  <2>1. LinkOf(prev, block, freelist, next, Linked)'
    BY <1>a, <1>f, <1>i, <1>j DEF LinkOf
  <2> QED
    BY <2>1, <1>a, <1>f DEF WalkInv
<1>5. ApartInv'
  BY <1>a, <1>h DEF IInv, ApartInv, Freeing
<1> QED
  BY <1>1, <1>2, <1>3, <1>4, <1>5 DEF IInv

\* A free block that swallows the free block behind it: the pool stays tiled.
LEMMA SwallowFacts ==
    ASSUME IInv, NEW b \in FreeBlocks, NEW d \in FreeBlocks, End(b) = d, Swallow(b, d), held' = held
    PROVE  /\ b \in Nat /\ d \in Nat /\ b < d /\ b # d
           /\ Blocks' = Blocks \ {d} /\ FreeBlocks' = FreeBlocks \ {d}
           /\ size' \in [Blocks' -> Nat] /\ next' \in [Blocks' -> Pointer]
           /\ next'[b] = next[d] /\ \A e \in Blocks' \ {b} : next'[e] = next[e]
           /\ End(b)' = End(d) /\ \A e \in Blocks' \ {b} : End(e)' = End(e)
           /\ 0 \in Blocks' /\ \A e \in Blocks' : End(e)' = Pool \/ End(e)' \in Blocks'
           /\ \A e, f \in Blocks' : e < f => End(e)' <= f
           /\ HeldIntact'
<1>a. /\ Hdr \in Nat /\ \A e \in Blocks : e \in Nat /\ size[e] \in Nat /\ End(e) \in Nat /\ e < End(e)
      /\ b \in Blocks /\ d \in Blocks /\ \A p \in DOMAIN held : p \in Nat /\ held[p] \in Nat
  BY Basics DEF FreeBlocks
<1>b. b \in Nat /\ d \in Nat /\ b < d /\ b # d
  BY <1>a
<1>c. /\ size' = [e \in Blocks \ {d} |-> IF e = b THEN size[b] + Hdr + size[d] ELSE size[e]]
      /\ next' = [e \in Blocks \ {d} |-> IF e = b THEN next[d] ELSE next[e]]
  BY DEF Swallow
<1>d. Blocks' = Blocks \ {d}
  BY <1>c DEF Blocks
<1>e. FreeBlocks' = FreeBlocks \ {d}
  BY <1>d DEF FreeBlocks
<1>f. /\ size' \in [Blocks' -> Nat] /\ size'[b] = size[b] + Hdr + size[d]
      /\ \A e \in Blocks' \ {b} : size'[e] = size[e]
  BY <1>a, <1>b, <1>c, <1>d
<1>g. /\ next' \in [Blocks' -> Pointer] /\ next'[b] = next[d]
      /\ \A e \in Blocks' \ {b} : next'[e] = next[e]
  <2>1. next \in [Blocks -> Pointer]
    BY DEF IInv, Tiling, TypeOK
  <2> QED
    BY <2>1, <1>a, <1>b, <1>c, <1>d
<1>h. End(b)' = End(d) /\ \A e \in Blocks' \ {b} : End(e)' = End(e)
  <2>1. \A e : End(e)' = e + Hdr + size'[e]
    BY DEF End
  <2>2. End(b) = b + Hdr + size[b] /\ End(d) = d + Hdr + size[d]
    BY DEF End
  <2>3. End(b)' = End(d)
    BY <2>1, <2>2, <1>a, <1>b, <1>f
  <2> QED
    BY <2>1, <2>3, <1>f DEF End
<1>i. 0 \in Blocks'
  <2>1. 0 \in Blocks
    BY DEF IInv, Tiling
  <2> QED
    BY <2>1, <1>b, <1>d
<1>j. ASSUME NEW e \in Blocks' PROVE End(e)' = Pool \/ End(e)' \in Blocks'
  <2>1. \A f \in Blocks : End(f) = Pool \/ End(f) \in Blocks
    BY DEF IInv, Tiling
  <2>2. CASE e = b
    <3>1. End(d) # d
      BY <1>a
    <3> QED
      BY <2>1, <2>2, <3>1, <1>a, <1>d, <1>h
  <2>3. CASE e # b
    <3>1. End(e) # d
      BY <2>3, <1>a, <1>d, EndsOnce
    <3> QED
      BY <2>1, <2>3, <3>1, <1>d, <1>h
  <2> QED
    BY <2>2, <2>3
<1>k. ASSUME NEW e \in Blocks', NEW f \in Blocks', e < f PROVE End(e)' <= f
  <2>1. \A x, y \in Blocks : x < y => End(x) <= y
    BY DEF IInv, Tiling
  <2>2. CASE e = b
    <3>1. d <= f /\ f # d /\ f \in Nat /\ f \in Blocks
      BY <2>1, <2>2, <1>a, <1>d, <1>k
    <3>2. d < f
      BY <3>1, <1>b
    <3> QED
      BY <2>1, <2>2, <3>1, <3>2, <1>a, <1>h
  <2>3. CASE e # b
    BY <2>1, <2>3, <1>d, <1>h, <1>k
  <2> QED
    BY <2>2, <2>3
<1>l. HeldIntact'
  <2> SUFFICES ASSUME NEW p \in DOMAIN held PROVE p - Hdr \in Blocks' /\ held[p] <= size'[p - Hdr]
    BY DEF HeldIntact
  <2>1. p \in Nat /\ p - Hdr \in Blocks /\ held[p] <= size[p - Hdr]
    BY <1>a DEF IInv, HeldIntact
  <2>2. p - Hdr \notin FreeBlocks
    BY DEF FreeBlocks
  <2> QED
    BY <2>1, <2>2, <1>d, <1>f
<1> QED
  BY <1>b, <1>d, <1>e, <1>f, <1>g, <1>h, <1>i, <1>j, <1>k, <1>l

\* While kfree joins, its block is in the list.
LEMMA JoinFacts ==
    ASSUME IInv, pc \in {"join_next", "join_prev"}
    PROVE  /\ block \in FreeBlocks /\ Linked = FreeBlocks
           /\ NULL \notin Nat /\ FreeBlocks \in SUBSET Nat /\ FreeBlocks \subseteq Blocks
           /\ \A b \in Blocks : End(b) \in Nat /\ b < End(b)
           /\ LinkOf(prev, block, freelist, next, FreeBlocks)
           /\ Sorted(freelist, next, FreeBlocks)
           /\ \A b, d \in FreeBlocks : End(b) = d => (b = block \/ d = block)
           /\ DOMAIN next = Blocks /\ next \in [Blocks -> Pointer]
<1>1. block \in FreeBlocks /\ Linked = FreeBlocks
  BY DEF IInv, CallInv, Freeing, Linked
<1>2. /\ NULL \notin Nat /\ FreeBlocks \in SUBSET Nat /\ FreeBlocks \subseteq Blocks
      /\ \A b \in Blocks : End(b) \in Nat /\ b < End(b)
  BY Basics DEF FreeBlocks
<1>3. LinkOf(prev, block, freelist, next, FreeBlocks) /\ Sorted(freelist, next, FreeBlocks)
  BY <1>1 DEF IInv, WalkInv, ListInv
<1> QED
  BY <1>1, <1>2, <1>3 DEF IInv, ApartInv, Tiling, TypeOK

\* The list after the free block d, the successor of b, is swallowed by b.
LEMMA SwallowList ==
    ASSUME IInv, pc \in {"join_next", "join_prev"}, NEW b \in FreeBlocks, NEW d \in FreeBlocks,
           next[b] = d, End(b) = d, Swallow(b, d), held' = held, freelist' = freelist
    PROVE  Sorted(freelist', next', FreeBlocks \ {d})
<1>1. /\ b # d /\ next'[b] = next[d] /\ \A e \in Blocks' \ {b} : next'[e] = next[e]
      /\ Blocks' = Blocks \ {d}
  BY SwallowFacts
<1>2. /\ NULL \notin Nat /\ FreeBlocks \in SUBSET Nat /\ FreeBlocks \subseteq Blocks
      /\ Sorted(freelist, next, FreeBlocks)
  BY JoinFacts
<1>3. b # NULL
  BY <1>2
<1>4. LinkOf(b, d, freelist, next, FreeBlocks)
  BY <1>3 DEF LinkOf
<1>5. Relinked(b, next[d], freelist, next, freelist', next', FreeBlocks \ {d})
  BY <1>1, <1>2, <1>3 DEF Relinked
<1> QED
  BY <1>2, <1>4, <1>5, RemoveNode

\* The block behind the freed one, if it is free, is joined to it.
LEMMA JoinNextKeeps ==
    ASSUME IInv, JoinNext
    PROVE  IInv'
<1>u. PICK k, q : k = block /\ q = prev
  OBVIOUS
<1>a. /\ pc = "join_next" /\ pc' = "join_prev" /\ block' = k /\ prev' = q
      /\ UNCHANGED <<freelist, held, bytes, want, block, prev, cur>>
  BY <1>u DEF JoinNext, args
<1>b. /\ k \in FreeBlocks /\ Linked = FreeBlocks
      /\ NULL \notin Nat /\ FreeBlocks \in SUBSET Nat /\ FreeBlocks \subseteq Blocks
      /\ \A b \in Blocks : End(b) \in Nat /\ b < End(b)
      /\ LinkOf(q, k, freelist, next, FreeBlocks)
      /\ Sorted(freelist, next, FreeBlocks)
      /\ \A b, d \in FreeBlocks : End(b) = d => (b = k \/ d = k)
      /\ DOMAIN next = Blocks /\ next \in [Blocks -> Pointer]
  BY <1>u, <1>a, JoinFacts
<1>c. FirstAbove(next[k], k, FreeBlocks)
  BY <1>b DEF Sorted
<1>d. q # NULL => q < k
  BY <1>u, <1>a DEF IInv, WalkInv, Freeing
<1>1. CASE next[k] # NULL /\ End(k) = next[k]
  <2>u. PICK d : d = next[k]
    OBVIOUS
  <2>a. d \in FreeBlocks /\ End(k) = d /\ next[k] = d /\ Swallow(k, d)
    BY <1>1, <2>u, <1>c, <1>u DEF FirstAbove, JoinNext
  <2>b. /\ k \in Nat /\ d \in Nat /\ k < d /\ k # d
        /\ Blocks' = Blocks \ {d} /\ FreeBlocks' = FreeBlocks \ {d}
        /\ size' \in [Blocks' -> Nat] /\ next' \in [Blocks' -> Pointer]
        /\ next'[k] = next[d] /\ \A e \in Blocks' \ {k} : next'[e] = next[e]
        /\ End(k)' = End(d) /\ \A e \in Blocks' \ {k} : End(e)' = End(e)
        /\ 0 \in Blocks' /\ \A e \in Blocks' : End(e)' = Pool \/ End(e)' \in Blocks'
        /\ \A e, f \in Blocks' : e < f => End(e)' <= f
        /\ HeldIntact'
    BY <2>a, <1>a, <1>b, SwallowFacts
  <2>c. Linked' = FreeBlocks \ {d}
    BY <1>a, <2>b DEF Linked
  <2>1. Tiling'
    <3>1. Blocks' \subseteq Addr
      BY <2>b DEF IInv, Tiling, TypeOK
    <3>2. TypeOK'
      BY <3>1, <2>b, <1>a DEF IInv, Tiling, TypeOK
    <3> QED
      BY <3>2, <2>b DEF Tiling
  <2>2. CallInv'
    BY <1>a, <1>b, <2>b DEF CallInv
  <2>3. ListInv'
    <3>1. Sorted(freelist', next', FreeBlocks \ {d})
      BY <2>a, <1>a, <1>b, SwallowList
    <3> QED
      BY <3>1, <2>c DEF ListInv, Sorted, FirstAbove
  <2>4. WalkInv'
    <3>1. q # NULL => q \in FreeBlocks \ {d} /\ q # k /\ q \in Nat /\ next[q] = k
      <4>1. q # NULL => q \in FreeBlocks /\ q \in Nat /\ next[q] = k
        BY <1>b DEF LinkOf
      <4> QED
        BY <4>1, <1>d, <2>b
    <3>2. q # NULL => next'[q] = k
      BY <3>1, <1>b, <2>b
    <3>3. LinkOf(prev, block, freelist, next, Linked)'
      BY <3>1, <3>2, <2>c, <1>a, <1>b DEF LinkOf
    <3> QED
      BY <3>3, <1>a, <1>d DEF WalkInv
  <2>5. ApartInv'
    <3> SUFFICES ASSUME NEW e \in FreeBlocks', NEW f \in FreeBlocks', End(e)' = f PROVE f = k
      BY <1>a DEF ApartInv, Freeing
    <3>1. e \in FreeBlocks /\ f \in FreeBlocks /\ e # d /\ f # d /\ f \in Nat
      BY <2>b, <1>b
    <3>2. CASE e = k
      <4>1. End(d) = f /\ d < f
        BY <3>1, <3>2, <1>b, <2>a, <2>b
      <4> QED
        BY <4>1, <3>1, <1>b, <2>a, <2>b
    <3>3. CASE e # k
      <4>1. End(e) = f
        BY <3>1, <3>3, <1>b, <2>b
      <4> QED
        BY <4>1, <3>1, <3>3, <1>b
    <3> QED
      BY <3>2, <3>3
  <2> QED
    BY <2>b, <2>1, <2>2, <2>3, <2>4, <2>5 DEF IInv
<1>2. CASE ~ (next[k] # NULL /\ End(k) = next[k])
  <2>a. UNCHANGED <<size, next>>
    BY <1>2, <1>u DEF JoinNext
  <2>b. \A f \in FreeBlocks : End(k) # f
    <3> SUFFICES ASSUME NEW f \in FreeBlocks, End(k) = f PROVE FALSE
      OBVIOUS
    <3>1. k \in Nat /\ f \in Nat /\ k < f
      BY <1>b
    <3>2. next[k] # NULL /\ next[k] <= f /\ k < next[k] /\ next[k] \in FreeBlocks
      <4>1. next[k] # NULL
        BY <3>1, <1>c DEF FirstAbove
      <4> QED
        BY <4>1, <3>1, <1>c DEF FirstAbove
    <3>3. f <= next[k] /\ next[k] \in Nat
      BY <3>2, <1>b DEF IInv, Tiling
    <3> QED
      BY <3>1, <3>2, <3>3, <1>2
  <2>1. Tiling' /\ HeldIntact' /\ FreeBlocks' = FreeBlocks
    BY <1>a, <2>a, PoolFrame DEF IInv, Tiling, TypeOK
  <2>c. Linked' = FreeBlocks
    BY <1>a, <2>1 DEF Linked
  <2>2. CallInv'
    BY <1>a, <1>b, <2>1 DEF CallInv
  <2>3. ListInv'
    BY <1>a, <1>b, <2>a, <2>c DEF ListInv, Sorted, FirstAbove
  <2>4. WalkInv'
    <3>1. LinkOf(prev, block, freelist, next, Linked)'
      BY <2>a, <2>c, <1>a, <1>b DEF LinkOf
    <3> QED
      BY <3>1, <1>a, <1>d DEF WalkInv
  <2>5. ApartInv'
    <3> SUFFICES ASSUME NEW e \in FreeBlocks, NEW f \in FreeBlocks, End(e) = f PROVE f = k
      BY <1>a, <2>a, <2>1 DEF ApartInv, Freeing, End
    <3> QED
      BY <1>b, <2>b
  <2> QED
    BY <2>1, <2>2, <2>3, <2>4, <2>5 DEF IInv
<1> QED
  BY <1>1, <1>2

\* The freed block is joined to the free block before it, and the call returns.
LEMMA JoinPrevKeeps ==
    ASSUME IInv, JoinPrev
    PROVE  IInv'
<1>u. PICK k, q : k = block /\ q = prev
  OBVIOUS
<1>a. /\ pc = "join_prev" /\ pc' = "idle" /\ bytes' = 0 /\ want' = 0
      /\ prev' = NULL /\ cur' = NULL /\ block' = NULL /\ UNCHANGED <<freelist, held>>
  BY DEF JoinPrev, Return
<1>b. /\ k \in FreeBlocks /\ Linked = FreeBlocks
      /\ NULL \notin Nat /\ FreeBlocks \in SUBSET Nat /\ FreeBlocks \subseteq Blocks
      /\ \A b \in Blocks : End(b) \in Nat /\ b < End(b)
      /\ LinkOf(q, k, freelist, next, FreeBlocks)
      /\ Sorted(freelist, next, FreeBlocks)
      /\ DOMAIN next = Blocks /\ next \in [Blocks -> Pointer]
  BY <1>u, <1>a, JoinFacts
<1>c. \A e, f \in FreeBlocks : End(e) = f => f = k
  BY <1>u, <1>a DEF IInv, ApartInv
<1>3. CallInv' /\ WalkInv'
  BY <1>a DEF CallInv, WalkInv, Freeing
<1>1. CASE q # NULL /\ End(q) = k
  <2>a. q \in FreeBlocks /\ next[q] = k /\ End(q) = k /\ Swallow(q, k)
    BY <1>1, <1>b, <1>u DEF LinkOf, JoinPrev
  <2>b. /\ q \in Nat /\ k \in Nat /\ q < k /\ q # k
        /\ Blocks' = Blocks \ {k} /\ FreeBlocks' = FreeBlocks \ {k}
        /\ size' \in [Blocks' -> Nat] /\ next' \in [Blocks' -> Pointer]
        /\ End(q)' = End(k) /\ \A e \in Blocks' \ {q} : End(e)' = End(e)
        /\ 0 \in Blocks' /\ \A e \in Blocks' : End(e)' = Pool \/ End(e)' \in Blocks'
        /\ \A e, f \in Blocks' : e < f => End(e)' <= f
        /\ HeldIntact'
    BY <2>a, <1>a, <1>b, SwallowFacts
  <2>c. Linked' = FreeBlocks \ {k}
    BY <1>a, <2>b DEF Linked
  <2>1. Tiling'
    <3>1. Blocks' \subseteq Addr
      BY <2>b DEF IInv, Tiling, TypeOK
    <3>2. TypeOK'
      BY <3>1, <2>b, <1>a DEF IInv, Tiling, TypeOK, Pointer
    <3> QED
      BY <3>2, <2>b DEF Tiling
  <2>2. ListInv'
    <3>1. Sorted(freelist', next', FreeBlocks \ {k})
      BY <2>a, <1>a, <1>b, SwallowList
    <3> QED
      BY <3>1, <2>c DEF ListInv, Sorted, FirstAbove
  <2>3. ApartInv'
    <3> SUFFICES ASSUME NEW e \in FreeBlocks', NEW f \in FreeBlocks', End(e)' = f PROVE FALSE
      BY DEF ApartInv
    <3>1. e \in FreeBlocks /\ f \in FreeBlocks /\ e # k /\ f # k /\ e \in Blocks'
      BY <2>b, <1>b
    <3>2. CASE e = q
      BY <3>1, <3>2, <1>b, <1>c, <2>b
    <3>3. CASE e # q
      BY <3>1, <3>3, <1>c, <2>b
    <3> QED
      BY <3>2, <3>3
  <2> QED
    BY <2>b, <2>1, <2>2, <2>3, <1>3 DEF IInv
<1>2. CASE ~ (q # NULL /\ End(q) = k)
  <2>a. UNCHANGED <<size, next>>
    BY <1>2, <1>u DEF JoinPrev
  <2>b. \A e \in FreeBlocks : End(e) # k
    <3> SUFFICES ASSUME NEW e \in FreeBlocks, End(e) = k PROVE FALSE
      OBVIOUS
    <3>1. k \in Nat /\ e \in Nat /\ e < k
      BY <1>b
    <3>2. q # NULL
      <4> SUFFICES ASSUME q = NULL PROVE FALSE
        OBVIOUS
      <4>1. k = freelist /\ FirstAbove(freelist, -1, FreeBlocks)
        BY <1>b DEF LinkOf, Sorted
      <4>2. k <= e
        BY <4>1, <3>1, <1>b DEF FirstAbove
      <4> QED
        BY <4>2, <3>1
    <3>3. q \in FreeBlocks /\ q \in Nat /\ FirstAbove(k, q, FreeBlocks)
      BY <3>2, <1>b DEF LinkOf, Sorted
    <3>4. q < k /\ ~ (q < e)
      BY <3>1, <3>3, <1>b DEF FirstAbove
    <3>5. e < q => k <= q
      BY <3>3, <1>b DEF IInv, Tiling
    <3>6. e = q
      BY <3>1, <3>3, <3>4, <3>5
    <3> QED
      BY <3>2, <3>6, <1>2
  <2>1. Tiling' /\ HeldIntact' /\ FreeBlocks' = FreeBlocks
    BY <1>a, <2>a, PoolFrame DEF Pointer
  <2>c. Linked' = FreeBlocks
    BY <1>a, <2>1 DEF Linked
  <2>2. ListInv'
    BY <1>a, <1>b, <2>a, <2>c DEF ListInv, Sorted, FirstAbove
  <2>3. ApartInv'
    <3> SUFFICES ASSUME NEW e \in FreeBlocks, NEW f \in FreeBlocks, End(e) = f PROVE FALSE
      BY <2>a, <2>1 DEF ApartInv, End
    <3> QED
      BY <1>c, <2>b
  <2> QED
    BY <2>1, <2>2, <2>3, <1>3 DEF IInv
<1> QED
  BY <1>1, <1>2

----------------------------------------------------------------------------
(***************************************************************************)
(* Theorems                                                                *)
(***************************************************************************)
LEMMA NextIInv == IInv /\ [Next]_vars => IInv'
<1> SUFFICES ASSUME IInv, [Next]_vars PROVE IInv'
  OBVIOUS
<1>1. ASSUME UNCHANGED vars PROVE IInv'
  <2>1. UNCHANGED <<size, next, freelist, held, pc, bytes, want, prev, cur, block>>
    BY <1>1 DEF vars
  <2>2. Tiling' /\ HeldIntact' /\ FreeBlocks' = FreeBlocks
    BY <2>1, PoolFrame DEF IInv, Tiling, TypeOK
  <2>3. Linked' = Linked
    BY <2>1, <2>2 DEF Linked
  <2>4. CallInv' /\ ApartInv'
    BY <2>1, <2>2 DEF IInv, CallInv, ApartInv, Freeing, End
  <2>5. ListInv'
    BY <2>1, <2>3 DEF IInv, ListInv, Sorted, FirstAbove
  <2>6. WalkInv'
    BY <2>1, <2>3 DEF IInv, WalkInv, LinkOf, Freeing
  <2> QED
    BY <2>2, <2>4, <2>5, <2>6 DEF IInv
<1>2. CASE KmallocZero
  BY <1>1, <1>2 DEF KmallocZero
<1>3. CASE KfreeNull
  BY <1>1, <1>3 DEF KfreeNull
<1>4. CASE \E n \in Sizes : KmallocEnter(n)
  BY <1>4, KmallocEnterKeeps
<1>5. CASE KmallocSkip \/ KmallocSplit \/ KmallocWhole \/ KmallocFail
  BY <1>5, KmallocSkipKeeps, KmallocSplitKeeps, KmallocWholeKeeps, KmallocFailKeeps
<1>6. CASE \E ptr \in DOMAIN held : KfreeEnter(ptr)
  BY <1>6, KfreeEnterKeeps
<1>7. CASE KfreeWalk \/ KfreeInsert \/ JoinNext \/ JoinPrev
  BY <1>7, KfreeWalkKeeps, KfreeInsertKeeps, JoinNextKeeps, JoinPrevKeeps
<1> QED
  BY <1>1, <1>2, <1>3, <1>4, <1>5, <1>6, <1>7 DEF Next

\* The inductive invariant: what every step of kmalloc and kfree keeps, at
\* every node of a walk and between the stores of a call.
THEOREM Invariance == Spec => []IInv
<1>1. Init => IInv
  BY InitIInv
<1>2. IInv /\ [Next]_vars => IInv'
  BY NextIInv
<1> QED
  BY <1>1, <1>2, PTL DEF Spec

\* The blocks tile the pool after every step of kmalloc's split and kfree's two
\* joins: no byte of the pool is lost and no two blocks overlap.
THEOREM TilingCorrect == Spec => []Tiling
<1>1. IInv => Tiling
  BY DEF IInv
<1> QED
  BY <1>1, Invariance, PTL

\* What a caller got from kmalloc stays behind a block of its own that is as
\* large as asked for, until the caller gives it to kfree.
THEOREM HeldIntactCorrect == Spec => []HeldIntact
<1>1. IInv => HeldIntact
  BY DEF IInv
<1> QED
  BY <1>1, Invariance, PTL

\* The first element above a is the least of those above a.
LEMMA FirstIsLeast ==
    ASSUME NEW S \in SUBSET Nat, NEW a \in Int, NEW x, FirstAbove(x, a, S)
    PROVE  x = Least({d \in S : d > a})
<1> DEFINE T == {d \in S : d > a}
<1>0. NULL \notin Nat /\ \A d \in S : d \in Nat
  BY HeapAssumption
<1>1. CASE x = NULL
  <2>1. \A d \in S : d \in Nat /\ d <= a
    BY <1>0, <1>1 DEF FirstAbove
  <2>2. \A d \in S : ~ (d > a)
    BY <2>1
  <2>3. T = {}
    BY <2>2
  <2> QED
    BY <1>1, <2>3 DEF Least
<1>2. CASE x # NULL
  <2>1. x \in T /\ x \in Nat /\ \A d \in T : x <= d
    BY <1>0, <1>2 DEF FirstAbove
  <2>2. PICK y \in T : y = (CHOOSE e \in T : \A d \in T : e <= d) /\ \A d \in T : y <= d
    BY <2>1
  <2>3. x = y
    <3>1. x <= y /\ y <= x /\ y \in Nat
      BY <1>0, <2>1, <2>2
    <3> QED
      BY <3>1, <2>1
  <2> QED
    BY <2>1, <2>2, <2>3 DEF Least
<1> QED
  BY <1>1, <1>2

\* Between calls the free list is complete, sorted by address and joined:
\* kmalloc's relinking and kfree's insertion and joins, in any sequence of
\* calls, leave exactly the blocks nobody holds and no two that touch.
THEOREM ListSortedCorrect == Spec => []ListSorted
<1>1. ASSUME IInv PROVE ListSorted
  <2> SUFFICES ASSUME pc = "idle"
               PROVE  /\ freelist = Least(FreeBlocks)
                      /\ \A b \in FreeBlocks : next[b] = Least({d \in FreeBlocks : d > b})
                      /\ \A b, d \in FreeBlocks : End(b) # d
    BY DEF ListSorted
  <2>1. Linked = FreeBlocks /\ FreeBlocks \in SUBSET Nat /\ \A d \in FreeBlocks : d \in Nat
    BY <1>1, Basics DEF Linked
  <2>2. FirstAbove(freelist, -1, FreeBlocks) /\ \A b \in FreeBlocks : FirstAbove(next[b], b, FreeBlocks)
    BY <2>1, <1>1 DEF IInv, ListInv, Sorted
  <2>3. freelist = Least(FreeBlocks)
    <3>1. {d \in FreeBlocks : d > -1} = FreeBlocks
      <4>1. \A d \in FreeBlocks : d > -1
        BY <2>1
      <4> QED
        BY <4>1
    <3>2. -1 \in Int
      OBVIOUS
    <3> QED
      BY <3>1, <3>2, <2>1, <2>2, FirstIsLeast
  <2>4. \A b \in FreeBlocks : next[b] = Least({d \in FreeBlocks : d > b})
    <3> SUFFICES ASSUME NEW b \in FreeBlocks PROVE next[b] = Least({d \in FreeBlocks : d > b})
      OBVIOUS
    <3>1. b \in Int
      BY <2>1
    <3> QED
      BY <3>1, <2>1, <2>2, FirstIsLeast
  <2>5. \A b, d \in FreeBlocks : End(b) # d
    BY <1>1 DEF IInv, ApartInv, Freeing
  <2> QED
    BY <2>3, <2>4, <2>5
<1> QED
  BY <1>1, Invariance, PTL

\* kmalloc gives up, at the end of the list, only when no free block is large
\* enough for the rounded request.
THEOREM NullMeansNoFitCorrect == Spec => NullMeansNoFit
<1>1. ASSUME IInv PROVE KmallocFail => \A b \in FreeBlocks : size[b] < want
  <2> SUFFICES ASSUME KmallocFail PROVE \A b \in FreeBlocks : size[b] < want
    OBVIOUS
  <2>1. pc = "kmalloc" /\ cur = NULL
    BY DEF KmallocFail
  <2>2. Linked = FreeBlocks
    BY <2>1 DEF Linked
  <2> QED
    BY <1>1, <2>1, <2>2 DEF IInv, WalkInv
<1>2. IInv => [KmallocFail => \A b \in FreeBlocks : size[b] < want]_vars
  BY <1>1
<1> QED
  BY <1>2, Invariance, PTL DEF NullMeansNoFit
=============================================================================
