---------------------------- MODULE PagingProofs ----------------------------
(***************************************************************************)
(* Proofs about Paging, for any number of levels and entries per table,    *)
(* any memory, any ranges mapped by paging_init and any calls after it.    *)
(*                                                                         *)
(* The walks are recursive functions of the level.  What they compute is   *)
(* proved by induction on the level, from the least-number principle; the  *)
(* invariant itself is local: it labels each table with its level, its     *)
(* block of addresses and its tree, and relates a table to its entries.    *)
(***************************************************************************)
EXTENDS Paging, TLAPS, WellFoundedInduction

(***************************************************************************)
(* Induction and recursion                                                 *)
(***************************************************************************)
\* Every nonempty set of naturals has a least element.
LEMMA LeastNumber ==
    ASSUME NEW S \in SUBSET Nat, S # {}
    PROVE  \E x \in S : \A y \in S : x <= y
<1>1. IsWellFoundedOn(OpToRel(<, Nat), Nat)
  BY NatLessThanWellFounded
<1>2. PICK x \in S : \A y \in S : ~ (<<y, x>> \in OpToRel(<, Nat))
  BY <1>1, WFMin
<1>3. \A y \in S : <<y, x>> \in OpToRel(<, Nat) <=> y < x
  BY DEF OpToRel
<1>4. \A y \in S : ~ (y < x)
  BY <1>2, <1>3, Zenon
<1> QED
  BY <1>4

\* Induction up to N, with a set in place of a predicate.
LEMMA UpTo ==
    ASSUME NEW N \in Nat, NEW S, 0 \in S, \A n \in 0 .. N - 1 : n \in S => n + 1 \in S
    PROVE  \A n \in 0 .. N : n \in S
<1> DEFINE Bad == {n \in 0 .. N : n \notin S}
<1>1. SUFFICES ASSUME Bad # {} PROVE FALSE
  OBVIOUS
<1>2. PICK n \in Bad : \A m \in Bad : n <= m
  <2>1. Bad \in SUBSET Nat
    OBVIOUS
  <2> HIDE DEF Bad
  <2> QED
    BY <1>1, <2>1, LeastNumber
<1>3. n # 0
  OBVIOUS
<1>4. n - 1 \in 0 .. N - 1 /\ n - 1 \notin Bad
  BY <1>2, <1>3
<1>5. n - 1 \in S
  BY <1>4
<1>6. (n - 1) + 1 \in S
  BY <1>4, <1>5
<1> QED
  BY <1>6

\* A function is defined by its first value and the step from each value to the next.
Steps(N, V) == [1 .. N -> [V -> V]]
IsRec(f, N, V, a, g) ==
    f \in [0 .. N -> V] /\ f[0] = a /\ \A k \in 1 .. N : f[k] = g[k][f[k - 1]]

LEMMA Recursion ==
    ASSUME NEW N \in Nat, NEW V, NEW a \in V, NEW g \in Steps(N, V)
    PROVE  \E f : IsRec(f, N, V, a, g)
<1>0. g \in [1 .. N -> [V -> V]]
  BY DEF Steps
<1> DEFINE Good(n) == \E f \in [0 .. n -> V] : f[0] = a /\ \A k \in 1 .. n : f[k] = g[k][f[k - 1]]
           S == {n \in 0 .. N : Good(n)}
<1>1. Good(0)
  <2>1. [k \in 0 .. 0 |-> a] \in [0 .. 0 -> V]
    OBVIOUS
  <2>2. [k \in 0 .. 0 |-> a][0] = a /\ \A k \in 1 .. 0 : FALSE
    OBVIOUS
  <2> QED
    BY <2>1, <2>2
<1>2. ASSUME NEW n \in 0 .. N - 1, Good(n)
      PROVE  Good(n + 1)
  <2>1. PICK f \in [0 .. n -> V] : f[0] = a /\ \A k \in 1 .. n : f[k] = g[k][f[k - 1]]
    BY <1>2
  <2> DEFINE h == [k \in 0 .. n + 1 |-> IF k = n + 1 THEN g[n + 1][f[n]] ELSE f[k]]
  <2>2. g[n + 1][f[n]] \in V
    BY <1>0
  <2>3. h \in [0 .. n + 1 -> V]
    BY <2>2
  <2>4. h[0] = a /\ \A k \in 1 .. n + 1 : h[k] = g[k][h[k - 1]]
    BY <2>1
  <2> QED
    BY <2>3, <2>4
<1> HIDE DEF Good
<1>3. 0 \in S /\ \A n \in 0 .. N - 1 : n \in S => n + 1 \in S
  BY <1>1, <1>2
<1>4. N \in S
  <2> HIDE DEF S
  <2>1. \A n \in 0 .. N : n \in S
    BY <1>3, UpTo
  <2> QED
    BY <2>1
<1>5. Good(N)
  BY <1>4
<1> QED
  BY <1>5 DEF Good, IsRec

----------------------------------------------------------------------------
(***************************************************************************)
(* Addresses: the block of level l an address lies in, and its number      *)
(* within the block above.  Block and Sub hide the arithmetic.             *)
(***************************************************************************)
Block(v, l) == v \div Span[l]
Sub(b, x) == b * Fan + x
High(x) == x >= Fan \div 2

LEMMA FanFacts == Levels \in Nat /\ Levels >= 2 /\ Fan \in Nat /\ Fan >= 2 /\ NFrames \in Nat
BY PagingAssumption

LEMMA SpanRec ==
    /\ Span \in [0 .. Levels -> Nat]
    /\ Span[0] = 1
    /\ \A l \in 1 .. Levels : Span[l] = Fan * Span[l - 1]
<1> DEFINE g == [k \in 1 .. Levels |-> [s \in Nat |-> Fan * s]]
<1>0. Levels \in Nat /\ Fan \in Nat
  BY FanFacts
<1>1. g \in Steps(Levels, Nat) /\ 1 \in Nat
  BY <1>0 DEF Steps
<1>2. PICK f : IsRec(f, Levels, Nat, 1, g)
  <2> HIDE DEF g
  <2> QED
    BY <1>0, <1>1, Recursion
<1>a. f \in [0 .. Levels -> Nat] /\ f[0] = 1 /\ \A k \in 1 .. Levels : f[k] = g[k][f[k - 1]]
  BY <1>2 DEF IsRec
<1>3. \A k \in 1 .. Levels : f[k] = Fan * f[k - 1]
  <2>1. \A k \in 1 .. Levels : g[k] = [s \in Nat |-> Fan * s] /\ f[k - 1] \in Nat
    BY <1>0, <1>a
  <2> QED
    BY <1>a, <2>1
<1>4. f = [l \in 0 .. Levels |-> IF l = 0 THEN 1 ELSE Fan * f[l - 1]]
  BY <1>0, <1>a, <1>3
<1>5. Span = [l \in 0 .. Levels |-> IF l = 0 THEN 1 ELSE Fan * Span[l - 1]]
  BY <1>4 DEF Span
<1> DEFINE S == {l \in 0 .. Levels : Span[l] \in Nat}
<1>6. Span[0] = 1 /\ \A l \in 1 .. Levels : Span[l] = Fan * Span[l - 1]
  <2>1. 0 \in 0 .. Levels /\ \A l \in 1 .. Levels : l \in 0 .. Levels /\ l # 0
    BY <1>0
  <2> QED
    BY <1>5, <2>1, Zenon
<1>7. 0 \in S /\ \A l \in 0 .. Levels - 1 : l \in S => l + 1 \in S
  BY <1>0, <1>6
<1>8. \A l \in 0 .. Levels : l \in S
  <2> HIDE DEF S
  <2> QED
    BY <1>0, <1>7, UpTo
<1>9. Span \in [0 .. Levels -> Nat]
  BY <1>5, <1>8
<1> QED
  BY <1>6, <1>9

LEMMA SpanFacts ==
    /\ \A l \in 0 .. Levels : Span[l] \in Nat /\ Span[l] >= 1
    /\ Span[0] = 1
    /\ \A l \in 1 .. Levels : Span[l] = Fan * Span[l - 1]
<1> DEFINE S == {l \in 0 .. Levels : Span[l] >= 1}
<1>0. Levels \in Nat /\ Fan \in Nat /\ Fan >= 2
  BY FanFacts
<1>1. \A l \in 0 .. Levels : Span[l] \in Nat
  BY SpanRec
<1>2. \A a, b \in Nat : a >= 1 /\ b >= 1 => a * b >= 1
  OBVIOUS
<1>3. 0 \in S /\ \A l \in 0 .. Levels - 1 : l \in S => l + 1 \in S
  <2>1. 0 \in S
    BY <1>0, SpanRec
  <2>2. ASSUME NEW l \in 0 .. Levels - 1, l \in S
        PROVE  l + 1 \in S
    <3>1. l \in 0 .. Levels /\ l + 1 \in 1 .. Levels /\ (l + 1) - 1 = l /\ Span[l] >= 1
      BY <1>0, <2>2
    <3>2. Span[l + 1] = Fan * Span[l]
      BY <3>1, SpanRec
    <3>3. Span[l + 1] >= 1
      BY <1>0, <1>1, <1>2, <3>1, <3>2
    <3> QED
      BY <3>1, <3>3, <1>0
  <2> QED
    BY <2>1, <2>2
<1>4. \A l \in 0 .. Levels : l \in S
  <2> HIDE DEF S
  <2> QED
    BY <1>0, <1>3, UpTo
<1> QED
  BY <1>1, <1>4, SpanRec

\* Quotient and remainder are unique.
LEMMA Unique ==
    ASSUME NEW a \in Nat, NEW b \in Nat, NEW n \in Nat, NEW x \in 0 .. n - 1, NEW y \in 0 .. n - 1,
           a * n + x = b * n + y
    PROVE  a = b /\ x = y
<1>1. ASSUME NEW c \in Nat, NEW d \in Nat, c < d
      PROVE  c * n + n <= d * n
  <2>1. d = c + 1 + (d - c - 1) /\ d - c - 1 \in Nat
    BY <1>1
  <2>2. d * n = c * n + n + (d - c - 1) * n
    BY <2>1
  <2>3. (d - c - 1) * n >= 0
    BY <2>1
  <2> QED
    BY <2>2, <2>3
<1>2. ~ (a < b)
  <2>1. SUFFICES ASSUME a < b PROVE FALSE
    OBVIOUS
  <2>2. a * n + n <= b * n
    BY <1>1, <2>1
  <2>3. a * n \in Int /\ b * n \in Int
    OBVIOUS
  <2> QED
    BY <2>2, <2>3
<1>3. ~ (b < a)
  <2>1. SUFFICES ASSUME b < a PROVE FALSE
    OBVIOUS
  <2>2. b * n + n <= a * n
    BY <1>1, <2>1
  <2>3. a * n \in Int /\ b * n \in Int
    OBVIOUS
  <2> QED
    BY <2>2, <2>3
<1>4. a = b
  BY <1>2, <1>3
<1> QED
  BY <1>4

\* Division by a product.
LEMMA DivDiv ==
    ASSUME NEW v \in Nat, NEW s \in Nat, s >= 1, NEW n \in Nat, n >= 1
    PROVE  v \div (n * s) = (v \div s) \div n
<1> DEFINE q == v \div s
           r == v % s
           a == q \div n
           x == q % n
<1>1. q \in Nat /\ r \in 0 .. s - 1 /\ v = q * s + r
  OBVIOUS
<1>2. a \in Nat /\ x \in 0 .. n - 1 /\ q = a * n + x
  BY <1>1
<1> HIDE DEF q, r, a, x
<1>3. v = a * (n * s) + (x * s + r)
  <2>1. q * s = (a * n) * s + x * s
    BY <1>1, <1>2
  <2>2. (a * n) * s = a * (n * s)
    BY <1>1, <1>2
  <2> QED
    BY <1>1, <1>2, <2>1, <2>2
<1>4. x * s + r \in 0 .. (n * s) - 1
  <2>1. x * s >= 0
    BY <1>2
  <2>2. (n - 1 - x) * s >= 0
    BY <1>2
  <2>3. (n - 1 - x) * s = n * s - s - x * s
    BY <1>2
  <2>4. x * s \in Int /\ n * s \in Int
    BY <1>2
  <2> QED
    BY <1>1, <2>1, <2>2, <2>3, <2>4
<1>5. n * s \in Nat /\ n * s >= 1
  OBVIOUS
<1> DEFINE m == n * s
<1>6. v \div m \in Nat /\ v % m \in 0 .. m - 1 /\ v = (v \div m) * m + (v % m)
  <2> HIDE DEF m
  <2>1. m \in Nat /\ m >= 1
    BY <1>5 DEF m
  <2> QED
    BY <2>1
<1>7. v \div m = a
  <2>1. m \in Nat /\ x * s + r \in 0 .. m - 1 /\ v = a * m + (x * s + r)
    BY <1>3, <1>4, <1>5
  <2> HIDE DEF m
  <2> DEFINE z == x * s + r
  <2>2. z \in 0 .. m - 1 /\ (v \div m) * m + (v % m) = a * m + z
    BY <2>1, <1>6
  <2> HIDE DEF z
  <2> DEFINE b == v \div m
             y == v % m
  <2>3. b \in Nat /\ y \in 0 .. m - 1 /\ b * m + y = a * m + z
    BY <2>2, <1>6
  <2> HIDE DEF b, y
  <2>4. b = a
    BY <2>1, <2>2, <2>3, <1>2, Unique
  <2> QED
    BY <2>4 DEF b
<1> QED
  BY <1>7 DEF a, q, m

\* How blocks lie in blocks.
LEMMA BlockFacts ==
    /\ \A v \in Nat, l \in 0 .. Levels : Block(v, l) \in Nat
    /\ \A v \in Nat, l \in 1 .. Levels :
         page_index(v, l) \in Index /\ Block(v, l - 1) = Sub(Block(v, l), page_index(v, l))
    /\ \A v \in Addr : v \in Nat /\ Block(v, Levels) = 0
    /\ \A v \in Nat : Block(v, 0) = v
<1>0. Levels \in Nat /\ Levels >= 2 /\ Fan \in Nat /\ Fan >= 2
  BY FanFacts
<1>1. \A v \in Nat, n \in Nat : n >= 1 => v \div n \in Nat
  OBVIOUS
<1>2. \A v \in Nat, l \in 0 .. Levels : Block(v, l) \in Nat
  BY <1>1, SpanFacts DEF Block
<1>3. ASSUME NEW v \in Nat, NEW l \in 1 .. Levels
      PROVE  page_index(v, l) \in Index /\ Block(v, l - 1) = Sub(Block(v, l), page_index(v, l))
  <2>1. l - 1 \in 0 .. Levels /\ l \in 0 .. Levels
    BY <1>0
  <2> DEFINE s == Span[l - 1]
             q == v \div s
  <2>2. s \in Nat /\ s >= 1 /\ Span[l] = Fan * s
    BY <2>1, SpanFacts
  <2> HIDE DEF s
  <2>a. Fan >= 1
    BY <1>0
  <2>3. v \div (Fan * s) = q \div Fan
    BY <1>0, <2>2, <2>a, DivDiv, Zenon
  <2>4. q \in Nat
    BY <1>1, <2>2
  <2>5. Block(v, l - 1) = q /\ page_index(v, l) = q % Fan /\ Block(v, l) = q \div Fan
    BY <2>2, <2>3 DEF Block, page_index, s
  <2> HIDE DEF q
  <2>6. q % Fan \in 0 .. Fan - 1 /\ q = (q \div Fan) * Fan + (q % Fan)
    BY <1>0, <2>4
  <2> QED
    BY <2>5, <2>6 DEF Index, Sub
<1>4. ASSUME NEW v \in Addr
      PROVE  v \in Nat /\ Block(v, Levels) = 0
  <2>1. Levels \in 0 .. Levels
    BY <1>0
  <2> DEFINE s == Span[Levels]
  <2>2. s \in Nat /\ s >= 1 /\ v \in 0 .. s - 1
    BY <2>1, SpanFacts DEF Addr
  <2> HIDE DEF s
  <2>3. v \div s = 0
    BY <2>2
  <2> QED
    BY <2>2, <2>3 DEF Block, s
<1>5. \A v \in Nat : Block(v, 0) = v
  BY SpanFacts DEF Block
<1> QED
  BY <1>2, <1>3, <1>4, <1>5

LEMMA SubFacts ==
    /\ \A b \in Nat, x \in Index : Sub(b, x) \in Nat
    /\ \A b, c \in Nat, x, y \in Index : Sub(b, x) = Sub(c, y) => b = c /\ x = y
    /\ \A x \in Index : Sub(0, x) = x
<1>0. Fan \in Nat /\ Fan >= 2
  BY FanFacts
<1>1. \A b \in Nat, x \in Index : Sub(b, x) \in Nat
  BY <1>0 DEF Sub, Index
<1>2. \A b, c \in Nat, x, y \in Index : Sub(b, x) = Sub(c, y) => b = c /\ x = y
  BY <1>0, Unique DEF Sub, Index
<1>3. \A x \in Index : Sub(0, x) = x
  BY <1>0 DEF Sub, Index
<1> QED
  BY <1>1, <1>2, <1>3

\* The pages of a large page: those of one block of level 1.
LEMMA LargeBlock ==
    ASSUME NEW v \in Nat
    PROVE  /\ Sub(Block(v, 1), 0) <= v /\ v < Sub(Block(v, 1), 0) + Fan
           /\ v % Fan = v - Sub(Block(v, 1), 0)
           /\ v % Fan = 0 => \A w \in Nat :
                w \in v .. v + Fan - 1 <=> Block(w, 1) = Block(v, 1)
<1>0. Fan \in Nat /\ Fan >= 2 /\ Levels \in Nat /\ Levels >= 2
  BY FanFacts
<1>1. ASSUME NEW w \in Nat
      PROVE  /\ Block(w, 1) \in Nat /\ Sub(Block(w, 1), 0) \in Nat
             /\ w = Sub(Block(w, 1), 0) + (w % Fan) /\ w % Fan \in 0 .. Fan - 1
  <2>1. 1 \in 0 .. Levels /\ 1 \in 1 .. Levels /\ 1 - 1 = 0 /\ 0 \in Index
    BY <1>0 DEF Index
  <2>2. Block(w, 1) \in Nat /\ page_index(w, 1) = w % Fan
        /\ w = Sub(Block(w, 1), page_index(w, 1)) /\ page_index(w, 1) \in Index
    <3>1. page_index(w, 1) = (w \div 1) % Fan
      BY <2>1, SpanFacts DEF page_index
    <3> QED
      BY <3>1, <2>1, BlockFacts
  <2>3. Sub(Block(w, 1), 0) \in Nat
    BY <2>1, <2>2, SubFacts
  <2>4. \A b \in Nat, x \in Index : Sub(b, x) = Sub(b, 0) + x
    BY <1>0 DEF Sub, Index
  <2> DEFINE x == w % Fan
  <2>5. x \in Index /\ w = Sub(Block(w, 1), x)
    BY <2>2
  <2> HIDE DEF x
  <2>6. w = Sub(Block(w, 1), 0) + x /\ x \in 0 .. Fan - 1
    BY <2>2, <2>4, <2>5 DEF Index
  <2> QED
    BY <2>2, <2>3, <2>6 DEF x
<1>2. ASSUME v % Fan = 0, NEW w \in Nat, Block(w, 1) = Block(v, 1)
      PROVE  w \in v .. v + Fan - 1
  BY <1>0, <1>1, <1>2
<1>3. ASSUME v % Fan = 0, NEW w \in v .. v + Fan - 1
      PROVE  Block(w, 1) = Block(v, 1)
  <2>0. w \in Nat
    BY <1>0, <1>3
  <2> DEFINE b == Block(v, 1)
             c == Block(w, 1)
             x == w - v
             y == w % Fan
  <2>1. b \in Nat /\ c \in Nat /\ x \in Index /\ y \in Index /\ 0 \in Index
    BY <1>0, <1>1, <1>3, <2>0 DEF Index
  <2>2. Sub(b, 0) + x = Sub(c, 0) + y
    <3>1. v = Sub(b, 0) + (v % Fan) /\ Sub(b, 0) \in Nat
      BY <1>1
    <3>2. w = Sub(c, 0) + y
      BY <1>1, <2>0
    <3>3. v = Sub(b, 0)
      BY <3>1, <1>3
    <3> HIDE DEF b, c, y
    <3> QED
      BY <3>2, <3>3, <2>0
  <2> HIDE DEF b, c, x, y
  <2>3. Sub(b, x) = Sub(c, y)
    BY <1>0, <2>1, <2>2 DEF Sub, Index
  <2>4. b = c
    BY <2>1, <2>3, SubFacts
  <2> QED
    BY <2>4 DEF b, c
<1>4. v = Sub(Block(v, 1), 0) + (v % Fan) /\ v % Fan \in 0 .. Fan - 1 /\ Sub(Block(v, 1), 0) \in Nat
  BY <1>1
<1>5. v % Fan = 0 => \A w \in Nat : w \in v .. v + Fan - 1 <=> Block(w, 1) = Block(v, 1)
  BY <1>2, <1>3
<1> DEFINE x == v % Fan
           s == Sub(Block(v, 1), 0)
<1>6. v = s + x /\ x \in 0 .. Fan - 1 /\ s \in Nat
  BY <1>4
<1> HIDE DEF x, s
<1>7. s <= v /\ v < s + Fan /\ x = v - s
  BY <1>0, <1>6
<1> QED
  BY <1>5, <1>7 DEF x, s

----------------------------------------------------------------------------
(***************************************************************************)
(* Labels: the level of a table, its block of addresses, and the tree it   *)
(* belongs to, 0 for the tables of the upper half, which all trees share.  *)
(* A page that is no table has level 0.                                    *)
(***************************************************************************)
Label == [lv : 0 .. Levels, bs : Nat, ow : 0 .. NFrames]
Root(f) == [lv |-> Levels, bs |-> 0, ow |-> f]

\* The label of the table of level l for address v in tree pm.
Owner(pm, v, l) == IF l < Levels /\ Upper(v) THEN 0 ELSE pm
Lab(pm, v, l) == [lv |-> l, bs |-> Block(v, l), ow |-> Owner(pm, v, l)]

\* The label of the table under entry x of a table labelled a.
Kid(a, x) == [lv |-> a.lv - 1, bs |-> Sub(a.bs, x),
              ow |-> IF a.lv = Levels /\ High(x) THEN 0 ELSE a.ow]

LEMMA LabFacts ==
    ASSUME NEW pm \in Frame, NEW v \in Addr
    PROVE  /\ \A l \in 1 .. Levels : Lab(pm, v, l) \in Label /\ Lab(pm, v, l).lv = l
           /\ \A l \in 1 .. Levels : Lab(pm, v, l).bs = Block(v, l) /\ Lab(pm, v, l).ow \in {0, pm}
           /\ \A l \in 1 .. Levels : page_index(v, l) \in Index
           /\ \A l \in 2 .. Levels : Kid(Lab(pm, v, l), page_index(v, l)) = Lab(pm, v, l - 1)
           /\ Lab(pm, v, Levels) = Root(pm)
<1>0. Levels \in Nat /\ Levels >= 2 /\ NFrames \in Nat /\ Levels \in 1 .. Levels
  BY FanFacts
<1>1. v \in Nat
  BY BlockFacts
<1>2. \A l \in 1 .. Levels : page_index(v, l) \in Index /\ Block(v, l) \in Nat
  BY <1>0, <1>1, BlockFacts
<1>3. \A l \in 1 .. Levels : Lab(pm, v, l) \in Label /\ Lab(pm, v, l).lv = l
          /\ Lab(pm, v, l).bs = Block(v, l) /\ Lab(pm, v, l).ow \in {0, pm}
  BY <1>0, <1>2 DEF Lab, Label, Owner, Frame
<1>4. ASSUME NEW l \in 2 .. Levels
      PROVE  Kid(Lab(pm, v, l), page_index(v, l)) = Lab(pm, v, l - 1)
  <2>1. l \in 1 .. Levels /\ l - 1 \in 1 .. Levels /\ l - 1 < Levels
    BY <1>0
  <2>2. Block(v, l - 1) = Sub(Block(v, l), page_index(v, l))
    BY <1>1, <2>1, BlockFacts
  <2>3. (IF l = Levels /\ High(page_index(v, l)) THEN 0 ELSE Owner(pm, v, l)) = Owner(pm, v, l - 1)
    <3>1. Upper(v) <=> High(page_index(v, Levels))
      BY DEF Upper, High
    <3>2. CASE l = Levels
      <4>1. Owner(pm, v, l) = pm /\ Owner(pm, v, l - 1) = IF Upper(v) THEN 0 ELSE pm
        BY <1>0, <2>1, <3>2 DEF Owner
      <4> QED
        BY <3>1, <3>2, <4>1, Zenon
    <3>3. CASE l # Levels
      <4>1. l < Levels
        BY <1>0, <3>3
      <4> QED
        BY <2>1, <3>3, <4>1 DEF Owner
    <3> QED
      BY <3>2, <3>3
  <2> QED
    BY <2>2, <2>3 DEF Kid, Lab
<1>5. Lab(pm, v, Levels) = Root(pm)
  BY <1>0, BlockFacts DEF Lab, Root, Owner
<1> QED
  BY <1>2, <1>3, <1>4, <1>5

LEMMA KidFacts ==
    ASSUME NEW a \in Label, a.lv >= 2, NEW x \in Index
    PROVE  /\ Kid(a, x) \in Label /\ Kid(a, x).lv = a.lv - 1 /\ Kid(a, x).ow \in {0, a.ow}
           /\ \A b \in Label, y \in Index : b.lv >= 2 /\ Kid(a, x) = Kid(b, y) =>
                x = y /\ (a = b \/ (a.lv = Levels /\ b.lv = Levels /\ High(x)))
<1>0. Levels \in Nat /\ NFrames \in Nat
  BY FanFacts
<1>1. Kid(a, x) \in Label /\ Kid(a, x).lv = a.lv - 1 /\ Kid(a, x).ow \in {0, a.ow}
  BY <1>0, SubFacts DEF Kid, Label
<1>2. ASSUME NEW b \in Label, NEW y \in Index, b.lv >= 2, Kid(a, x) = Kid(b, y)
      PROVE  x = y /\ (a = b \/ (a.lv = Levels /\ b.lv = Levels /\ High(x)))
  <2>1. a.lv - 1 = b.lv - 1 /\ Sub(a.bs, x) = Sub(b.bs, y)
        /\ (IF a.lv = Levels /\ High(x) THEN 0 ELSE a.ow) = (IF b.lv = Levels /\ High(y) THEN 0 ELSE b.ow)
    BY <1>2 DEF Kid
  <2>2. a.lv = b.lv /\ a.bs = b.bs /\ x = y
    BY <2>1, SubFacts, <1>0 DEF Label
  <2>3. a.ow = b.ow \/ (a.lv = Levels /\ b.lv = Levels /\ High(x))
    BY <2>1, <2>2
  <2> QED
    BY <2>2, <2>3 DEF Label
<1> QED
  BY <1>1, <1>2

\* Which addresses lead to the same entry.
LEMMA SameEntry ==
    ASSUME NEW pm \in Frame, NEW qm \in Frame, NEW v \in Addr, NEW w \in Addr, NEW l \in 1 .. Levels,
           Lab(pm, v, l) = Lab(qm, w, l), page_index(v, l) = page_index(w, l)
    PROVE  /\ Block(v, l - 1) = Block(w, l - 1)
           /\ l < Levels => pm = qm \/ (Upper(v) /\ Upper(w))
<1>1. v \in Nat /\ w \in Nat /\ pm # 0 /\ qm # 0
  BY BlockFacts DEF Frame
<1>2. Block(v, l) = Block(w, l) /\ Owner(pm, v, l) = Owner(qm, w, l)
  BY DEF Lab
<1>3. Block(v, l - 1) = Block(w, l - 1)
  BY <1>1, <1>2, BlockFacts
<1>4. l < Levels => pm = qm \/ (Upper(v) /\ Upper(w))
  BY <1>1, <1>2 DEF Owner
<1> QED
  BY <1>3, <1>4

\* Addresses of the same large page have the same tables, but for the entry of level 1.
LEMMA SameTables ==
    ASSUME NEW pm \in Frame, NEW v \in Addr, NEW w \in Addr, Block(v, 1) = Block(w, 1)
    PROVE  /\ \A l \in 1 .. Levels : Lab(pm, v, l) = Lab(pm, w, l)
           /\ \A l \in 2 .. Levels : page_index(v, l) = page_index(w, l)
           /\ Upper(v) <=> Upper(w)
<1>0. Levels \in Nat /\ Levels >= 2 /\ Levels - 1 \in Nat /\ v \in Nat /\ w \in Nat
  BY FanFacts, BlockFacts
<1> DEFINE S == {n \in 0 .. Levels - 1 : Block(v, n + 1) = Block(w, n + 1)}
<1>1. ASSUME NEW l \in 2 .. Levels, Block(v, l - 1) = Block(w, l - 1)
      PROVE  Block(v, l) = Block(w, l) /\ page_index(v, l) = page_index(w, l)
  <2>1. l \in 1 .. Levels /\ l \in 0 .. Levels
    BY <1>0
  <2>2. /\ Block(v, l) \in Nat /\ page_index(v, l) \in Index
        /\ Block(w, l) \in Nat /\ page_index(w, l) \in Index
        /\ Sub(Block(v, l), page_index(v, l)) = Sub(Block(w, l), page_index(w, l))
    <3>1. Block(v, l - 1) = Sub(Block(v, l), page_index(v, l)) /\ Block(w, l - 1) = Sub(Block(w, l), page_index(w, l))
      BY <1>0, <2>1, BlockFacts
    <3> QED
      BY <1>0, <1>1, <2>1, <3>1, BlockFacts
  <2> QED
    BY <2>2, SubFacts
<1>2. 0 \in S /\ \A n \in 0 .. (Levels - 1) - 1 : n \in S => n + 1 \in S
  <2>1. 0 \in S
    BY <1>0
  <2>2. ASSUME NEW n \in 0 .. (Levels - 1) - 1, n \in S
        PROVE  n + 1 \in S
    <3>1. n + 2 \in 2 .. Levels /\ (n + 2) - 1 = n + 1 /\ (n + 1) + 1 = n + 2 /\ n + 1 \in 0 .. Levels - 1
      BY <1>0
    <3>2. Block(v, n + 1) = Block(w, n + 1)
      BY <2>2
    <3>3. Block(v, n + 2) = Block(w, n + 2)
      BY <1>1, <3>1, <3>2
    <3> QED
      BY <3>1, <3>3
  <2> QED
    BY <2>1, <2>2
<1>3. \A n \in 0 .. Levels - 1 : n \in S
  <2> HIDE DEF S
  <2> QED
    BY <1>0, <1>2, UpTo
<1>4. ASSUME NEW l \in 1 .. Levels
      PROVE  Block(v, l) = Block(w, l)
  <2>1. l - 1 \in 0 .. Levels - 1 /\ (l - 1) + 1 = l
    BY <1>0
  <2>2. Block(v, (l - 1) + 1) = Block(w, (l - 1) + 1)
    BY <1>3, <2>1
  <2> QED
    BY <2>1, <2>2
<1>5. ASSUME NEW l \in 2 .. Levels
      PROVE  page_index(v, l) = page_index(w, l)
  <2>1. l - 1 \in 1 .. Levels
    BY <1>0
  <2> QED
    BY <1>1, <1>4, <2>1
<1>6. Upper(v) <=> Upper(w)
  BY <1>0, <1>5 DEF Upper
<1> QED
  BY <1>4, <1>5, <1>6 DEF Lab, Owner

----------------------------------------------------------------------------
(***************************************************************************)
(* The invariant                                                           *)
(***************************************************************************)
\* The tables in use and what their entries lead to.
TreeInv(L) ==
    /\ L \in [Frame -> Label]
    /\ \A f \in avail : L[f].lv = 0
    /\ \A f \in Frame : f \in pagemaps <=> L[f].lv = Levels
    /\ \A f \in pagemaps : L[f] = Root(f)
    /\ \A f \in Frame : L[f].lv > 0 => L[f].ow \in pagemaps \cup {0}

\* No two tables have the same label.
Distinct(L) == \A f, g \in Frame : L[f].lv > 0 /\ L[f] = L[g] => f = g

\* An entry above the last level leads to the table of its block and grants all
\* rights, or is a large page.
EntryInv(L) ==
    \A f \in Frame, x \in Index :
        /\ L[f].lv = 1 /\ mem[f][x].on => ~ mem[f][x].ps
        /\ L[f].lv >= 2 /\ mem[f][x].on /\ mem[f][x].ps => L[f].lv = 2 /\ LARGE_PAGES
        /\ L[f].lv >= 2 /\ mem[f][x].on /\ ~ mem[f][x].ps =>
             /\ mem[f][x].to \in Frame
             /\ L[mem[f][x].to] = Kid(L[f], x)
             /\ mem[f][x].fl = {"W", "U"}

\* Every table hangs on an entry of a table one level up.
ParentInv(L) ==
    \A g \in Frame : L[g].lv > 0 /\ L[g].lv < Levels =>
        \E h \in Frame, x \in Index :
            L[h].lv = L[g].lv + 1 /\ mem[h][x].on /\ ~ mem[h][x].ps /\ mem[h][x].to = g

\* The upper half is common to all trees.
SharedInv == \A f, g \in pagemaps, x \in Index : High(x) => mem[f][x] = mem[g][x]

\* The tables in use and the free pages are the pages there were at the start.
WholeInv(L) ==
    ~ LARGE_PAGES => \E k \in 0 .. NFrames : {f \in Frame : L[f].lv > 0} \cup avail = 1 .. k

\* What an entry that ends the walk for v in pm says.
Tells(e, l, pm, v) ==
    /\ ~ e.on => flat[pm][v] = NoPage
    /\ e.on /\ l = 1 => flat[pm][v] = [on |-> TRUE, to |-> e.to, fl |-> e.fl]
    /\ e.on /\ l = 2 /\ e.ps => flat[pm][v] = [on |-> TRUE, to |-> e.to + (v % Fan), fl |-> e.fl]

\* The entry that ends a walk, wherever it does, is what the calls asked for.
MeansInv(L) ==
    \A pm \in pagemaps, v \in Addr, l \in 1 .. Levels, f \in Frame :
        L[f] = Lab(pm, v, l) => Tells(mem[f][page_index(v, l)], l, pm, v)

Tree(L) ==
    /\ TreeInv(L) /\ Distinct(L) /\ EntryInv(L) /\ ParentInv(L) /\ SharedInv /\ WholeInv(L)
    /\ MeansInv(L)

\* Address v of tree pm does not lie in a large page.
Small(L, pm, v) ==
    \A f \in Frame : L[f] = Lab(pm, v, 2) =>
        ~ (mem[f][page_index(v, 2)].on /\ mem[f][page_index(v, 2)].ps)

\* The arguments of a call.
CallInv ==
    pc \in {"walk", "unwalk", "invlpg"} =>
        /\ call.op \in {"vmap", "vmap_large", "vunmap"}
        /\ call.pm \in pagemaps /\ call.v \in Addr /\ call.p \in Nat /\ call.fl \in SUBSET Flag
        /\ pc = "walk" => call.op # "vunmap"
        /\ pc = "unwalk" => call.op = "vunmap"
        /\ call.op = "vmap_large" =>
             /\ LARGE_PAGES /\ range <= Len(Boot)
             /\ call.v % Fan = 0 /\ call.v + Fan - 1 \in Addr

\* How far the walk of a call has come: the tables above are linked, and no large
\* page is in the way.
WalkInv(L) ==
    pc \in {"walk", "unwalk"} =>
        /\ level \in Leaf .. Levels /\ table \in Frame
        /\ L[table] = Lab(call.pm, call.v, level)
        /\ \A qm \in pagemaps, l \in level + 1 .. Levels, f \in Frame :
             (qm = call.pm \/ Upper(call.v)) /\ L[f] = Lab(qm, call.v, l) =>
                 mem[f][page_index(call.v, l)].on /\ ~ mem[f][page_index(call.v, l)].ps
        /\ call.op # "vmap_large" => Small(L, call.pm, call.v)
        /\ pc = "walk" /\ Upper(call.v) /\ level = Levels =>
             pagemaps = {kernel_pagemap} \/ mem[kernel_pagemap][page_index(call.v, Levels)].on

\* paging_init.
InitInv ==
    /\ LARGE_PAGES \in Builds
    /\ pc = "reset" => /\ pagemaps = {} /\ cr3 = NULL /\ tlb = NULL /\ range = 1 /\ offset = 0
                       /\ \E k \in 0 .. NFrames : avail = 1 .. k
    /\ pc \notin {"reset", "panic"} => kernel_pagemap \in pagemaps
    /\ pc = "init" => pagemaps = {kernel_pagemap}
    /\ pc = "idle" => range > Len(Boot)
    /\ pc \in {"walk", "unwalk", "invlpg"} /\ range <= Len(Boot) =>
         /\ pagemaps = {kernel_pagemap} /\ call.op # "vunmap"
         /\ offset < Boot[range].n
         /\ call.v = Boot[range].v + offset
         /\ call.op = "vmap_large" => LargeFits(range, offset)

\* The large pages lie in what paging_init has already mapped of the memory map.
Done == offset + (IF pc = "invlpg" /\ call.op = "vmap_large" THEN Fan ELSE 0)

Mapped(b) ==
    \E r \in 1 .. range :
        /\ Boot[r].memmap
        /\ Boot[r].v <= Sub(b, 0)
        /\ Sub(b, 0) + Fan <= Boot[r].v + (IF r < range THEN Boot[r].n ELSE Done)

LargeInv(L) ==
    range <= Len(Boot) => \A f \in Frame, x \in Index :
        L[f].lv = 2 /\ mem[f][x].on /\ mem[f][x].ps => Mapped(Sub(L[f].bs, x))

\* What the MMU has cached agrees with the map, except between a change and invlpg.
TlbInv ==
    tlb # NULL =>
        /\ cr3 \in pagemaps /\ tlb.v \in Addr
        /\ (pc = "invlpg" => tlb.v \notin Covered) => tlb.m = flat[cr3][tlb.v]

IInv ==
    /\ TypeOK /\ CallInv /\ InitInv /\ TlbInv
    /\ \E L : Tree(L) /\ WalkInv(L) /\ LargeInv(L)

----------------------------------------------------------------------------
(***************************************************************************)
(* What the walks find                                                     *)
(***************************************************************************)
\* The facts about trees that the proofs use most.
LEMMA TreeFacts ==
    ASSUME TypeOK, NEW L, Tree(L)
    PROVE  /\ L \in [Frame -> Label] /\ pagemaps \subseteq Frame
           /\ \A f \in Frame : L[f].lv \in 0 .. Levels /\ L[f].lv \in Int
           /\ \A f \in pagemaps : L[f] = Root(f) /\ \A v \in Addr : L[f] = Lab(f, v, Levels)
           /\ \A f \in Frame : L[f].lv = Levels <=> f \in pagemaps
           /\ \A f \in Frame, x \in Index :
                /\ mem[f][x] \in [on : BOOLEAN, to : Nat, fl : SUBSET Flag, ps : BOOLEAN]
                /\ mem[f][x].on \in BOOLEAN /\ mem[f][x].ps \in BOOLEAN
                /\ mem[f][x].to \in Nat /\ mem[f][x].fl \in SUBSET Flag
<1>1. /\ L \in [Frame -> Label] /\ pagemaps \subseteq Frame
      /\ \A f \in pagemaps : L[f] = Root(f)
      /\ \A f \in Frame : L[f].lv = Levels <=> f \in pagemaps
  BY DEF Tree, TreeInv, TypeOK
<1>2. \A f \in Frame : L[f].lv \in 0 .. Levels /\ L[f].lv \in Int
  BY <1>1, FanFacts DEF Label
<1>3. \A f \in pagemaps : \A v \in Addr : L[f] = Lab(f, v, Levels)
  BY <1>1, LabFacts
<1>4. \A f \in Frame, x \in Index :
        mem[f][x] \in [on : BOOLEAN, to : Nat, fl : SUBSET Flag, ps : BOOLEAN]
  BY DEF TypeOK
<1> QED
  BY <1>1, <1>2, <1>3, <1>4

\* The only entry that leads to the table of level l for v: the entry for v of
\* the table of level l + 1, or the same one of another tree's root.
LEMMA ParentOf ==
    ASSUME TypeOK, NEW L, Tree(L), NEW pm \in pagemaps, NEW v \in Addr, NEW l \in 2 .. Levels,
           NEW f \in Frame, L[f] = Lab(pm, v, l - 1)
    PROVE  \E h \in Frame : /\ L[h] = Lab(pm, v, l)
                            /\ mem[h][page_index(v, l)].on /\ ~ mem[h][page_index(v, l)].ps
                            /\ mem[h][page_index(v, l)].to = f
<1>0. /\ Levels \in Nat /\ Levels >= 2 /\ l - 1 \in 1 .. Levels /\ l - 1 < Levels /\ l \in 1 .. Levels
      /\ pm \in Frame /\ L \in [Frame -> Label]
  BY FanFacts, TreeFacts
<1> DEFINE x == page_index(v, l)
           a == Lab(pm, v, l)
<1>1. /\ a \in Label /\ a.lv = l /\ x \in Index /\ Kid(a, x) = L[f] /\ L[f].lv = l - 1
  BY <1>0, LabFacts
<1>2. PICK h \in Frame, y \in Index :
        L[h].lv = L[f].lv + 1 /\ mem[h][y].on /\ ~ mem[h][y].ps /\ mem[h][y].to = f
  BY <1>0, <1>1 DEF Tree, ParentInv
<1>3. L[h] \in Label /\ L[h].lv = l /\ l >= 2
  BY <1>0, <1>1, <1>2
<1>4. L[f] = Kid(L[h], y)
  BY <1>2, <1>3 DEF Tree, EntryInv
<1> HIDE DEF x, a
<1>5. x = y /\ (L[h] = a \/ (a.lv = Levels /\ L[h].lv = Levels /\ High(x)))
  BY <1>1, <1>3, <1>4, KidFacts
<1>6. CASE L[h] = a
  BY <1>2, <1>5, <1>6 DEF a, x
<1>7. CASE a.lv = Levels /\ L[h].lv = Levels /\ High(x)
  <2>1. h \in pagemaps /\ l = Levels
    BY <1>1, <1>7, TreeFacts
  <2>2. mem[pm][x] = mem[h][x]
    BY <2>1, <1>1, <1>7 DEF Tree, SharedInv
  <2>3. L[pm] = Lab(pm, v, l)
    BY <2>1, TreeFacts
  <2> QED
    BY <1>0, <1>2, <1>5, <2>2, <2>3 DEF x
<1> QED
  BY <1>5, <1>6, <1>7

\* One step down from the table of level l.
LEMMA StepDown ==
    ASSUME TypeOK, NEW L, Tree(L), NEW pm \in pagemaps, NEW v \in Addr, NEW l \in 2 .. Levels,
           NEW f \in Frame, L[f] = Lab(pm, v, l)
    PROVE  LET e == mem[f][page_index(v, l)] IN
           /\ e.on /\ e.ps => l = 2 /\ LARGE_PAGES
           /\ e.on /\ ~ e.ps => e.to \in Frame /\ L[e.to] = Lab(pm, v, l - 1) /\ e.fl = {"W", "U"}
           /\ ~ e.on => flat[pm][v] = NoPage
           /\ e.on /\ e.ps => flat[pm][v] = [on |-> TRUE, to |-> e.to + (v % Fan), fl |-> e.fl]
<1>0. /\ Levels \in Nat /\ Levels >= 2 /\ l \in 1 .. Levels /\ l >= 2
      /\ pm \in Frame
  BY FanFacts, TreeFacts
<1> DEFINE x == page_index(v, l)
           e == mem[f][x]
<1>1. x \in Index /\ L[f].lv = l /\ Kid(L[f], x) = Lab(pm, v, l - 1)
  BY <1>0, LabFacts
<1>2. Tells(e, l, pm, v)
  BY <1>0 DEF Tree, MeansInv
<1> HIDE DEF x
<1>3. /\ e.on /\ e.ps => l = 2 /\ LARGE_PAGES
      /\ e.on /\ ~ e.ps => e.to \in Frame /\ L[e.to] = Kid(L[f], x) /\ e.fl = {"W", "U"}
  BY <1>0, <1>1 DEF Tree, EntryInv
<1> HIDE DEF e
<1>4. /\ ~ e.on => flat[pm][v] = NoPage
      /\ e.on /\ e.ps => flat[pm][v] = [on |-> TRUE, to |-> e.to + (v % Fan), fl |-> e.fl]
  BY <1>2, <1>3 DEF Tells
<1>5. /\ e.on /\ e.ps => l = 2 /\ LARGE_PAGES
      /\ e.on /\ ~ e.ps => e.to \in Frame /\ L[e.to] = Lab(pm, v, l - 1) /\ e.fl = {"W", "U"}
  BY <1>1, <1>3
<1> QED
  BY <1>4, <1>5 DEF e, x

LEMMA StepOn ==
    ASSUME TypeOK, NEW L, Tree(L), NEW pm \in pagemaps, NEW v \in Addr, NEW l \in 2 .. Levels,
           NEW f \in Frame, L[f] = Lab(pm, v, l), NEW e, e = mem[f][page_index(v, l)], e.on
    PROVE  /\ e.ps => l = 2 /\ LARGE_PAGES
           /\ ~ e.ps => e.to \in Frame /\ L[e.to] = Lab(pm, v, l - 1) /\ e.fl = {"W", "U"}
<1> DEFINE d == mem[f][page_index(v, l)]
<1>1. /\ d.on /\ d.ps => l = 2 /\ LARGE_PAGES
      /\ d.on /\ ~ d.ps => d.to \in Frame /\ L[d.to] = Lab(pm, v, l - 1) /\ d.fl = {"W", "U"}
      /\ ~ d.on => flat[pm][v] = NoPage
      /\ d.on /\ d.ps => flat[pm][v] = [on |-> TRUE, to |-> d.to + (v % Fan), fl |-> d.fl]
  BY StepDown, Zenon
<1>2. e = d
  OBVIOUS
<1> HIDE DEF d
<1> QED
  BY <1>1, <1>2

LEMMA CombineFacts ==
    /\ \A fl, gl \in SUBSET Flag : Combine(fl, gl) \in SUBSET Flag
    /\ \A fl \in SUBSET Flag : Combine({"W", "U"}, fl) = fl
BY DEF Combine, Flag

\* The MMU finds what the map says.
LEMMA MmuRight ==
    ASSUME TypeOK, NEW L, Tree(L), NEW pm \in pagemaps, NEW v \in Addr
    PROVE  Mmu(pm, v) = flat[pm][v]
<1> DEFINE V == [on : BOOLEAN, to : Nat, fl : SUBSET Flag, end : BOOLEAN]
           St(k, s) == MmuStep(s, v, Levels + 1 - k)
           a == [on |-> TRUE, to |-> pm, fl |-> {"W", "U"}, end |-> FALSE]
           g == [k \in 1 .. Levels |-> [s \in V |-> IF s.to \in Frame THEN St(k, s) ELSE s]]
<1>0. /\ Levels \in Nat /\ Levels >= 2 /\ Fan \in Nat /\ Fan >= 2 /\ NFrames \in Nat
      /\ pm \in Frame /\ v \in Nat /\ v % Fan \in Nat
  <2>1. Fan \in Nat /\ Fan >= 2 /\ v \in Nat
    BY FanFacts, BlockFacts
  <2>2. v % Fan \in Nat
    BY <2>1
  <2> QED
    BY <2>1, <2>2, FanFacts, TreeFacts
<1>1. ASSUME NEW k \in 1 .. Levels, NEW s \in V, s.to \in Frame
      PROVE  St(k, s) \in V
  <2>1. Levels + 1 - k \in 1 .. Levels
    BY <1>0
  <2> DEFINE e == mem[s.to][page_index(v, Levels + 1 - k)]
  <2>2. e.on \in BOOLEAN /\ e.ps \in BOOLEAN /\ e.to \in Nat /\ e.fl \in SUBSET Flag
    <3>1. page_index(v, Levels + 1 - k) \in Index
      BY <1>0, <2>1, LabFacts
    <3> QED
      BY <1>1, <3>1, TreeFacts
  <2>3. St(k, s) = IF ~ s.on \/ s.end THEN s
                   ELSE IF ~ e.on THEN [on |-> FALSE, to |-> 0, fl |-> {}, end |-> FALSE]
                   ELSE [on |-> TRUE, to |-> IF e.ps THEN e.to + (v % Fan) ELSE e.to,
                         fl |-> Combine(s.fl, e.fl), end |-> e.ps]
    BY DEF MmuStep
  <2> HIDE DEF e, St
  <2>4. Combine(s.fl, e.fl) \in SUBSET Flag /\ e.to + (v % Fan) \in Nat
    BY <1>0, <2>2, CombineFacts
  <2>5. [on |-> TRUE, to |-> IF e.ps THEN e.to + (v % Fan) ELSE e.to,
         fl |-> Combine(s.fl, e.fl), end |-> e.ps] \in V
    BY <2>2, <2>4
  <2>6. [on |-> FALSE, to |-> 0, fl |-> {}, end |-> FALSE] \in V
    OBVIOUS
  <2> QED
    BY <2>3, <2>5, <2>6
<1>2. g \in Steps(Levels, V) /\ a \in V
  <2>1. a \in V
    BY <1>0 DEF Frame, Flag
  <2> HIDE DEF V, St
  <2>2. g \in Steps(Levels, V)
    BY <1>1 DEF Steps
  <2> QED
    BY <2>1, <2>2
<1>3. PICK f : IsRec(f, Levels, V, a, g)
  <2> HIDE DEF V, g, a
  <2> QED
    BY <1>0, <1>2, Recursion
<1>4. /\ f \in [0 .. Levels -> V] /\ f[0] = a
      /\ \A k \in 1 .. Levels : f[k] = g[k][f[k - 1]]
  <2> HIDE DEF V, g, a
  <2> QED
    BY <1>3 DEF IsRec
\* Where the walk is after k levels.
<1> DEFINE On(k) == /\ k < Levels /\ f[k].on /\ ~ f[k].end /\ f[k].fl = {"W", "U"}
                    /\ f[k].to \in Frame /\ L[f[k].to] = Lab(pm, v, Levels - k)
           End(k) == /\ f[k].on /\ (f[k].end \/ k = Levels)
                     /\ flat[pm][v] = [on |-> TRUE, to |-> f[k].to, fl |-> f[k].fl]
           Off(k) == /\ ~ f[k].on /\ f[k].to = 0 /\ f[k].fl = {}
                     /\ flat[pm][v] = NoPage
           S == {k \in 0 .. Levels : (On(k) \/ End(k) \/ Off(k)) /\ (k > 0 => f[k] = St(k, f[k - 1]))}
<1>5. 0 \in S
  <2>1. L[pm] = Lab(pm, v, Levels - 0)
    BY <1>0, TreeFacts
  <2>2. f[0].on /\ ~ f[0].end /\ f[0].fl = {"W", "U"} /\ f[0].to = pm /\ 0 < Levels
    <3> HIDE DEF V, g, a
    <3>1. f[0] = a /\ 0 < Levels
      BY <1>0, <1>4
    <3> QED
      BY <3>1 DEF a
  <2>3. On(0)
    BY <1>0, <2>1, <2>2
  <2> HIDE DEF On, End, Off
  <2> QED
    BY <1>0, <2>3
<1>6. ASSUME NEW k \in 0 .. Levels - 1, k \in S
      PROVE  k + 1 \in S
  <2>0. /\ k + 1 \in 1 .. Levels /\ (k + 1) - 1 = k /\ f[k] \in V /\ k \in 0 .. Levels
        /\ Levels + 1 - (k + 1) = Levels - k /\ Levels - k \in 1 .. Levels
        /\ Levels - (k + 1) = (Levels - k) - 1 /\ k # Levels
    <3>1. /\ k + 1 \in 1 .. Levels /\ (k + 1) - 1 = k /\ k \in 0 .. Levels
          /\ Levels + 1 - (k + 1) = Levels - k /\ Levels - k \in 1 .. Levels
          /\ Levels - (k + 1) = (Levels - k) - 1 /\ k # Levels
      BY <1>0
    <3>2. f[k] \in V
      <4> HIDE DEF V
      <4> QED
        BY <1>4, <3>1
    <3> QED
      BY <3>1, <3>2
  <2>1. f[k + 1] = IF f[k].to \in Frame THEN St(k + 1, f[k]) ELSE f[k]
    <3>1. g[k + 1] = [s \in V |-> IF s.to \in Frame THEN St(k + 1, s) ELSE s]
      <4> HIDE DEF St, V
      <4> QED
        BY <2>0
    <3>2. f[k + 1] = g[k + 1][f[k]]
      <4> HIDE DEF g, V
      <4> QED
        BY <1>4, <2>0
    <3> HIDE DEF St, V, g
    <3> QED
      BY <2>0, <3>1, <3>2
  <2> DEFINE l == Levels - k
             e == mem[f[k].to][page_index(v, l)]
  <2>2. St(k + 1, f[k]) =
          IF ~ f[k].on \/ f[k].end THEN f[k]
          ELSE IF ~ e.on THEN [on |-> FALSE, to |-> 0, fl |-> {}, end |-> FALSE]
          ELSE [on |-> TRUE, to |-> IF e.ps THEN e.to + (v % Fan) ELSE e.to,
                fl |-> Combine(f[k].fl, e.fl), end |-> e.ps]
    BY <2>0 DEF MmuStep
  <2>3. On(k) \/ End(k) \/ Off(k)
    BY <1>6
  <2>4. CASE ~ On(k)
    <3>1. ~ f[k].on \/ f[k].end
      BY <2>0, <2>3, <2>4
    <3>2. f[k + 1] = f[k] /\ f[k + 1] = St(k + 1, f[k])
      <4> HIDE DEF St, e
      <4> QED
        BY <2>1, <2>2, <3>1
    <3>3. End(k + 1) \/ Off(k + 1)
      <4> HIDE DEF St
      <4> QED
        BY <2>0, <2>3, <2>4, <3>1, <3>2
    <3> HIDE DEF St, On, Off, End
    <3> QED
      BY <2>0, <3>2, <3>3
  <2>5. CASE On(k)
    <3>0. f[k].on /\ ~ f[k].end /\ f[k].fl = {"W", "U"} /\ f[k].to \in Frame /\ L[f[k].to] = Lab(pm, v, l)
      BY <2>5
    <3> HIDE DEF On
    <3>1. /\ e.on \in BOOLEAN /\ e.ps \in BOOLEAN /\ e.to \in Nat /\ e.fl \in SUBSET Flag
          /\ page_index(v, l) \in Index
      <4>1. page_index(v, l) \in Index
        BY <1>0, <2>0, LabFacts
      <4> QED
        BY <3>0, <4>1, TreeFacts
    <3>2. f[k + 1] = St(k + 1, f[k])
      <4> HIDE DEF St
      <4> QED
        BY <2>1, <3>0
    <3>3. f[k + 1] = IF ~ e.on THEN [on |-> FALSE, to |-> 0, fl |-> {}, end |-> FALSE]
                     ELSE [on |-> TRUE, to |-> IF e.ps THEN e.to + (v % Fan) ELSE e.to,
                           fl |-> e.fl, end |-> e.ps]
      <4>1. Combine(f[k].fl, e.fl) = e.fl
        BY <3>0, <3>1, CombineFacts
      <4> HIDE DEF St, e
      <4> QED
        BY <2>2, <3>0, <3>2, <4>1
    <3>4. CASE k + 1 = Levels
      <4>1. l = 1
        BY <1>0, <2>0, <3>4
      <4>2. Tells(e, 1, pm, v)
        BY <2>0, <3>0, <4>1 DEF Tree, MeansInv
      <4>3. e.on => ~ e.ps
        <5>1. L[f[k].to].lv = 1
          <6>1. Lab(pm, v, l).lv = l
            BY <1>0, <2>0, LabFacts
          <6> QED
            BY <3>0, <4>1, <6>1
        <5> QED
          BY <3>0, <3>1, <5>1 DEF Tree, EntryInv
      <4> HIDE DEF e
      <4>4. ~ e.on => flat[pm][v] = NoPage
        BY <4>2 DEF Tells
      <4>5. e.on => flat[pm][v] = [on |-> TRUE, to |-> e.to, fl |-> e.fl]
        BY <4>2 DEF Tells
      <4>a. ASSUME ~ e.on
            PROVE  Off(k + 1)
        BY <3>3, <4>4, <4>a
      <4>b. ASSUME e.on
            PROVE  End(k + 1)
        <5>1. f[k + 1] = [on |-> TRUE, to |-> e.to, fl |-> e.fl, end |-> e.ps]
          BY <3>3, <4>3, <4>b
        <5> QED
          BY <3>4, <4>5, <4>b, <5>1
      <4>6. End(k + 1) \/ Off(k + 1)
        BY <4>a, <4>b
      <4> HIDE DEF St, On, Off, End
      <4> QED
        BY <2>0, <3>2, <4>6
    <3>5. CASE k + 1 # Levels
      <4>1. l \in 2 .. Levels /\ k + 1 < Levels /\ l - 1 = Levels - (k + 1)
        BY <1>0, <2>0, <3>5
      <4>2. /\ e.on /\ ~ e.ps => e.to \in Frame /\ L[e.to] = Lab(pm, v, l - 1) /\ e.fl = {"W", "U"}
            /\ ~ e.on => flat[pm][v] = NoPage
            /\ e.on /\ e.ps => flat[pm][v] = [on |-> TRUE, to |-> e.to + (v % Fan), fl |-> e.fl]
        <5> HIDE DEF l
        <5> QED
          BY <3>0, <4>1, StepDown
      <4> HIDE DEF e
      <4>3. CASE ~ e.on
        <5>1. Off(k + 1)
          BY <3>3, <4>2, <4>3
        <5> HIDE DEF St, On, Off, End
        <5> QED
          BY <2>0, <3>2, <5>1
      <4>4. CASE e.on /\ e.ps
        <5>1. End(k + 1)
          BY <3>3, <4>2, <4>4
        <5> HIDE DEF St, On, Off, End
        <5> QED
          BY <2>0, <3>2, <5>1
      <4>5. CASE e.on /\ ~ e.ps
        <5>1. f[k + 1] = [on |-> TRUE, to |-> e.to, fl |-> e.fl, end |-> FALSE]
          BY <3>1, <3>3, <4>5 DEF e
        <5>2. On(k + 1)
          BY <4>1, <4>2, <4>5, <5>1 DEF On
        <5> HIDE DEF St, On, Off, End
        <5> QED
          BY <2>0, <3>2, <5>2
      <4> QED
        BY <3>1, <4>3, <4>4, <4>5 DEF e
    <3> QED
      BY <3>4, <3>5
  <2> QED
    BY <2>4, <2>5
<1>7. \A k \in 0 .. Levels : k \in S
  <2> HIDE DEF S
  <2> QED
    BY <1>0, <1>5, <1>6, UpTo
<1>8. \A k \in 1 .. Levels : f[k] = St(k, f[k - 1])
  <2> HIDE DEF St, On, Off, End
  <2> QED
    BY <1>0, <1>7
<1> HIDE DEF V, g, S
<1> DEFINE Eq(W) == W = [k \in 0 .. Levels |-> IF k = 0 THEN a ELSE St(k, W[k - 1])]
           W0 == CHOOSE W : Eq(W)
<1>9. Eq(f)
  <2> HIDE DEF St, a
  <2> QED
    BY <1>0, <1>4, <1>8
<1>10. Eq(W0)
  <2> HIDE DEF Eq
  <2> QED
    BY <1>9
<1>11. W0[Levels] = f[Levels]
  <2> DEFINE U == {k \in 0 .. Levels : W0[k] = f[k]}
  <2> HIDE DEF W0, St, a
  <2>1. W0[0] = a /\ \A k \in 1 .. Levels : W0[k] = St(k, W0[k - 1])
    <3>1. 0 \in 0 .. Levels /\ \A k \in 1 .. Levels : k \in 0 .. Levels /\ k # 0
      BY <1>0
    <3> QED
      BY <1>10, <3>1, Zenon
  <2>2. 0 \in U
    BY <1>0, <1>4, <2>1
  <2>3. ASSUME NEW k \in 0 .. Levels - 1, k \in U
        PROVE  k + 1 \in U
    <3>1. k + 1 \in 1 .. Levels /\ k + 1 \in 0 .. Levels /\ (k + 1) - 1 = k
      BY <1>0
    <3>2. W0[k + 1] = St(k + 1, W0[k]) /\ f[k + 1] = St(k + 1, f[k])
      BY <1>8, <2>1, <3>1
    <3> QED
      BY <2>3, <3>1, <3>2
  <2>4. \A k \in 0 .. Levels : k \in U
    <3> HIDE DEF U
    <3> QED
      BY <1>0, <2>2, <2>3, UpTo
  <2> QED
    BY <1>0, <2>4
<1>12. Mmu(pm, v) = [on |-> W0[Levels].on, to |-> W0[Levels].to, fl |-> W0[Levels].fl]
  BY DEF Mmu
<1>13. [on |-> f[Levels].on, to |-> f[Levels].to, fl |-> f[Levels].fl] = flat[pm][v]
  <2>1. Levels \in S /\ f[Levels] \in V
    BY <1>0, <1>4, <1>7
  <2>2. On(Levels) \/ End(Levels) \/ Off(Levels)
    BY <2>1 DEF S
  <2>3. ~ On(Levels)
    BY <1>0
  <2>4. f[Levels].on \in BOOLEAN
    BY <2>1 DEF V
  <2> QED
    BY <2>2, <2>3, <2>4 DEF NoPage
<1> HIDE DEF W0
<1> QED
  BY <1>11, <1>12, <1>13

\* The table the kernel finds is the one labelled so, if there is one.
LEMMA TableRight ==
    ASSUME TypeOK, NEW L, Tree(L), NEW pm \in pagemaps, NEW v \in Addr, NEW m \in 1 .. Levels,
           m = 1 => Small(L, pm, v)
    PROVE  \/ TableOf(pm, v, m) \in Frame /\ L[TableOf(pm, v, m)] = Lab(pm, v, m)
           \/ /\ TableOf(pm, v, m) = NULL /\ flat[pm][v] = NoPage
              /\ \A f \in Frame : L[f] # Lab(pm, v, m)
<1>s. ASSUME NEW l \in 2 .. Levels, NEW t \in Frame, NEW e, L[t] = Lab(pm, v, l), e = mem[t][page_index(v, l)]
      PROVE  /\ e.on /\ e.ps => l = 2
             /\ e.on /\ ~ e.ps => e.to \in Frame /\ L[e.to] = Lab(pm, v, l - 1)
             /\ ~ e.on => flat[pm][v] = NoPage
  <2> DEFINE d == mem[t][page_index(v, l)]
  <2>1. /\ d.on /\ d.ps => l = 2 /\ LARGE_PAGES
        /\ d.on /\ ~ d.ps => d.to \in Frame /\ L[d.to] = Lab(pm, v, l - 1) /\ d.fl = {"W", "U"}
        /\ ~ d.on => flat[pm][v] = NoPage
        /\ d.on /\ d.ps => flat[pm][v] = [on |-> TRUE, to |-> d.to + (v % Fan), fl |-> d.fl]
    BY <1>s, StepDown, Zenon
  <2> QED
    BY <1>s, <2>1
<1> DEFINE V == Nat \cup {NULL}
           St(k, t) == get_table(t, page_index(v, Levels + 1 - k))
           g == [k \in 1 .. Levels - 1 |-> [t \in V |-> IF t \in Frame \cup {NULL} THEN St(k, t) ELSE t]]
<1>0. /\ Levels \in Nat /\ Levels >= 2 /\ NFrames \in Nat /\ pm \in Frame /\ Levels - 1 \in Nat
      /\ NULL \notin Nat /\ NULL \notin Frame /\ m \in Int
  BY FanFacts, TreeFacts, PagingAssumption DEF Frame
<1>1. ASSUME NEW k \in 1 .. Levels - 1, NEW t \in Frame \cup {NULL}
      PROVE  St(k, t) \in V
  <2>1. Levels + 1 - k \in 1 .. Levels
    BY <1>0
  <2>2. page_index(v, Levels + 1 - k) \in Index
    BY <1>0, <2>1, LabFacts
  <2>3. t \in Frame => mem[t][page_index(v, Levels + 1 - k)].to \in Nat
    BY <2>2, TreeFacts
  <2> QED
    BY <2>3 DEF get_table
<1>2. g \in Steps(Levels - 1, V) /\ pm \in V
  <2>1. pm \in V
    BY <1>0 DEF Frame
  <2> HIDE DEF V, St
  <2>2. g \in Steps(Levels - 1, V)
    BY <1>1 DEF Steps
  <2> QED
    BY <2>1, <2>2
<1>3. PICK f : IsRec(f, Levels - 1, V, pm, g)
  <2> HIDE DEF V, g
  <2> QED
    BY <1>0, <1>2, Recursion
<1>4. /\ f \in [0 .. Levels - 1 -> V] /\ f[0] = pm
      /\ \A k \in 1 .. Levels - 1 : f[k] = g[k][f[k - 1]]
  <2> HIDE DEF V, g
  <2> QED
    BY <1>3 DEF IsRec
<1>5. ASSUME NEW k \in 1 .. Levels - 1, f[k - 1] \in Frame \cup {NULL}
      PROVE  f[k] = St(k, f[k - 1])
  <2>1. f[k - 1] \in V /\ f[k] = g[k][f[k - 1]]
    <3>1. k - 1 \in 0 .. Levels - 1
      BY <1>0
    <3> HIDE DEF V, g
    <3> QED
      BY <1>4, <3>1
  <2>2. g[k] = [t \in V |-> IF t \in Frame \cup {NULL} THEN St(k, t) ELSE t]
    <3> HIDE DEF V, St
    <3> QED
      OBVIOUS
  <2> HIDE DEF V, g, St
  <2> QED
    BY <1>5, <2>1, <2>2
\* What the walk has found k levels down.
<1> DEFINE On(k) == f[k] \in Frame /\ L[f[k]] = Lab(pm, v, Levels - k)
           Off(k) == /\ f[k] = NULL /\ flat[pm][v] = NoPage
                     /\ \A h \in Frame : L[h] # Lab(pm, v, Levels - k)
           S == {k \in 0 .. Levels - 1 : (k = Levels - 1 => Small(L, pm, v)) => On(k) \/ Off(k)}
<1>6. 0 \in S
  <2>1. L[pm] = Lab(pm, v, Levels - 0) /\ f[0] = pm
    <3>1. L[pm] = Lab(pm, v, Levels) /\ Levels - 0 = Levels
      BY <1>0, TreeFacts
    <3>2. f[0] = pm
      <4> HIDE DEF V, g
      <4> QED
        BY <1>4
    <3> QED
      BY <3>1, <3>2
  <2>2. On(0)
    BY <1>0, <2>1
  <2> HIDE DEF On, Off
  <2> QED
    BY <1>0, <2>2
<1>7. ASSUME NEW k \in 0 .. (Levels - 1) - 1, k \in S
      PROVE  k + 1 \in S
  <2>a. SUFFICES ASSUME k + 1 = Levels - 1 => Small(L, pm, v)
                 PROVE  On(k + 1) \/ Off(k + 1)
    <3> HIDE DEF On, Off
    <3> QED
      BY <1>0
  <2> DEFINE l == Levels - k
             x == page_index(v, l)
  <2>0. /\ k + 1 \in 1 .. Levels - 1 /\ (k + 1) - 1 = k /\ l \in 2 .. Levels /\ k + 1 \in 0 .. Levels - 1
        /\ Levels + 1 - (k + 1) = l /\ l - 1 = Levels - (k + 1) /\ l \in 1 .. Levels /\ k # Levels - 1
    BY <1>0
  <2>1. x \in Index
    BY <1>0, <2>0, LabFacts
  <2>2. f[k] \in Frame \cup {NULL} /\ (On(k) \/ Off(k))
    BY <1>7, <2>0
  <2>3. f[k + 1] = get_table(f[k], x)
    BY <1>5, <2>0, <2>2
  <2>4. ASSUME NEW h \in Frame, L[h] = Lab(pm, v, Levels - (k + 1))
        PROVE  On(k) /\ mem[f[k]][x].on
    <3> HIDE DEF l, x
    <3>1. L[h] = Lab(pm, v, l - 1)
      BY <2>0, <2>4
    <3>2. PICK p \in Frame : L[p] = Lab(pm, v, l) /\ mem[p][page_index(v, l)].on
      BY <2>0, <3>1, ParentOf
    <3>3. ~ Off(k)
      BY <3>2 DEF l
    <3>4. On(k)
      BY <2>2, <3>3
    <3>5. L[p].lv = l /\ l > 0
      BY <1>0, <2>0, <3>2, LabFacts
    <3>6. f[k] = p
      BY <3>2, <3>4, <3>5 DEF Tree, Distinct, l
    <3> QED
      BY <3>2, <3>4, <3>6 DEF x
  <2>5. CASE Off(k)
    <3>1. f[k + 1] = NULL
      BY <2>3, <2>5 DEF get_table
    <3>2. \A h \in Frame : L[h] # Lab(pm, v, Levels - (k + 1))
      <4>1. ~ On(k)
        BY <1>0, <2>5
      <4> QED
        BY <2>4, <4>1
    <3> QED
      BY <2>0, <2>5, <3>1, <3>2
  <2>6. CASE On(k)
    <3> DEFINE e == mem[f[k]][x]
    <3>0. f[k] \in Frame /\ f[k] # NULL /\ L[f[k]] = Lab(pm, v, l) /\ e.on \in BOOLEAN /\ e.ps \in BOOLEAN
      BY <1>0, <2>1, <2>6, TreeFacts
    <3>1. f[k + 1] = IF e.on THEN e.to ELSE NULL
      BY <2>3, <3>0 DEF get_table
    <3>2. /\ e.on /\ e.ps => l = 2
          /\ e.on /\ ~ e.ps => e.to \in Frame /\ L[e.to] = Lab(pm, v, l - 1)
          /\ ~ e.on => flat[pm][v] = NoPage
      <4> DEFINE t == f[k]
      <4>1. t \in Frame /\ L[t] = Lab(pm, v, l) /\ e = mem[t][page_index(v, l)]
        BY <3>0
      <4>a. l \in 2 .. Levels
        BY <2>0
      <4> HIDE DEF l, e, t, x
      <4> QED
        BY <1>s, <4>a, <4>1
    <3>3. ~ (e.on /\ e.ps)
      <4>1. SUFFICES ASSUME e.on, e.ps PROVE FALSE
        OBVIOUS
      <4>2. l = 2 /\ k + 1 = Levels - 1
        BY <2>0, <3>2, <4>1, <1>0
      <4>3. L[f[k]] = Lab(pm, v, 2) /\ x = page_index(v, 2)
        BY <3>0, <4>2
      <4> QED
        BY <2>a, <3>0, <4>1, <4>2, <4>3 DEF Small
    <3> HIDE DEF e
    <3>4. CASE e.on
      <4>1. f[k + 1] \in Frame /\ L[f[k + 1]] = Lab(pm, v, l - 1)
        BY <3>1, <3>2, <3>3, <3>4
      <4> QED
        BY <2>0, <4>1
    <3>5. CASE ~ e.on
      <4>1. \A h \in Frame : L[h] # Lab(pm, v, Levels - (k + 1))
        BY <2>4, <3>5 DEF e
      <4>2. f[k + 1] = NULL /\ flat[pm][v] = NoPage
        BY <3>1, <3>2, <3>5
      <4> QED
        BY <2>0, <4>1, <4>2
    <3> QED
      BY <3>4, <3>5
  <2> QED
    BY <2>2, <2>5, <2>6
<1>8. \A k \in 0 .. Levels - 1 : k \in S
  <2> HIDE DEF S
  <2> QED
    BY <1>0, <1>6, <1>7, UpTo
<1>9. ASSUME NEW k \in 1 .. Levels - 1
      PROVE  f[k] = St(k, f[k - 1])
  <2>1. k - 1 \in 0 .. Levels - 1 /\ k - 1 # Levels - 1
    BY <1>0
  <2>2. On(k - 1) \/ Off(k - 1)
    <3> HIDE DEF On, Off
    <3> QED
      BY <1>8, <2>1
  <2>3. f[k - 1] \in Frame \cup {NULL}
    BY <2>2
  <2> HIDE DEF St
  <2> QED
    BY <1>5, <2>3
<1> HIDE DEF V, g, S
<1> DEFINE Eq(T) == T = [k \in 0 .. Levels - 1 |-> IF k = 0 THEN pm ELSE St(k, T[k - 1])]
           T0 == CHOOSE T : Eq(T)
<1>10. Eq(f)
  <2> HIDE DEF St
  <2> QED
    BY <1>0, <1>4, <1>9
<1>11. Eq(T0)
  <2> HIDE DEF Eq
  <2> QED
    BY <1>10
<1>12. \A k \in 0 .. Levels - 1 : T0[k] = f[k]
  <2> DEFINE U == {k \in 0 .. Levels - 1 : T0[k] = f[k]}
  <2> HIDE DEF T0, St
  <2>1. T0[0] = pm /\ \A k \in 1 .. Levels - 1 : T0[k] = St(k, T0[k - 1])
    <3>1. 0 \in 0 .. Levels - 1 /\ \A k \in 1 .. Levels - 1 : k \in 0 .. Levels - 1 /\ k # 0
      BY <1>0
    <3> QED
      BY <1>11, <3>1, Zenon
  <2>2. 0 \in U
    BY <1>0, <1>4, <2>1
  <2>3. ASSUME NEW k \in 0 .. (Levels - 1) - 1, k \in U
        PROVE  k + 1 \in U
    <3>1. k + 1 \in 1 .. Levels - 1 /\ k + 1 \in 0 .. Levels - 1 /\ (k + 1) - 1 = k
      BY <1>0
    <3>2. T0[k + 1] = St(k + 1, T0[k]) /\ f[k + 1] = St(k + 1, f[k])
      BY <1>9, <2>1, <3>1
    <3> QED
      BY <2>3, <3>1, <3>2
  <2>4. \A k \in 0 .. Levels - 1 : k \in U
    <3> HIDE DEF U
    <3> QED
      BY <1>0, <2>2, <2>3, UpTo
  <2> QED
    BY <2>4
<1>13. TableOf(pm, v, m) = T0[Levels - m]
  BY DEF TableOf
<1>14. Levels - m \in 0 .. Levels - 1 /\ Levels - (Levels - m) = m /\ (Levels - m = Levels - 1 => m = 1)
  BY <1>0
<1>15. TableOf(pm, v, m) = f[Levels - m]
  <2> HIDE DEF T0
  <2> QED
    BY <1>12, <1>13, <1>14
<1>16. On(Levels - m) \/ Off(Levels - m)
  <2> HIDE DEF On, Off
  <2> QED
    BY <1>8, <1>14 DEF S
<1> QED
  BY <1>14, <1>15, <1>16

\* The trees consist of the labelled tables.
LEMMA TablesRight ==
    ASSUME TypeOK, NEW L, Tree(L), ~ LARGE_PAGES
    PROVE  TablesOf(pagemaps) = {f \in Frame : L[f].lv > 0}
<1> DEFINE St(S) == UNION {Below(t) : t \in S}
           Lv(k) == {f \in Frame : L[f].lv = Levels - k}
<1>0. /\ Levels \in Nat /\ Levels >= 2 /\ Levels - 1 \in Nat /\ L \in [Frame -> Label] /\ pagemaps \subseteq Frame
      /\ \A f \in Frame : L[f].lv \in 0 .. Levels
  BY FanFacts, TreeFacts
<1>1. Lv(0) = pagemaps
  BY <1>0, TreeFacts
<1>2. ASSUME NEW k \in 1 .. Levels - 1
      PROVE  St(Lv(k - 1)) = Lv(k)
  <2>0. Levels - (k - 1) >= 2 /\ Levels - (k - 1) = (Levels - k) + 1 /\ Levels - k > 0 /\ Levels - k < Levels
    BY <1>0
  <2>1. ASSUME NEW t \in Lv(k - 1), NEW x \in Index, mem[t][x].on
        PROVE  mem[t][x].to \in Lv(k)
    <3>1. t \in Frame /\ L[t].lv = Levels - (k - 1) /\ L[t] \in Label /\ L[t].lv >= 2
      BY <1>0, <2>0
    <3>2. mem[t][x].to \in Frame /\ L[mem[t][x].to] = Kid(L[t], x)
      BY <2>1, <3>1 DEF Tree, EntryInv
    <3>3. Kid(L[t], x).lv = L[t].lv - 1
      BY <3>1, KidFacts
    <3> QED
      BY <1>0, <2>0, <3>1, <3>2, <3>3
  <2>2. ASSUME NEW f \in Lv(k)
        PROVE  \E t \in Lv(k - 1), x \in Index : mem[t][x].on /\ mem[t][x].to = f
    <3>1. f \in Frame /\ L[f].lv = Levels - k /\ L[f].lv > 0 /\ L[f].lv < Levels
      BY <2>0
    <3>2. PICK h \in Frame, x \in Index : L[h].lv = L[f].lv + 1 /\ mem[h][x].on /\ mem[h][x].to = f
      BY <3>1 DEF Tree, ParentInv
    <3> QED
      BY <2>0, <3>1, <3>2
  <2> HIDE DEF Lv
  <2> QED
    BY <2>1, <2>2 DEF Below
<1> DEFINE f == [k \in 0 .. Levels - 1 |-> Lv(k)]
           Eq(T) == T = [k \in 0 .. Levels - 1 |-> IF k = 0 THEN pagemaps ELSE St(T[k - 1])]
           T0 == CHOOSE T : Eq(T)
<1>3. Eq(f)
  <2> HIDE DEF St, Lv
  <2>1. f[0] = pagemaps
    BY <1>0, <1>1
  <2>2. \A k \in 1 .. Levels - 1 : f[k] = St(f[k - 1])
    <3>1. \A k \in 1 .. Levels - 1 : f[k] = Lv(k) /\ f[k - 1] = Lv(k - 1)
      BY <1>0
    <3> QED
      BY <1>2, <3>1
  <2>3. \A k \in 0 .. Levels - 1 : Lv(k) = IF k = 0 THEN pagemaps ELSE St(f[k - 1])
    <3>1. \A k \in 0 .. Levels - 1 : f[k] = Lv(k) /\ (k = 0 \/ k \in 1 .. Levels - 1)
      BY <1>0
    <3> HIDE DEF f
    <3> QED
      BY <2>1, <2>2, <3>1
  <2> QED
    BY <2>3, Zenon
<1>4. Eq(T0)
  <2> HIDE DEF Eq
  <2> QED
    BY <1>3
<1>5. \A k \in 0 .. Levels - 1 : T0[k] = Lv(k)
  <2> DEFINE U == {k \in 0 .. Levels - 1 : T0[k] = Lv(k)}
  <2> HIDE DEF T0, St, Lv
  <2>1. T0[0] = pagemaps /\ \A k \in 1 .. Levels - 1 : T0[k] = St(T0[k - 1])
    <3>1. 0 \in 0 .. Levels - 1 /\ \A k \in 1 .. Levels - 1 : k \in 0 .. Levels - 1 /\ k # 0
      BY <1>0
    <3> QED
      BY <1>4, <3>1, Zenon
  <2>2. 0 \in U
    BY <1>0, <1>1, <2>1
  <2>3. ASSUME NEW k \in 0 .. (Levels - 1) - 1, k \in U
        PROVE  k + 1 \in U
    <3>1. k + 1 \in 1 .. Levels - 1 /\ k + 1 \in 0 .. Levels - 1 /\ (k + 1) - 1 = k
      BY <1>0
    <3>2. T0[k + 1] = St(T0[k]) /\ Lv(k + 1) = St(Lv(k))
      BY <1>2, <2>1, <3>1
    <3> QED
      BY <2>3, <3>1, <3>2
  <2>4. \A k \in 0 .. Levels - 1 : k \in U
    <3> HIDE DEF U
    <3> QED
      BY <1>0, <2>2, <2>3, UpTo
  <2> QED
    BY <2>4
<1>6. TablesOf(pagemaps) = UNION {T0[k] : k \in 0 .. Levels - 1}
  BY DEF TablesOf
<1>7. UNION {Lv(k) : k \in 0 .. Levels - 1} = {h \in Frame : L[h].lv > 0}
  <2>1. ASSUME NEW h \in Frame, L[h].lv > 0
        PROVE  \E k \in 0 .. Levels - 1 : h \in Lv(k)
    <3>1. Levels - L[h].lv \in 0 .. Levels - 1 /\ L[h].lv = Levels - (Levels - L[h].lv)
      BY <1>0, <2>1
    <3> QED
      BY <3>1
  <2>2. ASSUME NEW k \in 0 .. Levels - 1, NEW h \in Lv(k)
        PROVE  h \in Frame /\ L[h].lv > 0
    BY <1>0
  <2> HIDE DEF Lv
  <2> QED
    BY <2>1, <2>2
<1> HIDE DEF T0, Lv
<1>8. UNION {T0[k] : k \in 0 .. Levels - 1} = UNION {Lv(k) : k \in 0 .. Levels - 1}
  BY <1>5
<1> QED
  BY <1>6, <1>7, <1>8

----------------------------------------------------------------------------
(***************************************************************************)
(* What the steps have in common                                           *)
(***************************************************************************)
\* The table for v is the same in all trees that share it, and so is its entry for v.
LEMMA SameSlot ==
    ASSUME TypeOK, NEW L, Tree(L), NEW pm \in pagemaps, NEW qm \in pagemaps, NEW v \in Addr,
           NEW l \in 1 .. Levels, NEW f \in Frame, NEW g \in Frame,
           L[f] = Lab(pm, v, l), L[g] = Lab(qm, v, l), qm = pm \/ Upper(v)
    PROVE  /\ mem[f][page_index(v, l)] = mem[g][page_index(v, l)]
           /\ l < Levels \/ qm = pm => f = g
           /\ l = Levels => f = pm /\ g = qm
<1>0. pm \in Frame /\ qm \in Frame /\ Levels \in Nat /\ l \in Int /\ l > 0
  BY TreeFacts, FanFacts
<1>1. L[f].lv = l /\ L[f].lv > 0
  BY <1>0, LabFacts
<1>2. CASE l < Levels \/ qm = pm
  <2>1. Lab(pm, v, l) = Lab(qm, v, l)
    BY <1>2 DEF Lab, Owner
  <2>2. f = g
    BY <1>1, <2>1 DEF Tree, Distinct
  <2>3. l = Levels => f = pm /\ g = qm
    <3>1. SUFFICES ASSUME l = Levels PROVE f = pm /\ qm = pm
      BY <2>2
    <3>2. qm = pm /\ L[pm] = L[f]
      BY <1>0, <1>2, <3>1, TreeFacts
    <3> QED
      BY <1>0, <1>1, <3>2 DEF Tree, Distinct
  <2> QED
    BY <2>2, <2>3
<1>3. CASE ~ (l < Levels \/ qm = pm)
  <2>1. l = Levels /\ Upper(v)
    BY <1>0, <1>3
  <2>2. L[pm] = L[f] /\ L[qm] = L[g] /\ L[g].lv > 0
    BY <1>0, <2>1, TreeFacts, LabFacts
  <2>3. f = pm /\ g = qm
    BY <1>0, <1>1, <2>2 DEF Tree, Distinct
  <2>4. High(page_index(v, l)) /\ page_index(v, l) \in Index
    BY <1>0, <2>1, LabFacts DEF Upper, High
  <2> QED
    BY <1>3, <2>3, <2>4 DEF Tree, SharedInv
<1> QED
  BY <1>2, <1>3

\* Addresses with the same table at one level have the same entry above it.
LEMMA Upward ==
    ASSUME NEW pm \in Frame, NEW qm \in Frame, NEW v \in Addr, NEW w \in Addr, NEW l \in 2 .. Levels,
           Lab(pm, v, l - 1) = Lab(qm, w, l - 1)
    PROVE  /\ page_index(v, l) = page_index(w, l)
           /\ pm = qm \/ (Upper(v) /\ Upper(w))
           /\ l < Levels => Lab(pm, v, l) = Lab(qm, w, l)
<1>0. /\ v \in Nat /\ w \in Nat /\ pm # 0 /\ qm # 0 /\ Levels \in Nat
      /\ l \in 1 .. Levels /\ l \in 0 .. Levels /\ l - 1 < Levels
  BY BlockFacts, FanFacts DEF Frame
<1>1. Block(v, l - 1) = Block(w, l - 1) /\ Owner(pm, v, l - 1) = Owner(qm, w, l - 1)
  BY DEF Lab
<1>2. /\ Block(v, l) \in Nat /\ page_index(v, l) \in Index
      /\ Block(w, l) \in Nat /\ page_index(w, l) \in Index
      /\ Block(v, l - 1) = Sub(Block(v, l), page_index(v, l))
      /\ Block(w, l - 1) = Sub(Block(w, l), page_index(w, l))
  BY <1>0, BlockFacts
<1>3. Block(v, l) = Block(w, l) /\ page_index(v, l) = page_index(w, l)
  BY <1>1, <1>2, SubFacts
<1>4. pm = qm \/ (Upper(v) /\ Upper(w))
  BY <1>0, <1>1 DEF Owner
<1>5. l < Levels => Owner(pm, v, l) = Owner(qm, w, l)
  <2>1. l < Levels => Owner(pm, v, l) = Owner(pm, v, l - 1) /\ Owner(qm, w, l) = Owner(qm, w, l - 1)
    BY <1>0 DEF Owner
  <2> QED
    BY <1>1, <2>1
<1> QED
  BY <1>3, <1>4, <1>5 DEF Lab

LEMMA BootFacts ==
    /\ Len(Boot) \in Nat /\ DOMAIN Boot = 1 .. Len(Boot)
    /\ \A r \in 1 .. Len(Boot) : /\ Boot[r].v \in Addr /\ Boot[r].v \in Nat /\ Boot[r].n \in Nat /\ Boot[r].p \in Nat
                                /\ Boot[r].fl \in SUBSET Flag /\ Boot[r].memmap \in BOOLEAN
                                /\ \A o \in Nat : o < Boot[r].n => Boot[r].v + o \in Addr
<1> DEFINE R == [v : Addr, n : Nat, p : Nat, fl : SUBSET Flag, memmap : BOOLEAN]
<1>1. Boot \in Seq(R) /\ \A r \in DOMAIN Boot : Boot[r].v + Boot[r].n <= Span[Levels]
  BY PagingAssumption
<1>2. Levels \in 0 .. Levels /\ Span[Levels] \in Nat
  BY FanFacts, SpanFacts
<1>3. Len(Boot) \in Nat /\ DOMAIN Boot = 1 .. Len(Boot) /\ \A r \in 1 .. Len(Boot) : Boot[r] \in R
  <2> HIDE DEF R
  <2> QED
    BY <1>1
<1>4. ASSUME NEW r \in 1 .. Len(Boot)
      PROVE  /\ Boot[r].v \in Addr /\ Boot[r].v \in Nat /\ Boot[r].n \in Nat /\ Boot[r].p \in Nat
             /\ Boot[r].fl \in SUBSET Flag /\ Boot[r].memmap \in BOOLEAN
             /\ \A o \in Nat : o < Boot[r].n => Boot[r].v + o \in Addr
  <2>1. /\ Boot[r].v \in Addr /\ Boot[r].n \in Nat /\ Boot[r].p \in Nat
        /\ Boot[r].fl \in SUBSET Flag /\ Boot[r].memmap \in BOOLEAN
    BY <1>3
  <2>2. Boot[r].v \in Nat /\ Boot[r].v + Boot[r].n <= Span[Levels]
    BY <1>1, <1>3, <2>1, BlockFacts
  <2>3. \A o \in Nat : o < Boot[r].n => Boot[r].v + o \in Addr
    BY <1>2, <2>1, <2>2 DEF Addr
  <2> QED
    BY <2>1, <2>2, <2>3
<1> QED
  BY <1>3, <1>4

LEMMA TreeKept ==
    ASSUME TypeOK, NEW L, Tree(L), UNCHANGED <<mem, avail, roots, flat>>
    PROVE  Tree(L)'
<1>1. TreeInv(L)' /\ Distinct(L)'
  BY DEF Tree, TreeInv, Distinct, roots
<1>2. EntryInv(L)'
  BY DEF Tree, EntryInv, roots
<1>3. ParentInv(L)'
  BY DEF Tree, ParentInv, roots
<1>4. SharedInv'
  BY DEF Tree, SharedInv, roots
<1>5. WholeInv(L)'
  BY DEF Tree, WholeInv, roots
<1>6. MeansInv(L)'
  BY DEF Tree, MeansInv, Tells, roots
<1> QED
  BY <1>1, <1>2, <1>3, <1>4, <1>5, <1>6 DEF Tree

\* The part of the memory map that is mapped only grows.
LEMMA MappedGrows ==
    ASSUME TypeOK, range \in 1 .. Len(Boot),
           \/ range' = range /\ Done' \in Int /\ Done <= Done'
           \/ range' = range + 1 /\ Done <= Boot[range].n,
           NEW b \in Nat, Mapped(b)
    PROVE  Mapped(b)'
<1>0. /\ Fan \in Nat /\ Sub(b, 0) \in Nat /\ Done \in Int
      /\ Len(Boot) \in Nat /\ DOMAIN Boot = 1 .. Len(Boot)
      /\ \A r \in 1 .. Len(Boot) : Boot[r].v \in Int /\ Boot[r].n \in Int
  <2>1. Fan \in Nat /\ 0 \in Index
    BY FanFacts DEF Index
  <2>2. Sub(b, 0) \in Nat
    BY <2>1, SubFacts
  <2>3. offset \in Int
    BY PagingAssumption DEF TypeOK
  <2>4. /\ Len(Boot) \in Nat /\ DOMAIN Boot = 1 .. Len(Boot)
        /\ \A r \in 1 .. Len(Boot) : Boot[r].v \in Nat /\ Boot[r].n \in Nat
    BY BootFacts
  <2>5. \A r \in 1 .. Len(Boot) : Boot[r].v \in Int /\ Boot[r].n \in Int
    BY <2>4
  <2> QED
    BY <2>1, <2>2, <2>3, <2>4, <2>5 DEF Done
<1>1. PICK r \in 1 .. range :
        /\ Boot[r].memmap
        /\ Boot[r].v <= Sub(b, 0)
        /\ Sub(b, 0) + Fan <= Boot[r].v + (IF r < range THEN Boot[r].n ELSE Done)
  BY DEF Mapped
<1>2. r \in 1 .. range' /\ r \in 1 .. Len(Boot)
  BY <1>0, <1>1
<1>3. Sub(b, 0) + Fan <= Boot[r].v + (IF r < range' THEN Boot[r].n ELSE Done')
  <2> HIDE DEF Done
  <2> QED
    BY <1>0, <1>1, <1>2
<1> HIDE DEF Done
<1> QED
  BY <1>1, <1>2, <1>3 DEF Mapped

\* paging_init maps no small page inside a large one.
LEMMA InitSmall ==
    ASSUME TypeOK, LARGE_PAGES \in Builds, NEW L, Tree(L), LargeInv(L), range <= Len(Boot), offset < Boot[range].n,
           Done = offset, NEW pm \in pagemaps, NEW v \in Addr, v = Boot[range].v + offset
    PROVE  Small(L, pm, v)
<1>0. /\ Levels \in Nat /\ Levels >= 2 /\ Fan \in Nat /\ Fan >= 2 /\ pm \in Frame
      /\ 1 \in 1 .. Levels /\ 2 \in 1 .. Levels /\ 2 \in 2 .. Levels /\ v \in Nat
  BY FanFacts, TreeFacts, BlockFacts
<1>1. SUFFICES ASSUME NEW f \in Frame, L[f] = Lab(pm, v, 2), mem[f][page_index(v, 2)].on, mem[f][page_index(v, 2)].ps
               PROVE  FALSE
  BY DEF Small
<1>2. L[f].lv = 2 /\ L[f].bs = Block(v, 2) /\ page_index(v, 2) \in Index
  BY <1>0, <1>1, LabFacts
<1>3. TRUE \in Builds
  <2>1. LARGE_PAGES
    BY <1>1, <1>2 DEF Tree, EntryInv
  <2> QED
    BY <2>1 DEF TypeOK
<1>4. Mapped(Block(v, 1))
  <2>1. Mapped(Sub(L[f].bs, page_index(v, 2)))
    BY <1>1, <1>2 DEF LargeInv
  <2>2. Block(v, 2 - 1) = Sub(Block(v, 2), page_index(v, 2))
    BY <1>0, BlockFacts
  <2> QED
    BY <1>2, <2>1, <2>2
<1> DEFINE b == Sub(Block(v, 1), 0)
<1>5. PICK r \in 1 .. range : /\ Boot[r].memmap /\ Boot[r].v <= b
                              /\ b + Fan <= Boot[r].v + (IF r < range THEN Boot[r].n ELSE Done)
  BY <1>4 DEF Mapped
<1>6. b \in Nat /\ b <= v /\ v < b + Fan
  <2>1. Block(v, 1) \in Nat /\ 0 \in Index
    <3>1. 1 \in 0 .. Levels /\ 0 \in Index
      BY <1>0 DEF Index
    <3> QED
      BY <1>0, <3>1, BlockFacts
  <2> QED
    BY <1>0, <2>1, LargeBlock, SubFacts
<1>7. /\ DOMAIN Boot = 1 .. Len(Boot) /\ Len(Boot) \in Nat /\ range \in 1 .. Len(Boot) /\ offset \in Int
  <2>1. DOMAIN Boot = 1 .. Len(Boot) /\ Len(Boot) \in Nat
    BY BootFacts
  <2>2. range \in 1 .. Len(Boot) /\ offset \in Int
    BY <2>1, BootFacts DEF TypeOK
  <2> QED
    BY <2>1, <2>2
<1>8. \A s \in 1 .. Len(Boot) : Boot[s].v \in Nat /\ Boot[s].n \in Nat
  BY BootFacts
<1> HIDE DEF b, Done
<1>9. r < range /\ r \in 1 .. Len(Boot)
  <2>1. r \in 1 .. Len(Boot)
    BY <1>7
  <2>2. r = range => FALSE
    BY <1>0, <1>5, <1>6, <1>7, <1>8
  <2> QED
    BY <1>7, <2>1, <2>2
<1>10. Boot[r].v + Boot[r].n <= Boot[range].v \/ Boot[range].v + Boot[range].n <= Boot[r].v
  BY <1>3, <1>5, <1>7, <1>9, PagingAssumption
<1>11. b + Fan <= Boot[r].v + Boot[r].n
  BY <1>5, <1>9
<1>12. Boot[r].v \in Nat /\ Boot[r].n \in Nat /\ Boot[range].v \in Nat /\ Boot[range].n \in Nat
  BY <1>7, <1>8, <1>9
<1>13. Boot[r].v <= b /\ v = Boot[range].v + offset /\ offset < Boot[range].n /\ 0 <= offset
  BY <1>5, <1>12 DEF TypeOK
<1>14. Boot[r].v + Boot[r].n <= Boot[range].v => FALSE
  BY <1>0, <1>6, <1>7, <1>11, <1>12, <1>13
<1>15. Boot[range].v + Boot[range].n <= Boot[r].v => FALSE
  BY <1>0, <1>6, <1>7, <1>12, <1>13
<1> QED
  BY <1>10, <1>14, <1>15

\* The condition of the callers of vmap and vunmap.
LEMMA NotInLarge ==
    ASSUME TypeOK, NEW L, Tree(L), NEW pm \in pagemaps, NEW v \in Addr, ~ InLarge(pm, v)
    PROVE  Small(L, pm, v)
<1>0. Levels \in Nat /\ Levels >= 2 /\ 2 \in 1 .. Levels /\ pm \in Frame
  BY FanFacts, TreeFacts
<1>1. \/ TableOf(pm, v, 2) \in Frame /\ L[TableOf(pm, v, 2)] = Lab(pm, v, 2)
      \/ \A f \in Frame : L[f] # Lab(pm, v, 2)
  BY <1>0, TableRight
<1>2. SUFFICES ASSUME NEW f \in Frame, L[f] = Lab(pm, v, 2)
               PROVE  ~ (mem[f][page_index(v, 2)].on /\ mem[f][page_index(v, 2)].ps)
  BY DEF Small
<1>3. L[f].lv > 0
  BY <1>0, <1>2, LabFacts
<1>4. f = TableOf(pm, v, 2) /\ f # NULL
  BY <1>1, <1>2, <1>3, PagingAssumption DEF Tree, Distinct, Frame
<1> QED
  BY <1>4 DEF InLarge

\* The beginning of a walk.
LEMMA EnterStep ==
    ASSUME TypeOK, NEW L, Tree(L), NEW op \in {"vmap", "vmap_large", "vunmap"},
           NEW pm \in pagemaps, NEW v \in Addr, NEW p \in Nat, NEW fl \in SUBSET Flag,
           Enter(op, pm, v, p, fl), UNCHANGED <<mem, avail, roots, flat>>,
           op # "vmap_large" => Small(L, pm, v),
           op # "vunmap" /\ Upper(v) => pagemaps = {kernel_pagemap} \/ mem[kernel_pagemap][page_index(v, Levels)].on
    PROVE  /\ WalkInv(L)'
           /\ pc' = (IF op = "vunmap" THEN "unwalk" ELSE "walk") /\ pc' \in {"walk", "unwalk"}
           /\ call'.op = op /\ call'.pm = pm /\ call'.v = v /\ call'.p = p /\ call'.fl = fl
           /\ table' \in Frame /\ level' = Levels
<1>0. Levels \in Nat /\ Levels >= 2 /\ pm \in Frame /\ L[pm] = Lab(pm, v, Levels)
  BY FanFacts, TreeFacts
<1>1. /\ call'.op = op /\ call'.pm = pm /\ call'.v = v /\ call'.p = p /\ call'.fl = fl
      /\ table' = pm /\ level' = Levels /\ pc' = (IF op = "vunmap" THEN "unwalk" ELSE "walk")
  BY DEF Enter
<1>2. level' \in (Leaf') .. Levels /\ ~ (\E l \in level' + 1 .. Levels : TRUE)
  BY <1>0, <1>1 DEF Leaf
<1>3. call'.op # "vmap_large" => Small(L, call.pm, call.v)'
  BY <1>1 DEF Small
<1>4. pc' = "walk" /\ Upper(call'.v) => pagemaps' = {kernel_pagemap'} \/ mem'[kernel_pagemap'][page_index(call'.v, Levels)].on
  BY <1>1 DEF roots
<1>5. WalkInv(L)'
  BY <1>0, <1>1, <1>2, <1>3, <1>4 DEF WalkInv
<1> QED
  BY <1>0, <1>1, <1>5

\* The end of a call, and the second attempt with a small page.
LEMMA ReturnStep ==
    ASSUME IInv, NEW ok \in BOOLEAN, Return(ok), UNCHANGED <<mem, avail, roots, cr3, flat>>, TlbInv',
           \/ pc \in {"unwalk", "invlpg"} /\ ok
           \/ pc = "walk" /\ ~ ok
    PROVE  IInv'
<1>0. PICK L : Tree(L) /\ WalkInv(L) /\ LargeInv(L)
  BY DEF IInv
<1>1. TypeOK /\ CallInv /\ InitInv
  BY DEF IInv
<1>2. Tree(L)'
  BY <1>0, <1>1, TreeKept
<1>3. /\ Levels \in Nat /\ Levels >= 2 /\ Fan \in Nat /\ Fan >= 2 /\ Len(Boot) \in Nat
      /\ range \in 1 .. Len(Boot) + 1 /\ offset \in Nat
  BY <1>1, FanFacts, BootFacts DEF TypeOK
<1>4. /\ call.op \in {"vmap", "vmap_large", "vunmap"}
      /\ call.pm \in pagemaps /\ call.v \in Addr /\ call.p \in Nat /\ call.fl \in SUBSET Flag
  BY <1>1 DEF CallInv
<1>5. CASE range > Len(Boot)
  <2>1. /\ pc' = "idle" /\ table' = NULL /\ level' = 0 /\ UNCHANGED loop
    BY <1>5 DEF Return
  <2>2. TypeOK'
    BY <1>1, <1>3, <2>1 DEF TypeOK, roots, loop
  <2>3. CallInv' /\ WalkInv(L)'
    BY <2>1 DEF CallInv, WalkInv
  <2>4. InitInv'
    BY <1>1, <1>5, <2>1 DEF InitInv, roots, loop
  <2>5. LargeInv(L)'
    BY <1>3, <1>5, <2>1 DEF LargeInv, loop
  <2> QED
    BY <1>2, <2>2, <2>3, <2>4, <2>5 DEF IInv
<1>6. CASE range <= Len(Boot)
  <2>0. ~ (range > Len(Boot)) /\ range \in 1 .. Len(Boot)
    BY <1>3, <1>6
  <2>1. /\ pagemaps = {kernel_pagemap} /\ call.op # "vunmap" /\ pc # "unwalk"
        /\ offset < Boot[range].n /\ call.v = Boot[range].v + offset
        /\ call.op = "vmap_large" => LargeFits(range, offset)
    BY <1>1, <1>6 DEF InitInv, CallInv
  <2>2. Boot[range].n \in Nat /\ Boot[range].v \in Nat
    BY <2>0, BootFacts
  <2>3. Done = offset + (IF pc = "invlpg" /\ call.op = "vmap_large" THEN Fan ELSE 0) /\ Done \in Int
    BY <1>3 DEF Done
  <2>4. ASSUME range' = range, Done' \in Int, Done <= Done'
        PROVE  LargeInv(L)'
    <3>1. \A f \in Frame, x \in Index : L[f].lv = 2 => Sub(L[f].bs, x) \in Nat
      BY <1>0, <1>1, TreeFacts, SubFacts DEF Label
    <3>2. \A b \in Nat : Mapped(b) => Mapped(b)'
      <4> HIDE DEF Done
      <4> QED
        BY <1>1, <2>0, <2>4, MappedGrows
    <3> QED
      BY <1>0, <2>4, <3>1, <3>2, <1>6 DEF LargeInv
  <2>5. CASE call.op = "vmap_large" /\ ~ ok
    <3>1. Enter("vmap", call.pm, call.v, call.p, call.fl) /\ UNCHANGED loop
      BY <2>0, <2>5 DEF Return
    <3>2. pc = "walk" /\ Done = offset
      BY <1>3, <2>3, <2>5
    <3>3. Small(L, call.pm, call.v)
      BY <1>0, <1>1, <1>4, <1>6, <2>1, <3>2, InitSmall DEF InitInv
    <3>4. /\ WalkInv(L)' /\ pc' = "walk" /\ call'.op = "vmap"
          /\ call'.pm = call.pm /\ call'.v = call.v /\ call'.p = call.p /\ call'.fl = call.fl
          /\ table' \in Frame /\ level' = Levels
      <4> DEFINE pm0 == call.pm  v0 == call.v  p0 == call.p  fl0 == call.fl
      <4>1. pm0 \in pagemaps /\ v0 \in Addr /\ p0 \in Nat /\ fl0 \in SUBSET Flag /\ Small(L, pm0, v0)
            /\ Enter("vmap", pm0, v0, p0, fl0)
        BY <1>4, <3>1, <3>3
      <4> HIDE DEF pm0, v0, p0, fl0
      <4>2. /\ WalkInv(L)' /\ pc' = "walk" /\ call'.op = "vmap"
            /\ call'.pm = pm0 /\ call'.v = v0 /\ call'.p = p0 /\ call'.fl = fl0
            /\ table' \in Frame /\ level' = Levels
        BY <1>0, <1>1, <2>1, <4>1, EnterStep
      <4> QED
        BY <4>2 DEF pm0, v0, p0, fl0
    <3>5. TypeOK'
      BY <1>1, <1>3, <3>1, <3>4 DEF TypeOK, roots, loop
    <3>6. CallInv'
      BY <1>4, <3>4 DEF CallInv, roots
    <3>7. InitInv'
      BY <1>1, <2>1, <3>1, <3>4 DEF InitInv, roots, loop
    <3>8. LargeInv(L)'
      <4>1. Done' = offset /\ range' = range
        BY <1>3, <3>1, <3>4 DEF Done, loop
      <4> QED
        BY <1>3, <2>4, <3>2, <4>1
    <3> QED
      BY <1>2, <3>4, <3>5, <3>6, <3>7, <3>8 DEF IInv
  <2>6. CASE ~ (call.op = "vmap_large" /\ ~ ok)
    <3>1. /\ pc' = "init" /\ table' = NULL /\ level' = 0 /\ range' = range
          /\ offset' = offset + (IF call.op = "vmap_large" THEN Fan ELSE 1)
      BY <2>0, <2>6 DEF Return
    <3>2. offset' \in 0 .. Boot[range].n
      BY <1>3, <2>1, <2>2, <3>1 DEF LargeFits
    <3>3. TypeOK'
      <4>1. offset' = 0 \/ (range' <= Len(Boot) /\ offset' \in 0 .. Boot[range'].n)
        BY <1>6, <3>1, <3>2
      <4> QED
        BY <1>1, <1>3, <3>1, <4>1 DEF TypeOK, roots
    <3>4. CallInv' /\ WalkInv(L)'
      BY <3>1 DEF CallInv, WalkInv
    <3>5. InitInv'
      <4>1. pc # "reset" /\ pc # "panic"
        OBVIOUS
      <4> QED
        BY <1>1, <2>1, <3>1, <4>1 DEF InitInv, roots
    <3>6. LargeInv(L)'
      <4>1. Done' = offset' /\ Done' \in Int
        BY <1>3, <3>1 DEF Done
      <4>2. Done <= Done'
        BY <1>3, <2>3, <2>6, <3>1, <4>1
      <4> QED
        BY <2>4, <3>1, <4>1, <4>2
    <3> QED
      BY <1>2, <3>3, <3>4, <3>5, <3>6 DEF IInv
  <2> QED
    BY <2>5, <2>6
<1> QED
  BY <1>3, <1>5, <1>6

----------------------------------------------------------------------------
(***************************************************************************)
(* The steps that leave the tables as they are                             *)
(***************************************************************************)
\* A step that changes neither the tables nor the maps nor the current call.
LEMMA QuietStep ==
    ASSUME IInv, UNCHANGED <<mem, avail, roots, walk, loop, flat>>,
           cr3' \in pagemaps \cup {NULL}, TlbInv',
           \/ pc' = pc /\ pc # "reset"
           \/ pc' = "panic" /\ pc \in {"reset", "idle"}
           \/ pc' = "idle" /\ pc \in {"init", "idle"} /\ range > Len(Boot)
    PROVE  IInv'
<1>0. PICK L : Tree(L) /\ WalkInv(L) /\ LargeInv(L)
  BY DEF IInv
<1>1. TypeOK /\ CallInv /\ InitInv
  BY DEF IInv
<1>2. Tree(L)'
  BY <1>0, <1>1, TreeKept
<1>3. TypeOK'
  BY <1>1 DEF TypeOK, roots, walk, loop
<1>4. CallInv'
  BY <1>1 DEF CallInv, roots, walk, loop
<1>5. InitInv'
  BY <1>1 DEF InitInv, roots, walk, loop
<1>6. WalkInv(L)'
  BY <1>0 DEF WalkInv, Small, Leaf, roots, walk, loop
<1>7. LargeInv(L)'
  <2>1. Done' = Done
    BY DEF Done, walk, loop
  <2> HIDE DEF Done
  <2> QED
    BY <1>0, <2>1 DEF LargeInv, Mapped, walk, loop
<1> QED
  BY <1>2, <1>3, <1>4, <1>5, <1>6, <1>7 DEF IInv

LEMMA PanicStep ==
    ASSUME IInv, PagingInitFails \/ PmnewFails
    PROVE  IInv'
<1>1. /\ pc' = "panic" /\ pc \in {"reset", "idle"} /\ UNCHANGED <<mem, avail, roots, cr3, tlb, walk, loop, flat>>
  BY DEF PagingInitFails, PmnewFails, Panic
<1>2. cr3' \in pagemaps \cup {NULL}
  BY <1>1 DEF IInv, TypeOK
<1>3. TlbInv'
  BY <1>1 DEF IInv, TlbInv, roots
<1> QED
  BY <1>1, <1>2, <1>3, QuietStep

LEMMA PmsetStep ==
    ASSUME IInv, NEW pm \in pagemaps, Pmset(pm)
    PROVE  IInv'
<1>1. /\ pc' = "idle" /\ pc \in {"init", "idle"} /\ UNCHANGED <<mem, avail, roots, walk, loop, flat>>
      /\ cr3' = pm /\ tlb' = NULL
  BY DEF Pmset
<1>2. range > Len(Boot)
  BY DEF Pmset, IInv, InitInv
<1>3. TlbInv'
  BY <1>1 DEF TlbInv
<1> QED
  BY <1>1, <1>2, <1>3, QuietStep

LEMMA TouchStep ==
    ASSUME IInv, NEW v \in Virt, Touch(v)
    PROVE  IInv'
<1>0. PICK L : Tree(L)
  BY DEF IInv
<1>1. /\ pc' = pc /\ pc # "reset" /\ UNCHANGED <<mem, avail, roots, cr3, walk, loop, flat>>
      /\ tlb' = [v |-> v, m |-> Mmu(cr3, v)]
  BY DEF Touch
<1>2. TypeOK /\ cr3 \in pagemaps /\ v \in Addr
  BY PagingAssumption DEF Touch, IInv, TypeOK
<1>3. Mmu(cr3, v) = flat[cr3][v]
  BY <1>0, <1>2, MmuRight
<1>4. TlbInv'
  BY <1>1, <1>2, <1>3 DEF TlbInv, roots
<1> QED
  BY <1>1, <1>2, <1>4, QuietStep

LEMMA InitNextRangeStep ==
    ASSUME IInv, InitNextRange
    PROVE  IInv'
<1>0. PICK L : Tree(L) /\ LargeInv(L)
  BY DEF IInv
<1>1. TypeOK /\ InitInv /\ TlbInv
  BY DEF IInv
<1>2. /\ pc = "init" /\ pc' = "init" /\ range <= Len(Boot) /\ offset >= Boot[range].n
      /\ range' = range + 1 /\ offset' = 0
      /\ UNCHANGED <<mem, avail, roots, cr3, tlb, walk, flat>>
  BY DEF InitNextRange
<1>3. Tree(L)'
  BY <1>0, <1>1, <1>2, TreeKept
<1>4. /\ Fan \in Nat /\ Len(Boot) \in Nat /\ range \in 1 .. Len(Boot) /\ Boot[range].n \in Nat
      /\ offset \in Nat /\ offset <= Boot[range].n
  <2>1. Len(Boot) \in Nat /\ range \in 1 .. Len(Boot)
    BY <1>1, <1>2, BootFacts DEF TypeOK
  <2>2. Boot[range].n \in Nat
    BY <2>1, BootFacts
  <2> QED
    BY <1>1, <2>1, <2>2, FanFacts DEF TypeOK
<1>5. TypeOK'
  BY <1>1, <1>2, <1>4 DEF TypeOK, roots, walk
<1>6. CallInv' /\ WalkInv(L)'
  BY <1>2 DEF CallInv, WalkInv
<1>7. InitInv' /\ TlbInv'
  BY <1>1, <1>2 DEF InitInv, TlbInv, roots
<1>8. LargeInv(L)'
  <2>1. Done <= Boot[range].n
    BY <1>2, <1>4 DEF Done
  <2>2. \A f \in Frame, x \in Index : L[f].lv = 2 => Sub(L[f].bs, x) \in Nat
    BY <1>0, <1>1, TreeFacts, SubFacts DEF Label
  <2>3. \A b \in Nat : Mapped(b) => Mapped(b)'
    <3> HIDE DEF Done
    <3> QED
      BY <1>1, <1>2, <1>4, <2>1, MappedGrows
  <2> QED
    BY <1>0, <1>2, <2>2, <2>3 DEF LargeInv
<1> QED
  BY <1>3, <1>5, <1>6, <1>7, <1>8 DEF IInv

LEMMA InitMapStep ==
    ASSUME IInv, InitMap
    PROVE  IInv'
<1>0. PICK L : Tree(L) /\ LargeInv(L)
  BY DEF IInv
<1>1. TypeOK /\ InitInv /\ TlbInv
  BY DEF IInv
<1> DEFINE op == IF LARGE_PAGES /\ LargeFits(range, offset) THEN "vmap_large" ELSE "vmap"
           v == Boot[range].v + offset
           p == Boot[range].p + offset
           fl == Boot[range].fl
<1>2. /\ pc = "init" /\ range <= Len(Boot) /\ offset < Boot[range].n
      /\ Enter(op, kernel_pagemap, v, p, fl)
      /\ UNCHANGED <<mem, avail, roots, cr3, tlb, loop, flat>>
  BY DEF InitMap
<1>3. /\ Fan \in Nat /\ Fan >= 2 /\ Len(Boot) \in Nat /\ range \in 1 .. Len(Boot) /\ offset \in Nat
      /\ pagemaps = {kernel_pagemap} /\ kernel_pagemap \in pagemaps
  <2>1. Len(Boot) \in Nat /\ range \in 1 .. Len(Boot)
    BY <1>1, <1>2, BootFacts DEF TypeOK
  <2>2. Boot[range].n \in Nat
    BY <2>1, BootFacts
  <2> QED
    BY <1>1, <1>2, <2>1, <2>2, FanFacts DEF TypeOK, InitInv
<1>4. v \in Addr /\ p \in Nat /\ fl \in SUBSET Flag /\ op \in {"vmap", "vmap_large"}
  BY <1>2, <1>3, BootFacts
<1>5. op = "vmap_large" =>
        LARGE_PAGES /\ LargeFits(range, offset) /\ v % Fan = 0 /\ v + Fan - 1 \in Addr
  <2>1. op = "vmap_large" => LARGE_PAGES /\ LargeFits(range, offset)
    BY <1>1 DEF TypeOK
  <2>2. ASSUME LargeFits(range, offset)
        PROVE  v % Fan = 0 /\ v + Fan - 1 \in Addr
    <3>1. Boot[range].n \in Nat /\ Boot[range].v \in Nat
      BY <1>3, BootFacts
    <3>2. offset + Fan - 1 \in Nat /\ offset + Fan - 1 < Boot[range].n /\ v + Fan - 1 = Boot[range].v + (offset + Fan - 1)
      <4>1. Boot[range].n - offset >= Fan
        BY <2>2 DEF LargeFits
      <4> QED
        BY <1>3, <3>1, <4>1
    <3>3. v + Fan - 1 \in Addr
      BY <1>3, <3>2, BootFacts
    <3> QED
      BY <2>2, <3>3 DEF LargeFits
  <2> QED
    BY <2>1, <2>2
<1>6. Small(L, kernel_pagemap, v)
  <2>1. Done = offset
    BY <1>2, <1>3 DEF Done
  <2> QED
    BY <1>0, <1>1, <1>2, <1>3, <1>4, <2>1, InitSmall DEF InitInv
<1> HIDE DEF op, v, p, fl
<1>7. /\ WalkInv(L)' /\ pc' = "walk"
      /\ call'.op = op /\ call'.pm = kernel_pagemap /\ call'.v = v /\ call'.p = p /\ call'.fl = fl
      /\ table' \in Frame /\ level' = Levels
  <2>1. op \in {"vmap", "vmap_large", "vunmap"} /\ op # "vunmap"
    BY <1>4
  <2> QED
    BY <1>0, <1>1, <1>2, <1>3, <1>4, <1>6, <2>1, EnterStep
<1>8. Tree(L)'
  BY <1>0, <1>1, <1>2, TreeKept
<1>9. TypeOK'
  BY <1>1, <1>2, <1>7, FanFacts DEF TypeOK, roots, loop
<1>10. CallInv'
  BY <1>2, <1>3, <1>4, <1>5, <1>7 DEF CallInv, roots, loop
<1>11. InitInv' /\ TlbInv'
  <2>1. InitInv'
    BY <1>1, <1>2, <1>3, <1>4, <1>5, <1>7 DEF InitInv, roots, loop, v
  <2>2. TlbInv'
    BY <1>1, <1>2, <1>7 DEF TlbInv, roots
  <2> QED
    BY <2>1, <2>2
<1>12. LargeInv(L)'
  <2>1. Done' = Done
    BY <1>2, <1>7 DEF Done, loop
  <2> HIDE DEF Done
  <2> QED
    BY <1>0, <1>2, <2>1 DEF LargeInv, Mapped, loop
<1> QED
  BY <1>7, <1>8, <1>9, <1>10, <1>11, <1>12 DEF IInv

LEMMA CallStep ==
    ASSUME IInv, NEW op \in {"vmap", "vunmap"}, NEW pm \in pagemaps, NEW v \in Virt, NEW p \in Nat, NEW fl \in SUBSET Flag,
           pc = "idle", ~ InLarge(pm, v), Enter(op, pm, v, p, fl),
           op = "vmap" => (Upper(v) => mem[kernel_pagemap][page_index(v, Levels)].on),
           UNCHANGED <<mem, avail, roots, cr3, tlb, loop, flat>>
    PROVE  IInv'
<1>0. PICK L : Tree(L)
  BY DEF IInv
<1>1. TypeOK /\ InitInv /\ TlbInv /\ v \in Addr
  BY PagingAssumption DEF IInv
<1>2. Small(L, pm, v)
  BY <1>0, <1>1, NotInLarge
<1>3. /\ WalkInv(L)' /\ pc' \in {"walk", "unwalk"} /\ pc' = (IF op = "vunmap" THEN "unwalk" ELSE "walk")
      /\ call'.op = op /\ call'.pm = pm /\ call'.v = v /\ call'.p = p /\ call'.fl = fl
      /\ table' \in Frame /\ level' = Levels
  <2>1. op \in {"vmap", "vmap_large", "vunmap"}
    OBVIOUS
  <2> QED
    BY <1>0, <1>1, <1>2, <2>1, EnterStep
<1>4. Tree(L)'
  BY <1>0, <1>1, TreeKept
<1>5. range > Len(Boot) /\ range' = range /\ range \in Int /\ Len(Boot) \in Nat
  BY <1>1, BootFacts DEF InitInv, TypeOK, loop
<1>6. TypeOK'
  BY <1>1, <1>3, FanFacts DEF TypeOK, roots, loop
<1>7. CallInv'
  BY <1>1, <1>3 DEF CallInv, roots
<1>8. InitInv'
  BY <1>1, <1>3, <1>5 DEF InitInv, roots
<1>9. TlbInv'
  BY <1>1, <1>3 DEF TlbInv, roots
<1>10. LargeInv(L)'
  BY <1>5 DEF LargeInv
<1> QED
  BY <1>3, <1>4, <1>6, <1>7, <1>8, <1>9, <1>10 DEF IInv

LEMMA WalkFailsStep ==
    ASSUME IInv, WalkFails
    PROVE  IInv'
<1>1. /\ pc = "walk" /\ Return(FALSE) /\ UNCHANGED <<mem, avail, roots, cr3, tlb, flat>>
  BY DEF WalkFails
<1>2. pc' # "invlpg"
  BY <1>1 DEF Return, Enter
<1>3. TlbInv'
  BY <1>1, <1>2 DEF IInv, TlbInv, roots
<1> QED
  BY <1>1, <1>3, ReturnStep

LEMMA UnwalkAbsentStep ==
    ASSUME IInv, UnwalkAbsent
    PROVE  IInv'
<1>1. /\ pc = "unwalk" /\ Return(TRUE) /\ UNCHANGED <<mem, avail, roots, cr3, tlb, flat>>
  BY DEF UnwalkAbsent
<1>2. pc' # "invlpg"
  BY <1>1 DEF Return, Enter
<1>3. TlbInv'
  BY <1>1, <1>2 DEF IInv, TlbInv, roots
<1> QED
  BY <1>1, <1>3, ReturnStep

LEMMA InvlpgStep ==
    ASSUME IInv, Invlpg
    PROVE  IInv'
<1>1. /\ pc = "invlpg" /\ Return(TRUE) /\ UNCHANGED <<mem, avail, roots, cr3, flat>>
      /\ tlb' = IF tlb # NULL /\ tlb.v \in Covered THEN NULL ELSE tlb
  BY DEF Invlpg
<1>2. pc' # "invlpg"
  BY <1>1 DEF Return, Enter
<1>3. TlbInv'
  BY <1>1, <1>2 DEF IInv, TlbInv, roots
<1> QED
  BY <1>1, <1>3, ReturnStep

\* What a walk knows of where it is.
LEMMA WalkFacts ==
    ASSUME IInv, NEW L, WalkInv(L), pc \in {"walk", "unwalk"}
    PROVE  /\ Levels \in Nat /\ Levels >= 2 /\ Leaf \in {1, 2}
           /\ level \in Leaf .. Levels /\ table \in Frame /\ L[table] = Lab(call.pm, call.v, level)
           /\ \A qm \in pagemaps, l \in level + 1 .. Levels, f \in Frame :
                (qm = call.pm \/ Upper(call.v)) /\ L[f] = Lab(qm, call.v, l) =>
                    mem[f][page_index(call.v, l)].on /\ ~ mem[f][page_index(call.v, l)].ps
           /\ call.op # "vmap_large" => Small(L, call.pm, call.v)
           /\ call.op \in {"vmap", "vmap_large", "vunmap"}
           /\ call.pm \in pagemaps /\ call.v \in Addr /\ call.p \in Nat /\ call.fl \in SUBSET Flag
<1>1. CallInv
  BY DEF IInv
<1>2. Leaf \in {1, 2}
  BY DEF Leaf
<1> QED
  BY <1>1, <1>2, FanFacts DEF WalkInv, CallInv

\* An entry that is on leads to a table: a walk meets no large page.
LEMMA HereOn ==
    ASSUME IInv, NEW L, Tree(L), WalkInv(L), pc \in {"walk", "unwalk"}, level > Leaf, Here.on
    PROVE  /\ ~ Here.ps /\ Here.to \in Frame /\ L[Here.to] = Lab(call.pm, call.v, level - 1)
           /\ Here.fl = {"W", "U"}
<1>1. TypeOK
  BY DEF IInv
<1> DEFINE pm == call.pm
           v == call.v
           t == table
           l == level
           e == Here
<1>2. /\ pm \in pagemaps /\ v \in Addr /\ t \in Frame /\ l \in 2 .. Levels /\ L[t] = Lab(pm, v, l)
      /\ e = mem[t][page_index(v, l)] /\ e.on
  BY WalkFacts DEF Here
<1>3. l = 2 => ~ e.ps
  <2>1. l = 2 => call.op # "vmap_large"
    BY WalkFacts DEF Leaf
  <2> QED
    BY <1>2, <2>1, WalkFacts DEF Small
<1> HIDE DEF pm, v, t, l, e
<1>4. ~ e.ps
  BY <1>1, <1>2, <1>3, StepOn
<1>5. e.to \in Frame /\ L[e.to] = Lab(pm, v, l - 1) /\ e.fl = {"W", "U"}
  BY <1>1, <1>2, <1>4, StepOn
<1> QED
  BY <1>4, <1>5 DEF pm, v, l, e

LEMMA DownStep ==
    ASSUME IInv, pc \in {"walk", "unwalk"}, level > Leaf, Here.on,
           table' = Here.to, level' = level - 1,
           UNCHANGED <<mem, avail, roots, cr3, tlb, pc, call, loop, flat>>
    PROVE  IInv'
<1>0. PICK L : Tree(L) /\ WalkInv(L) /\ LargeInv(L)
  BY DEF IInv
<1>1. TypeOK /\ CallInv /\ InitInv /\ TlbInv
  BY DEF IInv
<1>2. /\ Levels \in Nat /\ Levels >= 2 /\ Leaf \in {1, 2}
      /\ level \in Leaf .. Levels /\ table \in Frame /\ L[table] = Lab(call.pm, call.v, level)
      /\ \A qm \in pagemaps, l \in level + 1 .. Levels, f \in Frame :
             (qm = call.pm \/ Upper(call.v)) /\ L[f] = Lab(qm, call.v, l) =>
                 mem[f][page_index(call.v, l)].on /\ ~ mem[f][page_index(call.v, l)].ps
      /\ call.op # "vmap_large" => Small(L, call.pm, call.v)
      /\ call.pm \in pagemaps /\ call.v \in Addr
  BY <1>0, WalkFacts
<1> DEFINE pm == call.pm
           v == call.v
           t == table
           l == level
           x == page_index(v, l)
<1>4. pm \in pagemaps /\ v \in Addr /\ t \in Frame /\ l \in 2 .. Levels /\ L[t] = Lab(pm, v, l)
  BY <1>2
<1>5. mem[t][x].on /\ Here = mem[t][x]
  BY DEF Here
<1>6. ~ mem[t][x].ps /\ mem[t][x].to \in Frame /\ L[mem[t][x].to] = Lab(pm, v, l - 1)
  BY <1>0, <1>5, HereOn
<1>7. mem[t][x].to \in Frame /\ L[mem[t][x].to] = Lab(pm, v, l - 1)
  BY <1>6
<1>8. ASSUME NEW qm \in pagemaps, NEW m \in level .. Levels, NEW f \in Frame,
             qm = call.pm \/ Upper(call.v), L[f] = Lab(qm, call.v, m)
      PROVE  mem[f][page_index(call.v, m)].on /\ ~ mem[f][page_index(call.v, m)].ps
  <2>1. CASE m = level
    <3>1. mem[t][page_index(v, l)] = mem[f][page_index(v, l)]
      <4>1. l \in 1 .. Levels /\ L[f] = Lab(qm, v, l) /\ (qm = pm \/ Upper(v))
        BY <1>2, <1>4, <1>8, <2>1
      <4> HIDE DEF pm, v, t, l
      <4> QED
        BY <1>0, <1>1, <1>4, <4>1, SameSlot
    <3> QED
      BY <1>5, <1>6, <2>1, <3>1
  <2>2. CASE m # level
    <3>1. m \in level + 1 .. Levels
      BY <1>2, <2>2
    <3> QED
      BY <1>2, <1>8, <3>1
  <2> QED
    BY <2>1, <2>2
<1>9. /\ table' = mem[t][x].to /\ level' = level - 1 /\ level' + 1 = level /\ level' < Levels /\ level' \in Leaf .. Levels
      /\ level' \in 0 .. Levels
  BY <1>2, <1>5
<1>10. WalkInv(L)'
  <2>1. Leaf' = Leaf
    BY DEF Leaf
  <2>2. call.op # "vmap_large" => Small(L, call.pm, call.v)'
    BY <1>2 DEF Small
  <2>3. L[table'] = Lab(call.pm, call.v, level') /\ table' \in Frame
    BY <1>7, <1>9
  <2>4. level' + 1 = level /\ level' # Levels /\ level' \in Leaf .. Levels
    BY <1>2, <1>9
  <2> HIDE DEF pm, v, t, l, x
  <2> QED
    BY <1>8, <2>1, <2>2, <2>3, <2>4 DEF WalkInv, roots
<1>11. Tree(L)'
  BY <1>0, <1>1, TreeKept
<1>12. TypeOK'
  <2>1. table' \in Frame /\ level' \in 0 .. Levels
    BY <1>7, <1>9
  <2> HIDE DEF pm, v, t, l, x
  <2> QED
    BY <1>1, <2>1 DEF TypeOK, roots, loop
<1> HIDE DEF pm, v, t, l, x
<1>13. CallInv' /\ InitInv' /\ TlbInv'
  <2>1. CallInv'
    BY <1>1 DEF CallInv, roots, loop
  <2>2. InitInv'
    BY <1>1 DEF InitInv, roots, loop
  <2>3. TlbInv'
    BY <1>1 DEF TlbInv, roots, loop
  <2> QED
    BY <2>1, <2>2, <2>3
<1>14. LargeInv(L)'
  BY <1>0 DEF LargeInv, Mapped, Done, loop
<1> QED
  BY <1>10, <1>11, <1>12, <1>13, <1>14 DEF IInv

LEMMA UnwalkOnStep ==
    ASSUME IInv, UnwalkOn
    PROVE  IInv'
<1>1. call.op = "vunmap"
  BY DEF IInv, CallInv, UnwalkOn
<1>2. /\ pc \in {"walk", "unwalk"} /\ level > Leaf /\ Here.on
      /\ table' = Here.to /\ level' = level - 1
      /\ UNCHANGED <<mem, avail, roots, cr3, tlb, pc, call, loop, flat>>
  BY <1>1 DEF UnwalkOn, Leaf
<1> QED
  BY <1>2, DownStep

\* The flags of an entry on the way down never change: it has all rights from the start.
LEMMA WalkOnStep ==
    ASSUME IInv, WalkOn
    PROVE  IInv'
<1>0. PICK L : Tree(L) /\ WalkInv(L)
  BY DEF IInv
<1>1. /\ pc \in {"walk", "unwalk"} /\ level > Leaf /\ Here.on
      /\ table' = Here.to /\ level' = level - 1
      /\ mem' = [mem EXCEPT ![table][page_index(call.v, level)].fl = TableFlags(@, call.fl)]
      /\ UNCHANGED <<avail, roots, cr3, tlb, pc, call, loop, flat>>
  BY DEF WalkOn
<1> DEFINE t == table
           x == page_index(call.v, level)
<1>2. mem[t][x].fl = {"W", "U"} /\ call.fl \in SUBSET Flag /\ t \in Frame
  <2>1. Here.fl = {"W", "U"}
    BY <1>0, <1>1, HereOn
  <2> QED
    BY <1>0, <1>1, <2>1, WalkFacts DEF Here
<1>3. TableFlags(mem[t][x].fl, call.fl) = mem[t][x].fl
  BY <1>2 DEF TableFlags, Flag
<1>4. x \in Index
  <2>1. level \in 1 .. Levels /\ call.v \in Addr /\ call.pm \in Frame
    <3>1. call.pm \in pagemaps /\ call.v \in Addr /\ level \in Leaf .. Levels /\ Leaf \in {1, 2} /\ Levels \in Nat
      BY <1>0, <1>1, WalkFacts
    <3> QED
      BY <3>1 DEF IInv, TypeOK
  <2> DEFINE pm0 == call.pm  v0 == call.v
  <2> HIDE DEF pm0, v0
  <2>2. page_index(v0, level) \in Index
    BY <2>1, LabFacts DEF pm0, v0
  <2> QED
    BY <2>2 DEF v0
<1>5. mem \in [Frame -> [Index -> [on : BOOLEAN, to : Nat, fl : SUBSET Flag, ps : BOOLEAN]]]
  BY DEF IInv, TypeOK
<1>6. mem' = [mem EXCEPT ![t][x].fl = TableFlags(mem[t][x].fl, call.fl)]
  BY <1>1
<1> HIDE DEF t, x
<1>7. mem' = mem
  <2>1. [mem[t][x] EXCEPT !.fl = mem[t][x].fl] = mem[t][x]
    BY <1>2, <1>4, <1>5
  <2>2. mem' = [mem EXCEPT ![t] = [mem[t] EXCEPT ![x] = [mem[t][x] EXCEPT !.fl = mem[t][x].fl]]]
    BY <1>3, <1>6
  <2>3. [mem[t] EXCEPT ![x] = mem[t][x]] = mem[t]
    BY <1>2, <1>4, <1>5
  <2>4. [mem EXCEPT ![t] = mem[t]] = mem
    BY <1>2, <1>5
  <2> QED
    BY <2>1, <2>2, <2>3, <2>4
<1> QED
  BY <1>1, <1>7, DownStep

----------------------------------------------------------------------------
(***************************************************************************)
(* The steps that change the tables                                        *)
(***************************************************************************)
LEMMA ClearedFacts ==
    /\ Cleared \in [Index -> [on : BOOLEAN, to : Nat, fl : SUBSET Flag, ps : BOOLEAN]]
    /\ \A x \in Index : Cleared[x] = Empty /\ ~ Cleared[x].on /\ ~ Cleared[x].ps
    /\ Empty \in [on : BOOLEAN, to : Nat, fl : SUBSET Flag, ps : BOOLEAN]
    /\ ~ Empty.on /\ ~ Empty.ps
BY DEF Cleared, Empty, Entry

\* The first tree, with no other table.
LEMMA PagingInitStep ==
    ASSUME IInv, PagingInit
    PROVE  IInv'
<1>1. TypeOK /\ InitInv
  BY DEF IInv
<1>2. PICK f \in Palloc : /\ avail' = avail \ {f}
                          /\ mem' = [mem EXCEPT ![f] = Cleared]
                          /\ kernel_pagemap' = f /\ pagemaps' = {f}
                          /\ flat' = [pm \in {f} |-> [v \in Addr |-> NoPage]]
  BY DEF PagingInit
<1>3. /\ pc = "reset" /\ pc' = "init" /\ UNCHANGED <<LARGE_PAGES, cr3, tlb, call, table, level, range, offset>>
  BY DEF PagingInit, walk, loop
<1>4. f \in avail /\ f \in Frame /\ Levels \in Nat /\ Levels >= 2 /\ NFrames \in Nat
  BY <1>1, FanFacts DEF Palloc, TypeOK
<1>5. cr3 = NULL /\ tlb = NULL /\ range = 1 /\ offset = 0 /\ \E k \in 0 .. NFrames : avail = 1 .. k
  BY <1>1, <1>3 DEF InitInv
<1> DEFINE L == [g \in Frame |-> IF g = f THEN Root(f) ELSE [lv |-> 0, bs |-> 0, ow |-> 0]]
<1>6. /\ L \in [Frame -> Label] /\ L[f] = Root(f) /\ Root(f).lv = Levels /\ Root(f).ow = f
      /\ \A g \in Frame : g # f => L[g].lv = 0
  <2>1. Root(f) \in Label /\ Root(f).lv = Levels /\ Root(f).ow = f
    BY <1>4 DEF Root, Label, Frame
  <2>2. [lv |-> 0, bs |-> 0, ow |-> 0] \in Label
    BY <1>4 DEF Label
  <2> QED
    BY <1>4, <2>1, <2>2
<1> HIDE DEF L
<1>7. mem'[f] = Cleared
  BY <1>1, <1>2, <1>4 DEF TypeOK
<1>8. TreeInv(L)' /\ Distinct(L)'
  <2>1. \A g \in avail' : L[g].lv = 0
    BY <1>1, <1>2, <1>6 DEF TypeOK
  <2>2. \A g \in Frame : g \in pagemaps' <=> L[g].lv = Levels
    BY <1>2, <1>4, <1>6
  <2>3. \A g \in pagemaps' : L[g] = Root(g)
    BY <1>2, <1>6
  <2>4. \A g \in Frame : L[g].lv > 0 => L[g].ow \in pagemaps' \cup {0}
    BY <1>2, <1>6
  <2>5. Distinct(L)'
    BY <1>4, <1>6 DEF Distinct
  <2> QED
    BY <1>6, <2>1, <2>2, <2>3, <2>4, <2>5 DEF TreeInv
<1>9. EntryInv(L)'
  BY <1>4, <1>6, <1>7, ClearedFacts DEF EntryInv
<1>10. ParentInv(L)' /\ SharedInv'
  BY <1>2, <1>4, <1>6 DEF ParentInv, SharedInv
<1>11. WholeInv(L)'
  <2>1. {g \in Frame : L[g].lv > 0} = {f}
    BY <1>4, <1>6
  <2>2. {f} \cup avail' = avail
    BY <1>2, <1>4
  <2> QED
    BY <1>5, <2>1, <2>2 DEF WholeInv
<1>12. MeansInv(L)'
  <2>1. SUFFICES ASSUME NEW pm \in {f}, NEW v \in Addr, NEW l \in 1 .. Levels, NEW g \in Frame, L[g] = Lab(pm, v, l)
                 PROVE  Tells(mem[g][page_index(v, l)], l, pm, v)'
    BY <1>2 DEF MeansInv
  <2>2. pm \in Frame /\ L[g].lv = l /\ page_index(v, l) \in Index
    BY <1>4, <2>1, LabFacts
  <2>3. g = f
    BY <1>6, <2>2
  <2>4. ~ mem'[g][page_index(v, l)].on
    BY <1>7, <2>2, <2>3, ClearedFacts
  <2>5. flat'[pm][v] = NoPage
    BY <1>2
  <2> QED
    BY <2>4, <2>5 DEF Tells
<1>13. Tree(L)'
  BY <1>8, <1>9, <1>10, <1>11, <1>12 DEF Tree
<1>14. WalkInv(L)' /\ CallInv'
  BY <1>3 DEF WalkInv, CallInv
<1>15. LargeInv(L)'
  BY <1>4, <1>6, <1>7, ClearedFacts DEF LargeInv
<1>16. TypeOK'
  <2>1. mem' \in [Frame -> [Index -> [on : BOOLEAN, to : Nat, fl : SUBSET Flag, ps : BOOLEAN]]]
    BY <1>1, <1>2, <1>4, ClearedFacts DEF TypeOK
  <2>2. flat' \in [pagemaps' -> [Addr -> [on : BOOLEAN, to : Nat, fl : SUBSET Flag]]]
    BY <1>2 DEF NoPage
  <2> QED
    BY <1>1, <1>2, <1>3, <1>4, <1>5, <2>1, <2>2 DEF TypeOK
<1>17. InitInv' /\ TlbInv'
  BY <1>1, <1>2, <1>3, <1>5 DEF InitInv, TlbInv
<1> QED
  BY <1>13, <1>14, <1>15, <1>16, <1>17 DEF IInv

\* A new tree shares the upper half with the others and has nothing else.
LEMMA PmnewStep ==
    ASSUME IInv, Pmnew
    PROVE  IInv'
<1>0. PICK L0 : Tree(L0)
  BY DEF IInv
<1>1. TypeOK /\ InitInv /\ TlbInv
  BY DEF IInv
<1>2. PICK f \in Palloc :
         /\ avail' = avail \ {f}
         /\ mem' = [mem EXCEPT ![f] =
                      [x \in Index |-> IF x >= Fan \div 2 THEN mem[kernel_pagemap][x] ELSE Empty]]
         /\ pagemaps' = pagemaps \cup {f}
         /\ flat' = [pm \in pagemaps' |->
                       IF pm # f THEN flat[pm]
                       ELSE [v \in Addr |-> IF Upper(v) THEN flat[kernel_pagemap][v] ELSE NoPage]]
  BY DEF Pmnew
<1>3. /\ pc = "idle" /\ pc' = "idle" /\ UNCHANGED <<LARGE_PAGES, kernel_pagemap, cr3, tlb, call, table, level, range, offset>>
  BY DEF Pmnew, walk, loop
<1> DEFINE k == kernel_pagemap
<1>4. /\ f \in avail /\ f \in Frame /\ Levels \in Nat /\ Levels >= 2 /\ NFrames \in Nat
      /\ k \in pagemaps /\ k \in Frame /\ range > Len(Boot)
  BY <1>1, <1>3, FanFacts DEF Palloc, TypeOK, InitInv
<1>5. /\ L0 \in [Frame -> Label] /\ pagemaps \subseteq Frame
      /\ L0[f].lv = 0 /\ f \notin pagemaps /\ f # k
      /\ \A g \in pagemaps : L0[g] = Root(g)
      /\ \A g \in Frame : L0[g].lv = Levels <=> g \in pagemaps
      /\ \A g \in Frame : L0[g].lv \in Int /\ L0[g] \in Label
  <2>1. L0[f].lv = 0
    BY <1>0, <1>4 DEF Tree, TreeInv
  <2>2. f \notin pagemaps
    BY <1>0, <1>1, <1>4, <2>1, TreeFacts
  <2> QED
    BY <1>0, <1>1, <1>4, <2>1, <2>2, TreeFacts
<1> HIDE DEF k
<1> DEFINE L == [L0 EXCEPT ![f] = Root(f)]
<1>6. /\ L \in [Frame -> Label] /\ L[f] = Root(f) /\ Root(f).lv = Levels /\ Root(f).ow = f
      /\ \A g \in Frame : g # f => L[g] = L0[g]
      /\ \A g \in Frame : Root(g).lv = Levels /\ Root(g).ow = g /\ Root(g) \in Label
  <2>1. \A g \in Frame : Root(g) \in Label /\ Root(g).lv = Levels /\ Root(g).ow = g
    BY <1>4 DEF Root, Label, Frame
  <2> QED
    BY <1>4, <1>5, <2>1
<1> HIDE DEF L
<1>7. /\ \A g \in Frame : g # f => mem'[g] = mem[g]
      /\ \A x \in Index : mem'[f][x] = IF High(x) THEN mem[k][x] ELSE Empty
  BY <1>1, <1>2, <1>4 DEF TypeOK, High, k
<1>8. TreeInv(L)'
  <2>1. \A g \in avail' : L[g].lv = 0
    BY <1>0, <1>1, <1>2, <1>6 DEF Tree, TreeInv, TypeOK
  <2>2. \A g \in Frame : g \in pagemaps' <=> L[g].lv = Levels
    BY <1>2, <1>5, <1>6
  <2>3. \A g \in pagemaps' : L[g] = Root(g)
    BY <1>2, <1>5, <1>6
  <2>4. \A g \in Frame : L[g].lv > 0 => L[g].ow \in pagemaps' \cup {0}
    BY <1>0, <1>2, <1>6 DEF Tree, TreeInv
  <2> QED
    BY <1>6, <2>1, <2>2, <2>3, <2>4 DEF TreeInv
<1>9. Distinct(L)'
  <2>1. ASSUME NEW g \in Frame, g # f
        PROVE  L0[g] # Root(f)
    <3>1. SUFFICES ASSUME L0[g] = Root(f) PROVE FALSE
      OBVIOUS
    <3>2. g \in pagemaps
      BY <1>5, <1>6, <3>1
    <3>3. Root(g) = Root(f)
      BY <1>5, <3>1, <3>2
    <3> QED
      BY <1>6, <2>1, <3>3
  <2>2. SUFFICES ASSUME NEW g \in Frame, NEW h \in Frame, L[g].lv > 0, L[g] = L[h]
                 PROVE  g = h
    BY DEF Distinct
  <2>3. CASE g # f /\ h # f
    BY <1>0, <1>6, <2>2, <2>3 DEF Tree, Distinct
  <2>4. CASE g = f /\ h # f
    BY <1>6, <2>1, <2>2, <2>4
  <2>5. CASE g # f /\ h = f
    BY <1>6, <2>1, <2>2, <2>5
  <2> QED
    BY <2>3, <2>4, <2>5
<1>10. \A x \in Index : High(x) => Kid(Root(f), x) = Kid(Root(k), x)
  BY <1>4 DEF Kid, Root
\* A table under an entry is not the new one.
<1>11. ASSUME NEW g \in Frame, NEW x \in Index, L0[g].lv >= 2, mem[g][x].on, ~ mem[g][x].ps
       PROVE  /\ mem[g][x].to \in Frame /\ mem[g][x].to # f
              /\ L[mem[g][x].to] = Kid(L0[g], x) /\ mem[g][x].fl = {"W", "U"}
  <2>1. mem[g][x].to \in Frame /\ L0[mem[g][x].to] = Kid(L0[g], x) /\ mem[g][x].fl = {"W", "U"}
    BY <1>0, <1>11 DEF Tree, EntryInv
  <2>2. Kid(L0[g], x).lv = L0[g].lv - 1
    BY <1>5, <1>11, KidFacts
  <2>3. mem[g][x].to # f
    BY <1>5, <1>11, <2>1, <2>2
  <2> QED
    BY <1>6, <2>1, <2>3
<1>12. EntryInv(L)'
  <2>1. SUFFICES ASSUME NEW g \in Frame, NEW x \in Index
                 PROVE  /\ L[g].lv = 1 /\ mem'[g][x].on => ~ mem'[g][x].ps
                        /\ L[g].lv >= 2 /\ mem'[g][x].on /\ mem'[g][x].ps => L[g].lv = 2 /\ LARGE_PAGES'
                        /\ L[g].lv >= 2 /\ mem'[g][x].on /\ ~ mem'[g][x].ps =>
                             /\ mem'[g][x].to \in Frame
                             /\ L[mem'[g][x].to] = Kid(L[g], x)
                             /\ mem'[g][x].fl = {"W", "U"}
    BY DEF EntryInv
  <2>2. CASE g # f
    <3>1. L[g] = L0[g] /\ mem'[g][x] = mem[g][x]
      BY <1>6, <1>7, <2>2
    <3>2. /\ L[g].lv = 1 /\ mem[g][x].on => ~ mem[g][x].ps
          /\ L[g].lv >= 2 /\ mem[g][x].on /\ mem[g][x].ps => L[g].lv = 2 /\ LARGE_PAGES
      BY <1>0, <3>1 DEF Tree, EntryInv
    <3> QED
      BY <1>3, <1>11, <3>1, <3>2
  <2>3. CASE g = f /\ ~ High(x)
    <3>1. mem'[g][x] = Empty
      BY <1>7, <2>3
    <3> QED
      BY <3>1, ClearedFacts
  <2>4. CASE g = f /\ High(x)
    <3>1. mem'[g][x] = mem[k][x] /\ L[g] = Root(f) /\ L[g].lv = Levels /\ L0[k] = Root(k) /\ L0[k].lv = Levels
      BY <1>4, <1>5, <1>6, <1>7, <2>4
    <3>2. mem[k][x].on /\ mem[k][x].ps => Levels = 2 /\ LARGE_PAGES
      BY <1>0, <1>4, <3>1 DEF Tree, EntryInv
    <3>3. mem[k][x].on /\ ~ mem[k][x].ps =>
             /\ mem[k][x].to \in Frame /\ L[mem[k][x].to] = Kid(L[g], x) /\ mem[k][x].fl = {"W", "U"}
      BY <1>4, <1>10, <1>11, <2>4, <3>1
    <3> QED
      BY <1>3, <1>4, <3>1, <3>2, <3>3
  <2> QED
    BY <2>2, <2>3, <2>4
<1>13. ParentInv(L)'
  <2>1. SUFFICES ASSUME NEW g \in Frame, L[g].lv > 0, L[g].lv < Levels
                 PROVE  \E h \in Frame, x \in Index :
                          L[h].lv = L[g].lv + 1 /\ mem'[h][x].on /\ ~ mem'[h][x].ps /\ mem'[h][x].to = g
    BY DEF ParentInv
  <2>2. g # f /\ L[g] = L0[g]
    BY <1>4, <1>6, <2>1
  <2>3. PICK h \in Frame, x \in Index : L0[h].lv = L0[g].lv + 1 /\ mem[h][x].on /\ ~ mem[h][x].ps /\ mem[h][x].to = g
    BY <1>0, <2>1, <2>2 DEF Tree, ParentInv
  <2>4. h # f
    BY <1>5, <2>1, <2>2, <2>3
  <2> QED
    BY <1>6, <1>7, <2>2, <2>3, <2>4
<1>14. SharedInv'
  <2>1. ASSUME NEW g \in pagemaps', NEW x \in Index, High(x)
        PROVE  mem'[g][x] = mem[k][x]
    <3>1. CASE g = f
      BY <1>7, <2>1, <3>1
    <3>2. CASE g # f
      <4>1. g \in pagemaps /\ g \in Frame
        BY <1>2, <1>5, <3>2
      <4> QED
        BY <1>0, <1>4, <1>7, <2>1, <3>2, <4>1 DEF Tree, SharedInv
    <3> QED
      BY <3>1, <3>2
  <2> QED
    BY <2>1 DEF SharedInv
<1>15. WholeInv(L)'
  <2>1. {g \in Frame : L[g].lv > 0} \cup avail' = {g \in Frame : L0[g].lv > 0} \cup avail
    BY <1>2, <1>4, <1>5, <1>6
  <2> QED
    BY <1>0, <1>3, <2>1 DEF Tree, WholeInv
<1>16. MeansInv(L)'
  <2>1. SUFFICES ASSUME NEW pm \in pagemaps', NEW v \in Addr, NEW l \in 1 .. Levels, NEW g \in Frame, L[g] = Lab(pm, v, l)
                 PROVE  Tells(mem[g][page_index(v, l)], l, pm, v)'
    BY DEF MeansInv
  <2>2. /\ pm \in Frame /\ page_index(v, l) \in Index /\ L[g].lv = l /\ l > 0 /\ l \in Int
        /\ (Upper(v) <=> High(page_index(v, Levels))) /\ f # 0 /\ pm # 0
    <3>1. pm \in Frame
      BY <1>2, <1>4, <1>5
    <3> QED
      BY <1>4, <2>1, <3>1, LabFacts DEF Upper, High, Frame
  <2>3. CASE pm # f
    <3>1. pm \in pagemaps /\ flat'[pm] = flat[pm]
      BY <1>2, <2>3
    <3>2. g # f
      <4>1. SUFFICES ASSUME g = f PROVE FALSE
        OBVIOUS
      <4>2. Lab(pm, v, l).ow \in {0, pm} /\ Lab(pm, v, l).ow = f
        BY <1>6, <2>1, <2>2, <4>1, LabFacts
      <4> QED
        BY <2>2, <2>3, <4>2
    <3>3. L0[g] = Lab(pm, v, l) /\ mem'[g] = mem[g]
      BY <1>6, <1>7, <2>1, <3>2
    <3>4. Tells(mem[g][page_index(v, l)], l, pm, v)
      BY <1>0, <3>1, <3>3 DEF Tree, MeansInv
    <3> QED
      BY <3>1, <3>3, <3>4 DEF Tells
  <2>4. CASE pm = f
    <3>1. flat'[pm][v] = IF Upper(v) THEN flat[k][v] ELSE NoPage
      BY <1>2, <2>4 DEF k
    <3>2. CASE g = f
      <4>1. l = Levels
        BY <1>6, <2>2, <3>2
      <4>2. CASE Upper(v)
        <5>1. mem'[g][page_index(v, l)] = mem[k][page_index(v, l)]
          BY <1>7, <2>2, <3>2, <4>1, <4>2
        <5>2. L0[k] = Lab(k, v, l)
          BY <1>4, <1>5, <4>1, LabFacts
        <5>3. Tells(mem[k][page_index(v, l)], l, k, v)
          BY <1>0, <1>4, <5>2 DEF Tree, MeansInv
        <5> QED
          BY <3>1, <4>2, <5>1, <5>3 DEF Tells
      <4>3. CASE ~ Upper(v)
        <5>1. mem'[g][page_index(v, l)] = Empty
          BY <1>7, <2>2, <3>2, <4>1, <4>3
        <5> QED
          BY <3>1, <4>3, <5>1, ClearedFacts DEF Tells
      <4> QED
        BY <4>2, <4>3
    <3>3. CASE g # f
      <4>1. L0[g] = Lab(pm, v, l) /\ mem'[g] = mem[g]
        BY <1>6, <1>7, <2>1, <3>3
      <4>2. L0[g].ow \in pagemaps \cup {0}
        BY <1>0, <2>2, <4>1, LabFacts DEF Tree, TreeInv
      <4>3. l < Levels /\ Upper(v)
        <5>1. Owner(pm, v, l) = L0[g].ow
          BY <4>1 DEF Lab
        <5>2. Owner(pm, v, l) # f
          BY <1>5, <2>2, <4>2, <5>1
        <5> QED
          BY <2>4, <5>2 DEF Owner
      <4>4. L0[g] = Lab(k, v, l)
        BY <4>1, <4>3 DEF Lab, Owner
      <4>5. Tells(mem[g][page_index(v, l)], l, k, v)
        BY <1>0, <1>4, <4>4 DEF Tree, MeansInv
      <4> QED
        BY <3>1, <4>1, <4>3, <4>5 DEF Tells
    <3> QED
      BY <3>2, <3>3
  <2> QED
    BY <2>3, <2>4
<1>17. Tree(L)'
  BY <1>8, <1>9, <1>12, <1>13, <1>14, <1>15, <1>16 DEF Tree
<1>18. WalkInv(L)' /\ CallInv'
  BY <1>3 DEF WalkInv, CallInv
<1>19. LargeInv(L)'
  <2>1. Len(Boot) \in Nat /\ range \in Int
    BY <1>1, BootFacts DEF TypeOK
  <2> QED
    BY <1>3, <1>4, <2>1 DEF LargeInv
<1>20. TypeOK'
  <2>1. mem' \in [Frame -> [Index -> [on : BOOLEAN, to : Nat, fl : SUBSET Flag, ps : BOOLEAN]]]
    <3> DEFINE E == [on : BOOLEAN, to : Nat, fl : SUBSET Flag, ps : BOOLEAN]
    <3>1. mem \in [Frame -> [Index -> E]] /\ Empty \in E
      BY <1>1, ClearedFacts DEF TypeOK
    <3> HIDE DEF E
    <3>2. [x \in Index |-> IF x >= Fan \div 2 THEN mem[kernel_pagemap][x] ELSE Empty] \in [Index -> E]
      BY <1>4, <3>1 DEF k
    <3>3. mem' \in [Frame -> [Index -> E]]
      BY <1>2, <3>1, <3>2
    <3> QED
      BY <3>3 DEF E
  <2>2. flat' \in [pagemaps' -> [Addr -> [on : BOOLEAN, to : Nat, fl : SUBSET Flag]]]
    <3> DEFINE E == [on : BOOLEAN, to : Nat, fl : SUBSET Flag]
    <3>1. flat \in [pagemaps -> [Addr -> E]] /\ NoPage \in E
      BY <1>1 DEF TypeOK, NoPage
    <3> HIDE DEF E
    <3>2. [v \in Addr |-> IF Upper(v) THEN flat[kernel_pagemap][v] ELSE NoPage] \in [Addr -> E]
      BY <1>4, <3>1 DEF k
    <3>3. flat' \in [pagemaps' -> [Addr -> E]]
      BY <1>2, <3>1, <3>2
    <3> QED
      BY <3>3 DEF E
  <2> QED
    BY <1>1, <1>2, <1>3, <1>4, <2>1, <2>2 DEF TypeOK
<1>21. InitInv'
  BY <1>1, <1>2, <1>3, <1>4 DEF InitInv, k
<1>22. TlbInv'
  <2>1. cr3 \in pagemaps => flat'[cr3] = flat[cr3]
    BY <1>2, <1>5
  <2> QED
    BY <1>1, <1>2, <1>3, <2>1 DEF TlbInv
<1> QED
  BY <1>17, <1>18, <1>19, <1>20, <1>21, <1>22 DEF IInv

\* A new table on the way down: empty, and the only one with its label.
LEMMA WalkAllocStep ==
    ASSUME IInv, WalkAlloc
    PROVE  IInv'
<1>0. PICK L0 : Tree(L0) /\ WalkInv(L0) /\ LargeInv(L0)
  BY DEF IInv
<1>1. TypeOK /\ CallInv /\ InitInv /\ TlbInv
  BY DEF IInv
<1> DEFINE pm == call.pm
           v == call.v
           t == table
           l == level
           x == page_index(v, l)
<1>2. PICK f \in Palloc :
         /\ avail' = avail \ {f}
         /\ mem' = [mem EXCEPT ![f] = Cleared,
                               ![table][page_index(call.v, level)] =
                                  Entry(TRUE, f, TableFlags({"W", "U"}, call.fl), FALSE)]
         /\ table' = f
  BY DEF WalkAlloc
<1>3. /\ pc = "walk" /\ level > Leaf /\ ~ mem[t][x].on /\ level' = level - 1
      /\ UNCHANGED <<LARGE_PAGES, pagemaps, kernel_pagemap, cr3, tlb, pc, call, range, offset, flat>>
  BY DEF WalkAlloc, roots, loop, Here
<1>4. /\ Levels \in Nat /\ Levels >= 2 /\ NFrames \in Nat /\ Leaf \in {1, 2}
      /\ l \in 2 .. Levels /\ l \in Leaf .. Levels /\ l \in 1 .. Levels /\ l - 1 \in 1 .. Levels /\ l \in Int
      /\ t \in Frame /\ L0[t] = Lab(pm, v, l)
      /\ pm \in pagemaps /\ v \in Addr /\ pm \in Frame /\ call.fl \in SUBSET Flag
  <2>1. /\ Levels \in Nat /\ Levels >= 2 /\ Leaf \in {1, 2}
        /\ l \in Leaf .. Levels /\ t \in Frame /\ L0[t] = Lab(pm, v, l)
        /\ pm \in pagemaps /\ v \in Addr /\ call.fl \in SUBSET Flag
    BY <1>0, <1>3, WalkFacts
  <2>2. pm \in Frame
    BY <1>1, <2>1 DEF TypeOK
  <2> QED
    BY <1>3, <2>1, <2>2, FanFacts
<1>5. /\ \A qm \in pagemaps, m \in l + 1 .. Levels, g \in Frame :
           (qm = pm \/ Upper(v)) /\ L0[g] = Lab(qm, v, m) =>
               mem[g][page_index(v, m)].on /\ ~ mem[g][page_index(v, m)].ps
      /\ call.op # "vmap_large" => Small(L0, pm, v)
      /\ Upper(v) /\ l = Levels =>
             pagemaps = {kernel_pagemap} \/ mem[kernel_pagemap][page_index(v, Levels)].on
  BY <1>0, <1>3 DEF WalkInv
<1>6. /\ L0 \in [Frame -> Label] /\ pagemaps \subseteq Frame
      /\ \A g \in pagemaps : L0[g] = Root(g)
      /\ \A g \in Frame : L0[g].lv = Levels <=> g \in pagemaps
      /\ \A g \in Frame : L0[g].lv \in Int /\ L0[g] \in Label
  BY <1>0, <1>1, TreeFacts
<1> HIDE DEF pm, v, t, l, x
<1>7. /\ f \in avail /\ f \in Frame /\ L0[f].lv = 0 /\ f # t /\ f \notin pagemaps
      /\ L0[t].lv = l /\ x \in Index /\ L0[t] \in Label
  <2>1. f \in avail /\ f \in Frame
    BY <1>1 DEF Palloc, TypeOK
  <2>2. L0[f].lv = 0
    BY <1>0, <2>1 DEF Tree, TreeInv
  <2>3. L0[t].lv = l /\ x \in Index
    BY <1>4, LabFacts DEF x
  <2> QED
    BY <1>4, <1>6, <2>1, <2>2, <2>3
<1> DEFINE n == Entry(TRUE, f, {"W", "U"}, FALSE)
<1>8. n.on /\ ~ n.ps /\ n.to = f /\ n.fl = {"W", "U"}
      /\ n \in [on : BOOLEAN, to : Nat, fl : SUBSET Flag, ps : BOOLEAN]
  BY <1>7 DEF Entry, Frame, Flag
<1>9. mem' = [mem EXCEPT ![f] = Cleared, ![t][x] = n]
  <2>1. TableFlags({"W", "U"}, call.fl) = {"W", "U"}
    BY <1>4 DEF TableFlags, Flag
  <2> QED
    BY <1>2, <2>1 DEF t, x, v, l
<1> HIDE DEF n
<1>10. /\ mem'[f] = Cleared /\ mem'[t][x] = n
       /\ \A g \in Frame : g # f /\ g # t => mem'[g] = mem[g]
       /\ \A g \in Frame, y \in Index : g # f /\ ~ (g = t /\ y = x) => mem'[g][y] = mem[g][y]
       /\ mem' \in [Frame -> [Index -> [on : BOOLEAN, to : Nat, fl : SUBSET Flag, ps : BOOLEAN]]]
  <2> DEFINE E == [on : BOOLEAN, to : Nat, fl : SUBSET Flag, ps : BOOLEAN]
  <2>1. mem \in [Frame -> [Index -> E]] /\ Cleared \in [Index -> E] /\ n \in E
    BY <1>1, <1>8, ClearedFacts DEF TypeOK
  <2> HIDE DEF E
  <2>2. [mem EXCEPT ![f] = Cleared, ![t][x] = n] \in [Frame -> [Index -> E]]
    BY <1>4, <1>7, <2>1
  <2>3. /\ mem'[f] = Cleared /\ mem'[t][x] = n
        /\ \A g \in Frame : g # f /\ g # t => mem'[g] = mem[g]
        /\ \A g \in Frame, y \in Index : g # f /\ ~ (g = t /\ y = x) => mem'[g][y] = mem[g][y]
    BY <1>4, <1>7, <1>9, <2>1
  <2> QED
    BY <1>9, <2>2, <2>3 DEF E
<1>l. PICK L : L = [L0 EXCEPT ![f] = Lab(pm, v, l - 1)]
  OBVIOUS
<1>11. /\ L \in [Frame -> Label] /\ L[f] = Lab(pm, v, l - 1) /\ L[f].lv = l - 1 /\ L[f].ow \in {0, pm}
       /\ L[f] = Kid(L0[t], x)
       /\ \A g \in Frame : g # f => L[g] = L0[g]
  <2>1. Lab(pm, v, l - 1) \in Label /\ Lab(pm, v, l - 1).lv = l - 1 /\ Lab(pm, v, l - 1).ow \in {0, pm}
    BY <1>4, LabFacts
  <2>2. Kid(L0[t], x) = Lab(pm, v, l - 1)
    BY <1>4, LabFacts DEF x
  <2> QED
    BY <1>6, <1>7, <1>l, <2>1, <2>2
\* No other table had the new label.
<1>12. \A g \in Frame : L0[g] # Lab(pm, v, l - 1)
  <2>1. SUFFICES ASSUME NEW g \in Frame, L0[g] = Lab(pm, v, l - 1) PROVE FALSE
    OBVIOUS
  <2>2. PICK h \in Frame : L0[h] = Lab(pm, v, l) /\ mem[h][page_index(v, l)].on
    BY <1>0, <1>1, <1>4, <2>1, ParentOf
  <2>3. h = t
    BY <1>0, <1>4, <1>7, <2>2 DEF Tree, Distinct
  <2> QED
    BY <1>3, <2>2, <2>3 DEF x
<1>13. TreeInv(L)'
  <2>1. \A g \in avail' : L[g].lv = 0
    BY <1>0, <1>1, <1>2, <1>11 DEF Tree, TreeInv, TypeOK
  <2>2. \A g \in Frame : g \in pagemaps' <=> L[g].lv = Levels
    BY <1>3, <1>4, <1>6, <1>7, <1>11
  <2>3. \A g \in pagemaps' : L[g] = Root(g)
    BY <1>3, <1>6, <1>7, <1>11
  <2>4. \A g \in Frame : L[g].lv > 0 => L[g].ow \in pagemaps' \cup {0}
    BY <1>0, <1>3, <1>4, <1>11 DEF Tree, TreeInv
  <2> QED
    BY <1>11, <2>1, <2>2, <2>3, <2>4 DEF TreeInv
<1>14. Distinct(L)'
  <2>2. SUFFICES ASSUME NEW g \in Frame, NEW h \in Frame, L[g].lv > 0, L[g] = L[h]
                 PROVE  g = h
    BY DEF Distinct
  <2>3. CASE g # f /\ h # f
    BY <1>0, <1>11, <2>2, <2>3 DEF Tree, Distinct
  <2>4. CASE g = f /\ h # f
    BY <1>11, <1>12, <2>2, <2>4
  <2>5. CASE g # f /\ h = f
    BY <1>11, <1>12, <2>2, <2>5
  <2> QED
    BY <2>3, <2>4, <2>5
<1>15. EntryInv(L)'
  <2>1. SUFFICES ASSUME NEW g \in Frame, NEW y \in Index
                 PROVE  /\ L[g].lv = 1 /\ mem'[g][y].on => ~ mem'[g][y].ps
                        /\ L[g].lv >= 2 /\ mem'[g][y].on /\ mem'[g][y].ps => L[g].lv = 2 /\ LARGE_PAGES'
                        /\ L[g].lv >= 2 /\ mem'[g][y].on /\ ~ mem'[g][y].ps =>
                             /\ mem'[g][y].to \in Frame
                             /\ L[mem'[g][y].to] = Kid(L[g], y)
                             /\ mem'[g][y].fl = {"W", "U"}
    BY DEF EntryInv
  <2>2. CASE g = f
    BY <1>10, <2>2, ClearedFacts
  <2>3. CASE g = t /\ y = x
    <3>1. mem'[g][y] = n /\ L[g] = L0[t]
      BY <1>7, <1>10, <1>11, <2>3
    <3> QED
      BY <1>7, <1>8, <1>11, <2>3, <3>1
  <2>4. CASE g # f /\ ~ (g = t /\ y = x)
    <3>1. L[g] = L0[g] /\ mem'[g][y] = mem[g][y]
      BY <1>10, <1>11, <2>4
    <3>2. /\ L[g].lv = 1 /\ mem[g][y].on => ~ mem[g][y].ps
          /\ L[g].lv >= 2 /\ mem[g][y].on /\ mem[g][y].ps => L[g].lv = 2 /\ LARGE_PAGES
          /\ L[g].lv >= 2 /\ mem[g][y].on /\ ~ mem[g][y].ps =>
                 mem[g][y].to \in Frame /\ L0[mem[g][y].to] = Kid(L[g], y) /\ mem[g][y].fl = {"W", "U"}
      BY <1>0, <3>1 DEF Tree, EntryInv
    <3>3. ASSUME L[g].lv >= 2, mem[g][y].on, ~ mem[g][y].ps
          PROVE  L[mem[g][y].to] = Kid(L[g], y)
      <4>1. Kid(L[g], y).lv = L[g].lv - 1
        BY <1>11, <3>3, KidFacts
      <4>2. mem[g][y].to # f
        BY <1>6, <1>7, <3>1, <3>2, <3>3, <4>1
      <4> QED
        BY <1>11, <3>2, <3>3, <4>2
    <3> QED
      BY <1>3, <3>1, <3>2, <3>3
  <2> QED
    BY <2>2, <2>3, <2>4
<1>16. ParentInv(L)'
  <2>1. SUFFICES ASSUME NEW g \in Frame, L[g].lv > 0, L[g].lv < Levels
                 PROVE  \E h \in Frame, y \in Index :
                          L[h].lv = L[g].lv + 1 /\ mem'[h][y].on /\ ~ mem'[h][y].ps /\ mem'[h][y].to = g
    BY DEF ParentInv
  <2>2. CASE g = f
    <3>1. L[t].lv = L[g].lv + 1 /\ mem'[t][x].on /\ ~ mem'[t][x].ps /\ mem'[t][x].to = g
      <4>1. L[t] = L0[t] /\ L[t].lv = l /\ L[g].lv = l - 1
        BY <1>4, <1>7, <1>11, <2>2
      <4>2. mem'[t][x].on /\ ~ mem'[t][x].ps /\ mem'[t][x].to = f
        BY <1>8, <1>10
      <4> QED
        BY <1>4, <2>2, <4>1, <4>2
    <3> QED
      BY <1>4, <1>7, <3>1
  <2>3. CASE g # f
    <3>1. L[g] = L0[g]
      BY <1>11, <2>3
    <3>2. PICK h \in Frame, y \in Index : L0[h].lv = L0[g].lv + 1 /\ mem[h][y].on /\ ~ mem[h][y].ps /\ mem[h][y].to = g
      BY <1>0, <2>1, <3>1 DEF Tree, ParentInv
    <3>3. h # f /\ ~ (h = t /\ y = x)
      BY <1>3, <1>6, <1>7, <2>1, <3>1, <3>2
    <3> QED
      BY <1>10, <1>11, <3>1, <3>2, <3>3
  <2> QED
    BY <2>2, <2>3
\* A top entry of the upper half is made while there is one tree only.
<1>17. Upper(v) /\ l = Levels => pagemaps = {t}
  <2>1. SUFFICES ASSUME Upper(v), l = Levels PROVE pagemaps = {t}
    OBVIOUS
  <2>2. t \in pagemaps
    BY <1>4, <1>6, <1>7, <2>1
  <2>3. kernel_pagemap \in pagemaps
    BY <1>1, <1>3 DEF InitInv
  <2>4. ~ mem[kernel_pagemap][page_index(v, Levels)].on
    <3>1. High(x) /\ x = page_index(v, Levels)
      BY <2>1 DEF Upper, High, x
    <3>2. mem[kernel_pagemap][x] = mem[t][x]
      BY <1>0, <1>7, <2>2, <2>3, <3>1 DEF Tree, SharedInv
    <3> QED
      BY <1>3, <3>1, <3>2
  <2> QED
    BY <1>5, <2>1, <2>2, <2>4
<1>18. SharedInv'
  <2>1. SUFFICES ASSUME NEW g \in pagemaps, NEW h \in pagemaps, NEW y \in Index, High(y)
                 PROVE  mem'[g][y] = mem'[h][y]
    BY <1>3 DEF SharedInv
  <2>2. g \in Frame /\ h \in Frame /\ g # f /\ h # f
    BY <1>6, <1>7
  <2>3. mem[g][y] = mem[h][y]
    BY <1>0, <2>1 DEF Tree, SharedInv
  <2>4. CASE ~ (g = t /\ y = x) /\ ~ (h = t /\ y = x)
    BY <1>10, <2>2, <2>3, <2>4
  <2>5. CASE (g = t \/ h = t) /\ y = x
    <3>1. t \in pagemaps /\ l = Levels
      BY <1>4, <1>6, <1>7, <2>5
    <3>2. Upper(v)
      BY <2>1, <2>5, <3>1 DEF Upper, High, x
    <3> QED
      BY <1>17, <3>1, <3>2
  <2> QED
    BY <2>4, <2>5
<1>19. WholeInv(L)'
  <2>1. {g \in Frame : L[g].lv > 0} \cup avail' = {g \in Frame : L0[g].lv > 0} \cup avail
    BY <1>2, <1>4, <1>7, <1>11
  <2> QED
    BY <1>0, <1>3, <2>1 DEF Tree, WholeInv
<1>20. MeansInv(L)'
  <2>1. SUFFICES ASSUME NEW qm \in pagemaps, NEW w \in Addr, NEW m \in 1 .. Levels, NEW g \in Frame, L[g] = Lab(qm, w, m)
                 PROVE  Tells(mem[g][page_index(w, m)], m, qm, w)'
    BY <1>3 DEF MeansInv
  <2>2. qm \in Frame /\ L[g].lv = m /\ page_index(w, m) \in Index
    BY <1>6, <2>1, LabFacts
  <2>3. CASE g = f
    <3>1. m = l - 1 /\ Lab(qm, w, l - 1) = Lab(pm, v, l - 1)
      BY <1>11, <2>1, <2>2, <2>3
    <3>2. /\ page_index(w, l) = x /\ (qm = pm \/ (Upper(v) /\ Upper(w)))
          /\ l < Levels => Lab(qm, w, l) = Lab(pm, v, l)
      BY <1>4, <2>2, <3>1, Upward DEF x
    <3>3. \E h \in Frame : L0[h] = Lab(qm, w, l) /\ mem[h][x] = mem[t][x]
      <4>1. CASE l < Levels
        BY <1>4, <3>2, <4>1
      <4>2. CASE l = Levels /\ qm = pm
        <5>1. Lab(qm, w, l) = Lab(pm, v, l)
          BY <1>4, <4>2, LabFacts
        <5> QED
          BY <1>4, <5>1
      <4>3. CASE l = Levels /\ Upper(v) /\ Upper(w)
        <5>1. qm = t /\ L0[qm] = Lab(qm, w, l)
          BY <1>6, <1>17, <2>2, <4>3, LabFacts
        <5> QED
          BY <1>4, <5>1
      <4> QED
        BY <1>4, <3>2, <4>1, <4>2, <4>3
    <3>4. flat[qm][w] = NoPage
      <4>1. PICK h \in Frame : L0[h] = Lab(qm, w, l) /\ mem[h][x] = mem[t][x]
        BY <3>3
      <4>2. Tells(mem[h][page_index(w, l)], l, qm, w)
        BY <1>0, <1>4, <4>1 DEF Tree, MeansInv
      <4> QED
        BY <1>3, <3>2, <4>1, <4>2 DEF Tells
    <3>5. ~ mem'[g][page_index(w, m)].on
      BY <1>10, <2>2, <2>3, ClearedFacts
    <3> QED
      BY <1>3, <3>4, <3>5 DEF Tells
  <2>4. CASE g = t /\ page_index(w, m) = x
    <3>1. mem'[g][page_index(w, m)] = n /\ m >= 2
      BY <1>4, <1>7, <1>10, <1>11, <2>2, <2>4
    <3> QED
      BY <1>8, <3>1 DEF Tells
  <2>5. CASE g # f /\ ~ (g = t /\ page_index(w, m) = x)
    <3>1. L0[g] = Lab(qm, w, m) /\ mem'[g][page_index(w, m)] = mem[g][page_index(w, m)]
      BY <1>10, <1>11, <2>1, <2>2, <2>5
    <3>2. Tells(mem[g][page_index(w, m)], m, qm, w)
      BY <1>0, <3>1 DEF Tree, MeansInv
    <3> QED
      BY <1>3, <3>1, <3>2 DEF Tells
  <2> QED
    BY <2>3, <2>4, <2>5
<1>21. Tree(L)'
  BY <1>13, <1>14, <1>15, <1>16, <1>18, <1>19, <1>20 DEF Tree
<1>22. ASSUME NEW qm \in pagemaps, NEW m \in l .. Levels, NEW g \in Frame,
              qm = pm \/ Upper(v), L[g] = Lab(qm, v, m)
       PROVE  mem'[g][page_index(v, m)].on /\ ~ mem'[g][page_index(v, m)].ps
  <2>1. qm \in Frame /\ m \in 1 .. Levels /\ L[g].lv = m /\ page_index(v, m) \in Index
    <3>1. qm \in Frame /\ m \in 1 .. Levels
      BY <1>4, <1>6
    <3> QED
      BY <1>4, <1>22, <3>1, LabFacts
  <2>2. g # f /\ L0[g] = Lab(qm, v, m)
    BY <1>4, <1>11, <1>22, <2>1
  <2>3. CASE m = l
    <3>1. g = t
      <4>1. (l < Levels \/ qm = pm) => t = g
        BY <1>0, <1>1, <1>4, <1>22, <2>1, <2>2, <2>3, SameSlot
      <4>2. l = Levels => g = qm
        BY <1>0, <1>1, <1>4, <1>22, <2>1, <2>2, <2>3, SameSlot
      <4> QED
        BY <1>4, <1>17, <1>22, <4>1, <4>2
    <3> QED
      BY <1>8, <1>10, <2>3, <3>1 DEF x
  <2>4. CASE m # l
    <3>1. m \in l + 1 .. Levels /\ g # t
      <4>1. m \in l + 1 .. Levels
        BY <1>4, <2>4
      <4>2. L0[g].lv = m
        BY <1>11, <2>1, <2>2
      <4> QED
        BY <1>7, <2>4, <4>1, <4>2
    <3>2. mem[g][page_index(v, m)].on /\ ~ mem[g][page_index(v, m)].ps
      BY <1>5, <1>22, <2>2, <3>1
    <3> QED
      BY <1>10, <2>2, <3>1, <3>2
  <2> QED
    BY <2>3, <2>4
<1>23. WalkInv(L)'
  <2>1. Leaf' = Leaf
    BY <1>3 DEF Leaf
  <2>2. call.op # "vmap_large" => Small(L, call.pm, call.v)'
    <3>1. SUFFICES ASSUME call.op # "vmap_large", NEW g \in Frame, L[g] = Lab(pm, v, 2)
                   PROVE  ~ (mem'[g][page_index(v, 2)].on /\ mem'[g][page_index(v, 2)].ps)
      BY <1>3 DEF Small, pm, v
    <3>2. page_index(v, 2) \in Index
      <4>1. 2 \in 1 .. Levels
        BY <1>4
      <4> QED
        BY <1>4, <4>1, LabFacts
    <3>3. CASE g = f
      BY <1>10, <3>2, <3>3, ClearedFacts
    <3>4. CASE g = t /\ page_index(v, 2) = x
      BY <1>8, <1>10, <3>4
    <3>5. CASE g # f /\ ~ (g = t /\ page_index(v, 2) = x)
      BY <1>5, <1>10, <1>11, <3>1, <3>2, <3>5 DEF Small
    <3> QED
      BY <3>3, <3>4, <3>5
  <2>3. /\ table' \in Frame /\ L[table'] = Lab(call.pm, call.v, level')
        /\ level' \in Leaf .. Levels /\ level' + 1 = level /\ level' # Levels
    BY <1>2, <1>3, <1>4, <1>7, <1>11 DEF pm, v, l
  <2>4. \A qm \in pagemaps, m \in level' + 1 .. Levels, g \in Frame :
             (qm = call.pm \/ Upper(call.v)) /\ L[g] = Lab(qm, call.v, m) =>
                 mem'[g][page_index(call.v, m)].on /\ ~ mem'[g][page_index(call.v, m)].ps
    BY <1>22, <2>3 DEF pm, v, l
  <2> QED
    BY <1>3, <2>1, <2>2, <2>3, <2>4 DEF WalkInv
<1>24. LargeInv(L)'
  <2>1. SUFFICES ASSUME range <= Len(Boot), NEW g \in Frame, NEW y \in Index, L[g].lv = 2, mem'[g][y].on, mem'[g][y].ps
                 PROVE  Mapped(Sub(L[g].bs, y))'
    BY <1>3 DEF LargeInv
  <2>2. g # f /\ ~ (g = t /\ y = x)
    BY <1>8, <1>10, <2>1, ClearedFacts
  <2>3. Mapped(Sub(L[g].bs, y))
    BY <1>0, <1>10, <1>11, <2>1, <2>2 DEF LargeInv
  <2> QED
    BY <1>3, <2>3 DEF Mapped, Done
<1>25. TypeOK'
  <2>1. table' \in Frame /\ level' \in 0 .. Levels
    BY <1>2, <1>3, <1>4, <1>7 DEF l
  <2> QED
    BY <1>1, <1>2, <1>3, <1>10, <2>1 DEF TypeOK
<1>26. CallInv' /\ InitInv' /\ TlbInv'
  <2>1. CallInv'
    BY <1>1, <1>3 DEF CallInv
  <2>2. InitInv'
    BY <1>1, <1>3 DEF InitInv
  <2>3. TlbInv'
    BY <1>1, <1>3 DEF TlbInv
  <2> QED
    BY <2>1, <2>2, <2>3
<1> QED
  BY <1>21, <1>23, <1>24, <1>25, <1>26 DEF IInv

\* A small page's entry is set or cleared: it means the address of the call alone.
LEMMA SmallLeafStep ==
    ASSUME IInv, pc \in {"walk", "unwalk"}, Leaf = 1, level = 1,
           NEW e \in [on : BOOLEAN, to : Nat, fl : SUBSET Flag, ps : BOOLEAN], ~ e.ps,
           NEW m \in [on : BOOLEAN, to : Nat, fl : SUBSET Flag],
           e.on => m = [on |-> TRUE, to |-> e.to, fl |-> e.fl], ~ e.on => m = NoPage,
           mem' = [mem EXCEPT ![table][page_index(call.v, 1)] = e],
           flat' = [pm \in pagemaps |-> [v \in Addr |->
                      IF v = call.v /\ (pm = call.pm \/ Upper(v)) THEN m ELSE flat[pm][v]]],
           pc' = "invlpg", UNCHANGED <<avail, roots, cr3, tlb, walk, loop>>
    PROVE  IInv'
<1>0. PICK L : Tree(L) /\ WalkInv(L) /\ LargeInv(L)
  BY DEF IInv
<1>1. TypeOK /\ CallInv /\ InitInv /\ TlbInv
  BY DEF IInv
<1>c. call.op # "vmap_large"
  BY DEF Leaf
<1> DEFINE pm == call.pm
           v == call.v
           t == table
           x == page_index(v, 1)
<1>2. /\ Levels \in Nat /\ Levels >= 2 /\ 1 \in 1 .. Levels /\ t \in Frame /\ L[t] = Lab(pm, v, 1)
      /\ pm \in pagemaps /\ v \in Addr /\ pm \in Frame
      /\ \A qm \in pagemaps, l \in 2 .. Levels, g \in Frame :
           (qm = pm \/ Upper(v)) /\ L[g] = Lab(qm, v, l) =>
               mem[g][page_index(v, l)].on /\ ~ mem[g][page_index(v, l)].ps
  <2>1. pm \in Frame
    BY <1>0, <1>1, WalkFacts DEF TypeOK
  <2>2. level + 1 = 2
    OBVIOUS
  <2> QED
    BY <1>0, <2>1, <2>2, WalkFacts
<1>3. /\ L \in [Frame -> Label] /\ pagemaps \subseteq Frame
      /\ \A g \in Frame : L[g].lv = Levels <=> g \in pagemaps
      /\ \A g \in Frame : L[g].lv \in Int
  BY <1>0, <1>1, TreeFacts
<1>4. /\ LARGE_PAGES' = LARGE_PAGES /\ pagemaps' = pagemaps /\ kernel_pagemap' = kernel_pagemap
      /\ call' = call /\ table' = table /\ level' = level /\ range' = range /\ offset' = offset
  BY DEF roots, walk, loop
<1>5. x \in Index /\ L[t].lv = 1 /\ t \notin pagemaps
  BY <1>2, <1>3, LabFacts
<1>6. mem' = [mem EXCEPT ![t][x] = e]
  OBVIOUS
<1>7. flat' = [qm \in pagemaps |-> [w \in Addr |->
                 IF w = v /\ (qm = pm \/ Upper(w)) THEN m ELSE flat[qm][w]]]
  OBVIOUS
<1> HIDE DEF pm, v, t, x
<1>8. /\ mem'[t][x] = e
      /\ \A g \in Frame : g # t => mem'[g] = mem[g]
      /\ \A g \in Frame, y \in Index : ~ (g = t /\ y = x) => mem'[g][y] = mem[g][y]
      /\ mem' \in [Frame -> [Index -> [on : BOOLEAN, to : Nat, fl : SUBSET Flag, ps : BOOLEAN]]]
  <2> DEFINE E == [on : BOOLEAN, to : Nat, fl : SUBSET Flag, ps : BOOLEAN]
  <2>1. mem \in [Frame -> [Index -> E]] /\ e \in E
    BY <1>1 DEF TypeOK
  <2> HIDE DEF E
  <2>2. mem' \in [Frame -> [Index -> E]]
    <3>1. [mem[t] EXCEPT ![x] = e] \in [Index -> E]
      BY <1>2, <1>5, <2>1
    <3>2. mem' = [mem EXCEPT ![t] = [mem[t] EXCEPT ![x] = e]]
      BY <1>6
    <3> QED
      BY <1>2, <2>1, <3>1, <3>2
  <2>3. /\ mem'[t][x] = e
        /\ \A g \in Frame : g # t => mem'[g] = mem[g]
        /\ \A g \in Frame, y \in Index : ~ (g = t /\ y = x) => mem'[g][y] = mem[g][y]
    BY <1>2, <1>5, <1>6, <2>1
  <2> QED
    BY <2>2, <2>3 DEF E
<1>9. TreeInv(L)' /\ Distinct(L)'
  BY <1>0, <1>4 DEF Tree, TreeInv, Distinct
<1>10. EntryInv(L)'
  <2>1. ASSUME NEW g \in Frame, NEW y \in Index
        PROVE  mem'[g][y] = mem[g][y] \/ (L[g].lv = 1 /\ mem'[g][y] = e)
    BY <1>5, <1>8
  <2>2. SUFFICES ASSUME NEW g \in Frame, NEW y \in Index
                 PROVE  /\ L[g].lv = 1 /\ mem'[g][y].on => ~ mem'[g][y].ps
                        /\ L[g].lv >= 2 /\ mem'[g][y].on /\ mem'[g][y].ps => L[g].lv = 2 /\ LARGE_PAGES
                        /\ L[g].lv >= 2 /\ mem'[g][y].on /\ ~ mem'[g][y].ps =>
                             /\ mem'[g][y].to \in Frame
                             /\ L[mem'[g][y].to] = Kid(L[g], y)
                             /\ mem'[g][y].fl = {"W", "U"}
    BY <1>4 DEF EntryInv
  <2>3. CASE mem'[g][y] = mem[g][y]
    BY <1>0, <2>3 DEF Tree, EntryInv
  <2>4. CASE L[g].lv = 1 /\ mem'[g][y] = e
    BY <2>4
  <2> QED
    BY <2>1, <2>3, <2>4
<1>11. ParentInv(L)'
  <2>1. SUFFICES ASSUME NEW g \in Frame, L[g].lv > 0, L[g].lv < Levels
                 PROVE  \E h \in Frame, y \in Index :
                          L[h].lv = L[g].lv + 1 /\ mem'[h][y].on /\ ~ mem'[h][y].ps /\ mem'[h][y].to = g
    BY DEF ParentInv
  <2>2. PICK h \in Frame, y \in Index : L[h].lv = L[g].lv + 1 /\ mem[h][y].on /\ ~ mem[h][y].ps /\ mem[h][y].to = g
    BY <1>0, <2>1 DEF Tree, ParentInv
  <2>3. h # t
    BY <1>3, <1>5, <2>1, <2>2
  <2> QED
    BY <1>8, <2>2, <2>3
<1>12. SharedInv'
  BY <1>0, <1>3, <1>4, <1>5, <1>8 DEF Tree, SharedInv
<1>13. WholeInv(L)'
  BY <1>0, <1>4 DEF Tree, WholeInv
<1>14. MeansInv(L)'
  <2>1. SUFFICES ASSUME NEW qm \in pagemaps, NEW w \in Addr, NEW l \in 1 .. Levels, NEW g \in Frame, L[g] = Lab(qm, w, l)
                 PROVE  Tells(mem[g][page_index(w, l)], l, qm, w)'
    BY <1>4 DEF MeansInv
  <2>2. qm \in Frame /\ L[g].lv = l /\ page_index(w, l) \in Index
    BY <1>3, <2>1, LabFacts
  <2>3. CASE g = t /\ page_index(w, l) = x
    <3>1. l = 1
      BY <1>5, <2>2, <2>3
    <3>2. Block(v, 1 - 1) = Block(w, 1 - 1) /\ (1 < Levels => pm = qm \/ (Upper(v) /\ Upper(w)))
      BY <1>2, <2>1, <2>2, <2>3, <3>1, SameEntry DEF x
    <3>3. w = v /\ (qm = pm \/ Upper(w))
      BY <1>2, <3>2, BlockFacts
    <3>4. flat'[qm][w] = m
      BY <1>7, <3>3
    <3> QED
      BY <1>8, <2>3, <3>1, <3>4 DEF Tells
  <2>4. CASE ~ (g = t /\ page_index(w, l) = x)
    <3>1. mem'[g][page_index(w, l)] = mem[g][page_index(w, l)]
      BY <1>8, <2>2, <2>4
    <3>2. Tells(mem[g][page_index(w, l)], l, qm, w)
      BY <1>0, <2>1 DEF Tree, MeansInv
    <3>3. CASE ~ (w = v /\ (qm = pm \/ Upper(w)))
      <4>1. flat'[qm][w] = flat[qm][w]
        BY <1>7, <3>3
      <4> QED
        BY <3>1, <3>2, <4>1 DEF Tells
    <3>4. CASE w = v /\ (qm = pm \/ Upper(w))
      <4>1. l # 1
        <5>1. SUFFICES ASSUME l = 1 PROVE FALSE
          OBVIOUS
        <5>2. L[g] = Lab(qm, v, 1) /\ (qm = pm \/ Upper(v)) /\ 1 < Levels
          BY <1>2, <2>1, <3>4, <5>1
        <5>3. t = g
          BY <1>0, <1>1, <1>2, <5>2, SameSlot
        <5> QED
          BY <2>4, <3>4, <5>1, <5>3 DEF x
      <4>2. mem[g][page_index(v, l)].on /\ ~ mem[g][page_index(v, l)].ps
        <5>1. l \in 2 .. Levels
          BY <1>2, <4>1
        <5> QED
          BY <1>2, <2>1, <3>4, <5>1
      <4> QED
        BY <3>1, <3>4, <4>1, <4>2 DEF Tells
    <3> QED
      BY <3>3, <3>4
  <2> QED
    BY <2>3, <2>4
<1>15. Tree(L)'
  BY <1>9, <1>10, <1>11, <1>12, <1>13, <1>14 DEF Tree
<1>16. WalkInv(L)'
  BY DEF WalkInv
<1>17. LargeInv(L)'
  <2>1. Done' = Done
    BY <1>c, <1>4 DEF Done
  <2> HIDE DEF Done
  <2>2. \A g \in Frame : L[g].lv = 2 => mem'[g] = mem[g]
    BY <1>5, <1>8
  <2> QED
    BY <1>0, <1>4, <2>1, <2>2 DEF LargeInv, Mapped
<1>18. TypeOK'
  <2>1. flat' \in [pagemaps -> [Addr -> [on : BOOLEAN, to : Nat, fl : SUBSET Flag]]]
    <3> DEFINE E == [on : BOOLEAN, to : Nat, fl : SUBSET Flag]
    <3>1. flat \in [pagemaps -> [Addr -> E]] /\ m \in E
      BY <1>1 DEF TypeOK
    <3> HIDE DEF E
    <3>2. flat' \in [pagemaps -> [Addr -> E]]
      BY <1>7, <3>1
    <3> QED
      BY <3>2 DEF E
  <2> QED
    BY <1>1, <1>4, <1>8, <2>1 DEF TypeOK
<1>19. CallInv' /\ InitInv'
  <2>1. CallInv'
    BY <1>1, <1>4 DEF CallInv
  <2>2. InitInv'
    BY <1>1, <1>4 DEF InitInv
  <2> QED
    BY <2>1, <2>2
<1>20. TlbInv'
  <2>1. Covered' = {v}
    BY <1>c, <1>4 DEF Covered, Leaf, v
  <2>2. tlb # NULL /\ tlb.v # v => flat'[cr3][tlb.v] = flat[cr3][tlb.v]
    BY <1>1, <1>7 DEF TlbInv
  <2> QED
    BY <1>1, <1>4, <2>1, <2>2 DEF TlbInv
<1> QED
  BY <1>15, <1>16, <1>17, <1>18, <1>19, <1>20 DEF IInv

LEMMA ClearLeafStep ==
    ASSUME IInv, ClearLeaf
    PROVE  IInv'
<1>1. call.op = "vunmap"
  BY DEF IInv, CallInv, ClearLeaf
<1>2. Leaf = 1 /\ Covered = {call.v}
  BY <1>1 DEF Leaf, Covered
<1>3. /\ pc \in {"walk", "unwalk"} /\ level = 1 /\ pc' = "invlpg"
      /\ mem' = [mem EXCEPT ![table][page_index(call.v, 1)] = Empty]
      /\ UNCHANGED <<avail, roots, cr3, tlb, walk, loop>>
  BY DEF ClearLeaf
<1>4. flat' = [pm \in pagemaps |-> [v \in Addr |->
                 IF v = call.v /\ (pm = call.pm \/ Upper(v)) THEN NoPage ELSE flat[pm][v]]]
  BY <1>2 DEF ClearLeaf, Describe
<1>5. NoPage \in [on : BOOLEAN, to : Nat, fl : SUBSET Flag]
  BY DEF NoPage
<1> QED
  BY <1>2, <1>3, <1>4, <1>5, ClearedFacts, SmallLeafStep

\* A large page's entry is set: the table that may have been there is cut off.
LEMMA LargeLeafStep ==
    ASSUME IInv, SetLeaf, Leaf = 2
    PROVE  IInv'
<1>0. PICK L0 : Tree(L0) /\ WalkInv(L0) /\ LargeInv(L0)
  BY DEF IInv
<1>1. TypeOK /\ CallInv /\ InitInv /\ TlbInv
  BY DEF IInv
<1>c. call.op = "vmap_large" /\ pc = "walk" /\ pc' = "invlpg" /\ level = 2
  <2>1. call.op = "vmap_large"
    BY DEF Leaf
  <2>2. pc = "walk" /\ pc' = "invlpg" /\ level = 2
    BY DEF SetLeaf
  <2> QED
    BY <2>1, <2>2
<1> DEFINE pm == call.pm
           v == call.v
           t == table
           x == page_index(v, 2)
           b == Block(v, 1)
           e == Entry(TRUE, call.p, call.fl, TRUE)
<1>2. /\ Levels \in Nat /\ Levels >= 2 /\ 1 \in 1 .. Levels /\ 2 \in 1 .. Levels /\ 2 \in 2 .. Levels
      /\ Fan \in Nat /\ Fan >= 2
      /\ t \in Frame /\ L0[t] = Lab(pm, v, 2)
      /\ pm \in pagemaps /\ v \in Addr /\ pm \in Frame /\ call.p \in Nat /\ call.fl \in SUBSET Flag
      /\ \A qm \in pagemaps, l \in 3 .. Levels, g \in Frame :
           (qm = pm \/ Upper(v)) /\ L0[g] = Lab(qm, v, l) =>
               mem[g][page_index(v, l)].on /\ ~ mem[g][page_index(v, l)].ps
  <2>1. pm \in Frame
    BY <1>0, <1>1, <1>c, WalkFacts DEF TypeOK
  <2>2. level + 1 = 3
    BY <1>c
  <2> QED
    BY <1>0, <1>c, <2>1, <2>2, WalkFacts, FanFacts
<1>3. /\ LARGE_PAGES /\ range <= Len(Boot) /\ v % Fan = 0
      /\ pagemaps = {pm} /\ v = Boot[range].v + offset /\ LargeFits(range, offset)
  <2>1. LARGE_PAGES /\ range <= Len(Boot) /\ v % Fan = 0
    BY <1>1, <1>c DEF CallInv
  <2>2. pagemaps = {kernel_pagemap} /\ v = Boot[range].v + offset /\ LargeFits(range, offset)
    BY <1>1, <1>c, <2>1 DEF InitInv
  <2> QED
    BY <1>2, <2>1, <2>2
<1>4. /\ LARGE_PAGES' = LARGE_PAGES /\ pagemaps' = pagemaps /\ kernel_pagemap' = kernel_pagemap
      /\ call' = call /\ table' = table /\ level' = level /\ range' = range /\ offset' = offset
      /\ avail' = avail /\ cr3' = cr3 /\ tlb' = tlb
  BY DEF SetLeaf, roots, walk, loop
<1>5. /\ L0 \in [Frame -> Label] /\ pagemaps \subseteq Frame
      /\ \A g \in Frame : L0[g].lv = Levels <=> g \in pagemaps
      /\ \A g \in Frame : L0[g].lv \in Int /\ L0[g] \in Label
      /\ \A g \in pagemaps : L0[g] = Root(g)
  BY <1>0, <1>1, TreeFacts
<1>6. /\ x \in Index /\ L0[t].lv = 2 /\ L0[t].bs = Block(v, 2) /\ Kid(L0[t], x) = Lab(pm, v, 1)
      /\ Lab(pm, v, 1).lv = 1 /\ Lab(pm, v, 1) \in Label
  BY <1>2, LabFacts
<1>7. mem' = [mem EXCEPT ![t][x] = e] /\ e.on /\ e.ps /\ e.to = call.p /\ e.fl = call.fl
      /\ e \in [on : BOOLEAN, to : Nat, fl : SUBSET Flag, ps : BOOLEAN]
  BY <1>2, <1>c DEF SetLeaf, Entry
<1>8. /\ v \in Nat /\ b \in Nat /\ Sub(b, 0) = v /\ b = Sub(Block(v, 2), x)
      /\ \A w \in Addr : w \in Nat /\ (w \in v .. v + Fan - 1 <=> Block(w, 1) = b)
      /\ \A w \in Addr : Block(w, 1) = b => w % Fan = w - v
  <2>1. v \in Nat /\ 0 \in Index /\ 1 \in 0 .. Levels
    BY <1>2, BlockFacts DEF Index
  <2>2. b \in Nat /\ Sub(b, 0) \in Nat
    BY <2>1, BlockFacts, SubFacts
  <2>3. v % Fan = v - Sub(b, 0)
    BY <2>1, LargeBlock
  <2>4. Sub(b, 0) = v
    BY <1>3, <2>1, <2>2, <2>3
  <2>5. Block(v, 2 - 1) = Sub(Block(v, 2), x)
    BY <1>2, <2>1, BlockFacts
  <2>6. \A w \in Addr : w \in Nat /\ (w \in v .. v + Fan - 1 <=> Block(w, 1) = b)
    BY <1>3, <2>1, LargeBlock, BlockFacts
  <2>7. \A w \in Addr : Block(w, 1) = b => w % Fan = w - v
    BY <2>4, LargeBlock, BlockFacts
  <2> QED
    BY <2>1, <2>2, <2>4, <2>5, <2>6, <2>7
<1>9. flat' = [qm \in pagemaps |-> [w \in Addr |->
                 IF w \in v .. v + Fan - 1 /\ (qm = pm \/ Upper(w))
                 THEN [on |-> TRUE, to |-> call.p + (w - v), fl |-> call.fl] ELSE flat[qm][w]]]
  BY DEF SetLeaf, Describe, Covered
<1> HIDE DEF pm, v, t, x, b, e
<1>10. /\ mem'[t][x] = e
       /\ \A g \in Frame, y \in Index : ~ (g = t /\ y = x) => mem'[g][y] = mem[g][y]
       /\ mem' \in [Frame -> [Index -> [on : BOOLEAN, to : Nat, fl : SUBSET Flag, ps : BOOLEAN]]]
  <2> DEFINE E == [on : BOOLEAN, to : Nat, fl : SUBSET Flag, ps : BOOLEAN]
  <2>1. mem \in [Frame -> [Index -> E]] /\ e \in E
    BY <1>1, <1>7 DEF TypeOK
  <2> HIDE DEF E
  <2>2. mem' \in [Frame -> [Index -> E]]
    <3>1. [mem[t] EXCEPT ![x] = e] \in [Index -> E]
      BY <1>2, <1>6, <2>1
    <3>2. mem' = [mem EXCEPT ![t] = [mem[t] EXCEPT ![x] = e]]
      BY <1>7
    <3> QED
      BY <1>2, <2>1, <3>1, <3>2
  <2>3. /\ mem'[t][x] = e
        /\ \A g \in Frame, y \in Index : ~ (g = t /\ y = x) => mem'[g][y] = mem[g][y]
    BY <1>2, <1>6, <1>7, <2>1
  <2> QED
    BY <2>2, <2>3 DEF E
<1>l. PICK L : L = [g \in Frame |-> IF L0[g] = Lab(pm, v, 1) THEN [lv |-> 0, bs |-> 0, ow |-> 0] ELSE L0[g]]
  OBVIOUS
<1>11. /\ L \in [Frame -> Label]
       /\ \A g \in Frame : L0[g] # Lab(pm, v, 1) => L[g] = L0[g]
       /\ \A g \in Frame : L0[g] = Lab(pm, v, 1) => L[g].lv = 0
       /\ \A g \in Frame : L[g].lv > 0 => L[g] = L0[g] /\ L0[g] # Lab(pm, v, 1)
       /\ \A g \in Frame : L0[g].lv > 1 => L[g] = L0[g]
  <2>1. [lv |-> 0, bs |-> 0, ow |-> 0] \in Label
    BY <1>2, FanFacts DEF Label
  <2> QED
    BY <1>5, <1>6, <1>l, <2>1
<1>12. TreeInv(L)'
  <2>1. \A g \in avail : L[g].lv = 0
    <3>1. \A g \in avail : g \in Frame /\ L0[g].lv = 0
      BY <1>0, <1>1 DEF Tree, TreeInv, TypeOK
    <3> QED
      BY <1>11, <3>1
  <2>2. \A g \in Frame : g \in pagemaps <=> L[g].lv = Levels
    BY <1>2, <1>5, <1>6, <1>11
  <2>3. \A g \in pagemaps : L[g] = Root(g)
    BY <1>2, <1>5, <1>11
  <2>4. \A g \in Frame : L[g].lv > 0 => L[g].ow \in pagemaps \cup {0}
    BY <1>0, <1>11 DEF Tree, TreeInv
  <2> QED
    BY <1>4, <1>11, <2>1, <2>2, <2>3, <2>4 DEF TreeInv
<1>13. Distinct(L)'
  BY <1>0, <1>11 DEF Tree, Distinct
\* The entry was the only one that led to the table cut off.
<1>14. ASSUME NEW g \in Frame, NEW y \in Index, L0[g].lv >= 2, Kid(L0[g], y) = Lab(pm, v, 1)
       PROVE  g = t /\ y = x
  <2>1. y = x /\ (L0[g] = L0[t] \/ (L0[g].lv = Levels /\ L0[t].lv = Levels))
    BY <1>2, <1>5, <1>6, <1>14, KidFacts
  <2>2. L0[g] = L0[t] => g = t
    BY <1>0, <1>2, <1>6 DEF Tree, Distinct
  <2>3. L0[g].lv = Levels /\ L0[t].lv = Levels => g = t
    BY <1>2, <1>3, <1>5
  <2> QED
    BY <2>1, <2>2, <2>3
<1>15. EntryInv(L)'
  <2>1. SUFFICES ASSUME NEW g \in Frame, NEW y \in Index
                 PROVE  /\ L[g].lv = 1 /\ mem'[g][y].on => ~ mem'[g][y].ps
                        /\ L[g].lv >= 2 /\ mem'[g][y].on /\ mem'[g][y].ps => L[g].lv = 2 /\ LARGE_PAGES
                        /\ L[g].lv >= 2 /\ mem'[g][y].on /\ ~ mem'[g][y].ps =>
                             /\ mem'[g][y].to \in Frame
                             /\ L[mem'[g][y].to] = Kid(L[g], y)
                             /\ mem'[g][y].fl = {"W", "U"}
    BY <1>4 DEF EntryInv
  <2>2. CASE g = t /\ y = x
    <3>1. L[g].lv = 2 /\ mem'[g][y].ps
      BY <1>6, <1>7, <1>10, <1>11, <2>2
    <3> QED
      BY <1>3, <3>1
  <2>3. CASE ~ (g = t /\ y = x)
    <3>1. mem'[g][y] = mem[g][y]
      BY <1>10, <2>3
    <3>2. CASE L[g].lv > 0
      <4>1. L[g] = L0[g]
        BY <1>11, <3>2
      <4>2. /\ L[g].lv = 1 /\ mem[g][y].on => ~ mem[g][y].ps
            /\ L[g].lv >= 2 /\ mem[g][y].on /\ mem[g][y].ps => L[g].lv = 2 /\ LARGE_PAGES
            /\ L[g].lv >= 2 /\ mem[g][y].on /\ ~ mem[g][y].ps =>
                   mem[g][y].to \in Frame /\ L0[mem[g][y].to] = Kid(L[g], y) /\ mem[g][y].fl = {"W", "U"}
        BY <1>0, <4>1 DEF Tree, EntryInv
      <4>3. L[g].lv >= 2 => Kid(L[g], y) # Lab(pm, v, 1)
        BY <1>14, <2>3, <4>1
      <4> QED
        BY <1>11, <3>1, <4>2, <4>3
    <3>3. CASE ~ (L[g].lv > 0)
      <4>1. L[g].lv # 1 /\ ~ (L[g].lv >= 2)
        BY <1>11, <3>3 DEF Label
      <4> QED
        BY <4>1
    <3> QED
      BY <3>2, <3>3
  <2> QED
    BY <2>2, <2>3
<1>16. ParentInv(L)'
  <2>1. SUFFICES ASSUME NEW g \in Frame, L[g].lv > 0, L[g].lv < Levels
                 PROVE  \E h \in Frame, y \in Index :
                          L[h].lv = L[g].lv + 1 /\ mem'[h][y].on /\ ~ mem'[h][y].ps /\ mem'[h][y].to = g
    BY DEF ParentInv
  <2>2. L[g] = L0[g] /\ L0[g] # Lab(pm, v, 1) /\ L0[g].lv \in Int
    BY <1>5, <1>11, <2>1
  <2>3. PICK h \in Frame, y \in Index : L0[h].lv = L0[g].lv + 1 /\ mem[h][y].on /\ ~ mem[h][y].ps /\ mem[h][y].to = g
    BY <1>0, <2>1, <2>2 DEF Tree, ParentInv
  <2>4. L0[h].lv >= 2 /\ L[h] = L0[h]
    BY <1>5, <1>11, <2>1, <2>2, <2>3
  <2>5. L0[g] = Kid(L0[h], y)
    BY <1>0, <2>3, <2>4 DEF Tree, EntryInv
  <2>6. ~ (h = t /\ y = x)
    BY <1>6, <2>2, <2>5
  <2> QED
    BY <1>10, <2>2, <2>3, <2>4, <2>6
<1>17. SharedInv' /\ WholeInv(L)'
  BY <1>3, <1>4 DEF SharedInv, WholeInv
<1>18. MeansInv(L)'
  <2>1. SUFFICES ASSUME NEW qm \in pagemaps, NEW w \in Addr, NEW l \in 1 .. Levels, NEW g \in Frame, L[g] = Lab(qm, w, l)
                 PROVE  Tells(mem[g][page_index(w, l)], l, qm, w)'
    BY <1>4 DEF MeansInv
  <2>2. qm \in Frame /\ qm = pm /\ L[g].lv = l /\ page_index(w, l) \in Index
    <3>1. qm \in Frame /\ qm = pm
      BY <1>3, <1>5
    <3> QED
      BY <2>1, <3>1, LabFacts
  <2>3. L0[g] = Lab(pm, w, l) /\ L0[g] # Lab(pm, v, 1) /\ L0[g].lv = l
    BY <1>2, <1>11, <2>1, <2>2
  <2>4. CASE g = t /\ page_index(w, l) = x
    <3>1. l = 2
      BY <1>6, <2>3, <2>4
    <3>2. Block(v, 2 - 1) = Block(w, 2 - 1)
      BY <1>2, <2>3, <2>4, <3>1, SameEntry DEF x
    <3>3. Block(w, 1) = b
      BY <3>2 DEF b
    <3>4. w \in v .. v + Fan - 1 /\ w % Fan = w - v
      BY <1>8, <3>3
    <3>5. flat'[qm][w] = [on |-> TRUE, to |-> call.p + (w - v), fl |-> call.fl]
      BY <1>9, <2>2, <3>4
    <3>6. mem'[g][page_index(w, l)] = e
      BY <1>10, <2>4
    <3>7. flat'[qm][w] = [on |-> TRUE, to |-> e.to + (w % Fan), fl |-> e.fl]
      BY <1>7, <3>4, <3>5
    <3>8. e.on /\ e.ps /\ l # 1 /\ mem'[g][page_index(w, l)].on
      BY <1>7, <3>1, <3>6
    <3> DEFINE r == [on |-> TRUE, to |-> mem'[g][page_index(w, l)].to + (w % Fan), fl |-> mem'[g][page_index(w, l)].fl]
    <3>9. flat'[qm][w] = r
      BY <3>6, <3>7
    <3> HIDE DEF r
    <3>10. /\ ~ mem'[g][page_index(w, l)].on => flat'[qm][w] = NoPage
           /\ mem'[g][page_index(w, l)].on /\ l = 1 =>
                flat'[qm][w] = [on |-> TRUE, to |-> mem'[g][page_index(w, l)].to, fl |-> mem'[g][page_index(w, l)].fl]
           /\ mem'[g][page_index(w, l)].on /\ l = 2 /\ mem'[g][page_index(w, l)].ps => flat'[qm][w] = r
      BY <3>8, <3>9, Zenon
    <3> QED
      BY <3>10 DEF Tells, r
  <2>5. CASE ~ (g = t /\ page_index(w, l) = x)
    <3>1. mem'[g][page_index(w, l)] = mem[g][page_index(w, l)]
      BY <1>10, <2>2, <2>5
    <3>2. Tells(mem[g][page_index(w, l)], l, qm, w)
      BY <1>0, <2>2, <2>3 DEF Tree, MeansInv
    <3>3. CASE w \notin v .. v + Fan - 1
      <4>1. flat'[qm][w] = flat[qm][w]
        BY <1>9, <3>3
      <4> QED
        BY <3>1, <3>2, <4>1 DEF Tells
    <3>4. CASE w \in v .. v + Fan - 1
      <4>1. Block(v, 1) = Block(w, 1)
        BY <1>8, <3>4 DEF b
      <4>2. /\ Lab(pm, v, l) = Lab(pm, w, l)
            /\ l >= 2 => page_index(v, l) = page_index(w, l)
        <5>1. /\ \A j \in 1 .. Levels : Lab(pm, v, j) = Lab(pm, w, j)
              /\ \A j \in 2 .. Levels : page_index(v, j) = page_index(w, j)
          BY <1>2, <4>1, SameTables
        <5>2. l >= 2 => l \in 2 .. Levels
          OBVIOUS
        <5> QED
          BY <5>1, <5>2
      <4>3. l # 1
        BY <2>3, <4>2
      <4>4. l # 2
        <5>1. SUFFICES ASSUME l = 2 PROVE FALSE
          OBVIOUS
        <5>2. L0[g] = L0[t] /\ page_index(w, l) = x
          BY <1>2, <2>3, <4>2, <5>1 DEF x
        <5>3. g = t
          BY <1>0, <1>2, <1>6, <5>2 DEF Tree, Distinct
        <5> QED
          BY <2>5, <5>2, <5>3
      <4>5. l \in 3 .. Levels /\ l >= 2
        BY <1>2, <4>3, <4>4
      <4>6. mem[g][page_index(w, l)].on /\ ~ mem[g][page_index(w, l)].ps
        BY <1>2, <2>3, <4>2, <4>5
      <4> QED
        BY <3>1, <4>3, <4>6 DEF Tells
    <3> QED
      BY <3>3, <3>4
  <2> QED
    BY <2>4, <2>5
<1>19. Tree(L)'
  BY <1>12, <1>13, <1>15, <1>16, <1>17, <1>18 DEF Tree
<1>20. WalkInv(L)'
  BY <1>c DEF WalkInv
<1>21. LargeInv(L)'
  <2>0. /\ range \in 1 .. Len(Boot) /\ offset \in Nat /\ Len(Boot) \in Nat
        /\ Boot[range].v \in Nat /\ Boot[range].memmap /\ range' = range
    <3>1. range \in 1 .. Len(Boot) /\ Len(Boot) \in Nat
      BY <1>1, <1>3, BootFacts DEF TypeOK
    <3>2. Boot[range].v \in Nat /\ Boot[range].n \in Nat
      BY <3>1, BootFacts
    <3> QED
      BY <1>1, <1>3, <1>4, <3>1, <3>2 DEF TypeOK, LargeFits
  <2>1. Done = offset /\ Done' = offset + Fan /\ Done' \in Int /\ Done <= Done'
    BY <1>2, <1>c, <1>4, <2>0 DEF Done
  <2>2. ASSUME NEW c, c = b
        PROVE  Mapped(c)'
    <3>1. Boot[range].v <= Sub(b, 0) /\ Sub(b, 0) + Fan <= Boot[range].v + Done'
      BY <1>2, <1>3, <1>8, <2>0, <2>1
    <3>2. range \in 1 .. range' /\ ~ (range < range')
      BY <2>0
    <3> HIDE DEF Done
    <3> QED
      BY <2>0, <2>2, <3>1, <3>2 DEF Mapped
  <2>3. SUFFICES ASSUME NEW g \in Frame, NEW y \in Index, L[g].lv = 2, mem'[g][y].on, mem'[g][y].ps
                 PROVE  Mapped(Sub(L[g].bs, y))'
    BY DEF LargeInv
  <2>4. L[g] = L0[g]
    BY <1>11, <2>3
  <2>5. CASE g = t /\ y = x
    <3>1. Sub(L[g].bs, y) = b
      BY <1>6, <1>8, <2>4, <2>5
    <3> QED
      BY <2>2, <3>1
  <2>6. CASE ~ (g = t /\ y = x)
    <3>1. Mapped(Sub(L[g].bs, y))
      BY <1>0, <1>3, <1>10, <2>3, <2>4, <2>6 DEF LargeInv
    <3>2. Sub(L[g].bs, y) \in Nat
      BY <1>11, SubFacts DEF Label
    <3> HIDE DEF Done
    <3> QED
      BY <1>1, <2>0, <2>1, <3>1, <3>2, MappedGrows
  <2> QED
    BY <2>5, <2>6
<1>22. TypeOK'
  <2>1. flat' \in [pagemaps -> [Addr -> [on : BOOLEAN, to : Nat, fl : SUBSET Flag]]]
    <3> DEFINE E == [on : BOOLEAN, to : Nat, fl : SUBSET Flag]
    <3>1. flat \in [pagemaps -> [Addr -> E]]
      BY <1>1 DEF TypeOK
    <3>2. \A w \in Addr : w \in v .. v + Fan - 1 => [on |-> TRUE, to |-> call.p + (w - v), fl |-> call.fl] \in E
      <4>1. \A w \in Addr : w \in v .. v + Fan - 1 => call.p + (w - v) \in Nat
        BY <1>2, <1>8
      <4> QED
        BY <1>2, <4>1
    <3> HIDE DEF E
    <3>3. flat' \in [pagemaps -> [Addr -> E]]
      BY <1>9, <3>1, <3>2
    <3> QED
      BY <3>3 DEF E
  <2> QED
    BY <1>1, <1>c, <1>4, <1>10, <2>1 DEF TypeOK
<1>23. CallInv' /\ InitInv'
  <2>1. CallInv'
    BY <1>1, <1>c, <1>4 DEF CallInv
  <2>2. InitInv'
    BY <1>1, <1>c, <1>4 DEF InitInv
  <2> QED
    BY <2>1, <2>2
<1>24. TlbInv'
  <2>1. Covered' = v .. v + Fan - 1
    BY <1>4 DEF Covered, Leaf, v
  <2>2. tlb # NULL /\ tlb.v \notin v .. v + Fan - 1 => flat'[cr3][tlb.v] = flat[cr3][tlb.v]
    BY <1>1, <1>9 DEF TlbInv
  <2> QED
    BY <1>1, <1>c, <1>4, <2>1, <2>2 DEF TlbInv
<1> QED
  BY <1>19, <1>20, <1>21, <1>22, <1>23, <1>24 DEF IInv

LEMMA SetLeafStep ==
    ASSUME IInv, SetLeaf
    PROVE  IInv'
<1>1. CASE Leaf = 2
  BY <1>1, LargeLeafStep
<1>2. CASE Leaf = 1
  <2> DEFINE e == Entry(TRUE, call.p, call.fl, FALSE)
             m == [on |-> TRUE, to |-> call.p, fl |-> call.fl]
  <2>1. call.p \in Nat /\ call.fl \in SUBSET Flag /\ call.v \in Nat
    BY BlockFacts DEF IInv, CallInv, SetLeaf
  <2>2. /\ e \in [on : BOOLEAN, to : Nat, fl : SUBSET Flag, ps : BOOLEAN] /\ ~ e.ps
        /\ m \in [on : BOOLEAN, to : Nat, fl : SUBSET Flag]
        /\ e.on /\ m = [on |-> TRUE, to |-> e.to, fl |-> e.fl]
    BY <2>1 DEF Entry
  <2>3. /\ pc \in {"walk", "unwalk"} /\ level = 1 /\ pc' = "invlpg"
        /\ mem' = [mem EXCEPT ![table][page_index(call.v, 1)] = e]
        /\ UNCHANGED <<avail, roots, cr3, tlb, walk, loop>>
    <3>1. (Leaf = 2) = FALSE
      BY <1>2
    <3>2. /\ pc = "walk" /\ level = Leaf /\ pc' = "invlpg"
          /\ mem' = [mem EXCEPT ![table][page_index(call.v, level)] = Entry(TRUE, call.p, call.fl, Leaf = 2)]
          /\ UNCHANGED <<avail, roots, cr3, tlb, walk, loop>>
      BY DEF SetLeaf
    <3>3. Entry(TRUE, call.p, call.fl, Leaf = 2) = e
      BY <3>1, Zenon
    <3> HIDE DEF e
    <3> QED
      BY <1>2, <3>2, <3>3
  <2>4. flat' = [pm \in pagemaps |-> [v \in Addr |->
                   IF v = call.v /\ (pm = call.pm \/ Upper(v)) THEN m ELSE flat[pm][v]]]
    <3>1. flat' = [pm \in pagemaps |-> [v \in Addr |->
                   IF v \in {call.v} /\ (pm = call.pm \/ Upper(v))
                   THEN [on |-> TRUE, to |-> call.p + (v - call.v), fl |-> call.fl] ELSE flat[pm][v]]]
      BY <1>2 DEF SetLeaf, Describe, Covered
    <3>2. call.p + (call.v - call.v) = call.p
      BY <2>1
    <3> QED
      BY <3>1, <3>2
  <2> HIDE DEF e, m
  <2> QED
    BY <1>2, <2>2, <2>3, <2>4, SmallLeafStep
<1> QED
  BY <1>1, <1>2 DEF Leaf

----------------------------------------------------------------------------
(***************************************************************************)
(* The theorems                                                            *)
(***************************************************************************)
LEMMA InitIInv == Init => IInv
<1>1. SUFFICES ASSUME Init PROVE IInv
  OBVIOUS
<1>0. Levels \in Nat /\ Levels >= 2 /\ NFrames \in Nat /\ Len(Boot) \in Nat
  BY FanFacts, BootFacts
<1>2. PICK k \in 0 .. NFrames : avail = 1 .. k
  BY <1>1 DEF Init
<1>3. avail \subseteq Frame
  BY <1>0, <1>2 DEF Frame
<1>4. TypeOK
  <2>1. mem \in [Frame -> [Index -> [on : BOOLEAN, to : Nat, fl : SUBSET Flag, ps : BOOLEAN]]]
    BY <1>1 DEF Init, Entry, Frame
  <2>2. LARGE_PAGES \in BOOLEAN
    BY <1>1, PagingAssumption DEF Init
  <2>3. flat \in [pagemaps -> [Addr -> [on : BOOLEAN, to : Nat, fl : SUBSET Flag]]]
    BY <1>1 DEF Init
  <2>4. /\ pagemaps \subseteq Frame /\ kernel_pagemap \in Frame \cup {NULL} /\ cr3 \in pagemaps \cup {NULL}
        /\ pc = "reset" /\ table \in Frame \cup {NULL} /\ level \in 0 .. Levels
        /\ range \in 1 .. Len(Boot) + 1 /\ offset = 0
    BY <1>0, <1>1 DEF Init
  <2> QED
    BY <1>3, <2>1, <2>2, <2>3, <2>4 DEF TypeOK
<1>5. CallInv /\ InitInv /\ TlbInv
  BY <1>1 DEF Init, CallInv, InitInv, TlbInv
<1> DEFINE L == [g \in Frame |-> [lv |-> 0, bs |-> 0, ow |-> 0]]
<1>6. L \in [Frame -> Label] /\ \A g \in Frame : L[g].lv = 0
  BY <1>0 DEF Label
<1> HIDE DEF L
<1>7. pagemaps = {} /\ pc = "reset"
  BY <1>1 DEF Init
<1>8. TreeInv(L) /\ Distinct(L) /\ EntryInv(L) /\ ParentInv(L) /\ SharedInv /\ MeansInv(L)
  <2>1. TreeInv(L)
    BY <1>0, <1>3, <1>6, <1>7 DEF TreeInv
  <2>2. Distinct(L) /\ EntryInv(L) /\ ParentInv(L)
    BY <1>6 DEF Distinct, EntryInv, ParentInv
  <2> QED
    BY <1>7, <2>1, <2>2 DEF SharedInv, MeansInv
<1>9. WholeInv(L)
  <2>1. {f \in Frame : L[f].lv > 0} = {}
    BY <1>6
  <2> QED
    BY <1>2, <2>1 DEF WholeInv
<1>10. WalkInv(L) /\ LargeInv(L)
  BY <1>6, <1>7 DEF WalkInv, LargeInv
<1> QED
  BY <1>4, <1>5, <1>8, <1>9, <1>10 DEF IInv, Tree

LEMMA NextIInv == IInv /\ [Next]_vars => IInv'
<1>1. SUFFICES ASSUME IInv, [Next]_vars PROVE IInv'
  OBVIOUS
<1>2. CASE UNCHANGED vars
  <2>1. PICK L : Tree(L) /\ WalkInv(L) /\ LargeInv(L)
    BY <1>1 DEF IInv
  <2>2. TypeOK /\ CallInv /\ InitInv /\ TlbInv
    BY <1>1 DEF IInv
  <2>3. TypeOK' /\ CallInv' /\ InitInv'
    BY <1>2, <2>2 DEF vars, TypeOK, CallInv, InitInv
  <2>4. TlbInv'
    BY <1>2, <2>2 DEF vars, TlbInv, Covered, Leaf
  <2>5. Tree(L)'
    BY <1>2, <2>1, <2>2, TreeKept DEF vars, roots
  <2>6. WalkInv(L)'
    BY <1>2, <2>1 DEF vars, WalkInv, Small, Leaf
  <2>7. LargeInv(L)'
    BY <1>2, <2>1 DEF vars, LargeInv, Mapped, Done
  <2> QED
    BY <2>3, <2>4, <2>5, <2>6, <2>7 DEF IInv
<1>3. CASE PagingInit
  BY <1>1, <1>3, PagingInitStep
<1>4. CASE PagingInitFails \/ PmnewFails
  BY <1>1, <1>4, PanicStep
<1>5. CASE InitMap
  BY <1>1, <1>5, InitMapStep
<1>6. CASE InitNextRange
  BY <1>1, <1>6, InitNextRangeStep
<1>7. CASE \E pm \in pagemaps : Pmset(pm)
  BY <1>1, <1>7, PmsetStep
<1>8. CASE Pmnew
  BY <1>1, <1>8, PmnewStep
<1>9. ASSUME NEW pm \in pagemaps, NEW v \in Virt, NEW p \in Phys, NEW fl \in FlagSets, VmapCall(pm, v, p, fl)
      PROVE  IInv'
  <2>1. p \in Nat /\ fl \in SUBSET Flag
    BY PagingAssumption
  <2>2. /\ pc = "idle" /\ ~ InLarge(pm, v) /\ Enter("vmap", pm, v, p, fl)
        /\ Upper(v) => mem[kernel_pagemap][page_index(v, Levels)].on
        /\ UNCHANGED <<mem, avail, roots, cr3, tlb, loop, flat>>
    BY <1>9 DEF VmapCall
  <2> QED
    BY <1>1, <2>1, <2>2, CallStep
<1>10. ASSUME NEW pm \in pagemaps, NEW v \in Virt, VunmapCall(pm, v)
       PROVE  IInv'
  <2>1. /\ pc = "idle" /\ ~ InLarge(pm, v) /\ Enter("vunmap", pm, v, 0, {})
        /\ UNCHANGED <<mem, avail, roots, cr3, tlb, loop, flat>>
    BY <1>10 DEF VunmapCall
  <2>2. 0 \in Nat /\ {} \in SUBSET Flag
    OBVIOUS
  <2> QED
    BY <1>1, <2>1, <2>2, CallStep
<1>11. CASE WalkOn
  BY <1>1, <1>11, WalkOnStep
<1>12. CASE WalkAlloc
  BY <1>1, <1>12, WalkAllocStep
<1>13. CASE WalkFails
  BY <1>1, <1>13, WalkFailsStep
<1>14. CASE SetLeaf
  BY <1>1, <1>14, SetLeafStep
<1>15. CASE Invlpg
  BY <1>1, <1>15, InvlpgStep
<1>16. CASE UnwalkOn
  BY <1>1, <1>16, UnwalkOnStep
<1>17. CASE UnwalkAbsent
  BY <1>1, <1>17, UnwalkAbsentStep
<1>18. CASE ClearLeaf
  BY <1>1, <1>18, ClearLeafStep
<1>19. CASE \E v \in Virt : Touch(v)
  BY <1>1, <1>19, TouchStep
<1> QED
  BY <1>1, <1>2, <1>3, <1>4, <1>5, <1>6, <1>7, <1>8, <1>9, <1>10, <1>11, <1>12, <1>13, <1>14, <1>15,
     <1>16, <1>17, <1>18, <1>19 DEF Next

LEMMA Invariance == Spec => []IInv
  BY InitIInv, NextIInv, PTL DEF Spec

\* The MMU finds in every tree, at every moment, exactly the map that vmap,
\* vmap_large and vunmap were asked for (paging.c: vmap, vmap_large, vunmap,
\* pmnew), whatever the number of levels and entries, and however the
\* allocator fails on the way.
THEOREM TranslationCorrect == Spec => []Translation
<1>1. IInv => Translation
  BY MmuRight DEF IInv, Translation
<1> QED
  BY <1>1, Invariance, PTL

\* virt_to_phys finds what vmap has mapped, for every address outside large
\* pages.
THEOREM VirtToPhysCorrect == Spec => []VirtToPhysRight
<1>1. IInv => VirtToPhysRight
  <2>1. SUFFICES ASSUME IInv, NEW pm \in pagemaps, NEW v \in Addr, ~ InLarge(pm, v)
                 PROVE  virt_to_phys(pm, v) = flat[pm][v].to
    BY DEF VirtToPhysRight
  <2>2. PICK L : Tree(L)
    BY <2>1 DEF IInv
  <2>3. TypeOK /\ Levels \in Nat /\ Levels >= 2 /\ 1 \in 1 .. Levels /\ NULL \notin Frame
    BY <2>1, FanFacts, PagingAssumption DEF IInv, Frame
  <2>4. Small(L, pm, v)
    BY <2>1, <2>2, <2>3, NotInLarge
  <2> DEFINE t == TableOf(pm, v, 1)
  <2>5. \/ t \in Frame /\ L[t] = Lab(pm, v, 1)
        \/ t = NULL /\ flat[pm][v] = NoPage
    BY <2>1, <2>2, <2>3, <2>4, TableRight
  <2>6. virt_to_phys(pm, v) = IF t = NULL \/ ~ mem[t][page_index(v, 1)].on THEN 0 ELSE mem[t][page_index(v, 1)].to
    BY DEF virt_to_phys
  <2> HIDE DEF t
  <2>7. CASE t = NULL /\ flat[pm][v] = NoPage
    BY <2>6, <2>7 DEF NoPage
  <2>8. CASE t \in Frame /\ L[t] = Lab(pm, v, 1)
    <3> DEFINE e == mem[t][page_index(v, 1)]
    <3>1. Tells(e, 1, pm, v)
      BY <2>1, <2>2, <2>3, <2>8 DEF Tree, MeansInv
    <3>2. virt_to_phys(pm, v) = IF ~ e.on THEN 0 ELSE e.to
      BY <2>3, <2>6, <2>8
    <3> HIDE DEF e
    <3> QED
      BY <3>1, <3>2 DEF Tells, NoPage
  <2> QED
    BY <2>5, <2>7, <2>8
<1> QED
  BY <1>1, Invariance, PTL

\* No cached translation outlives the call that changes it: invlpg at the end
\* of vmap and vunmap, and the load of cr3, are enough.
THEOREM TlbCorrect == Spec => []TlbCoherent
<1>1. IInv => TlbCoherent
  <2>1. SUFFICES ASSUME IInv, tlb # NULL, pc = "invlpg" => tlb.v \notin Covered
                 PROVE  tlb.m = Mmu(cr3, tlb.v)
    BY DEF TlbCoherent
  <2>2. TypeOK /\ cr3 \in pagemaps /\ tlb.v \in Addr /\ tlb.m = flat[cr3][tlb.v]
    BY <2>1 DEF IInv, TlbInv
  <2>3. PICK L : Tree(L)
    BY <2>1 DEF IInv
  <2>4. Mmu(cr3, tlb.v) = flat[cr3][tlb.v]
    BY <2>2, <2>3, MmuRight
  <2> QED
    BY <2>2, <2>4
<1> QED
  BY <1>1, Invariance, PTL

\* No page for a table is lost or free and in use at once, also when vmap
\* runs out of memory between two levels.
THEOREM TablesCorrect == Spec => []TablesAccounted
<1>1. IInv => TablesAccounted
  <2>1. SUFFICES ASSUME IInv, ~ LARGE_PAGES
                 PROVE  \E k \in 0 .. NFrames : /\ TablesOf(pagemaps) \cup avail = 1 .. k
                                               /\ TablesOf(pagemaps) \cap avail = {}
    BY DEF TablesAccounted
  <2>2. PICK L : Tree(L)
    BY <2>1 DEF IInv
  <2>3. TablesOf(pagemaps) = {f \in Frame : L[f].lv > 0}
    BY <2>1, <2>2, TablesRight DEF IInv
  <2>4. PICK k \in 0 .. NFrames : {f \in Frame : L[f].lv > 0} \cup avail = 1 .. k
    BY <2>1, <2>2 DEF Tree, WholeInv
  <2>5. {f \in Frame : L[f].lv > 0} \cap avail = {}
    BY <2>1, <2>2 DEF Tree, TreeInv, IInv, TypeOK
  <2> QED
    BY <2>3, <2>4, <2>5
<1> QED
  BY <1>1, Invariance, PTL
=============================================================================
