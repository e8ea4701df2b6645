-------------------------------- MODULE Heap --------------------------------
(***************************************************************************)
(* The kernel heap, kernel/src/mm/heap/ff.c: a first-fit allocator over    *)
(* one pool, whose free blocks are a linked list sorted by address.  The   *)
(* headers (size, next) lie in the pool in front of each block; addresses  *)
(* are offsets into the pool.  size and next are defined on the headers    *)
(* that exist now, so following a pointer to anything else is an error of  *)
(* the model.  The heap has no lock: one call runs at a time (see          *)
(* SmpBoot), and its list walks are modelled one node per step.            *)
(***************************************************************************)
EXTENDS Integers, FiniteSets

CONSTANTS Pool,   \* FF_POOL_SIZE * PAGE_SIZE
          Hdr,    \* sizeof(block_t), 16 in the kernel
          Align,  \* the 8 of ALIGN_UP
          Sizes,  \* the byte counts callers ask for
          NULL

ASSUME HeapAssumption ==
    /\ Align \in Nat \ {0}
    /\ Hdr \in Nat \ {0} /\ Hdr % Align = 0
    /\ Pool \in Nat /\ Pool % Align = 0 /\ Pool > Hdr
    /\ Sizes \subseteq Nat
    /\ NULL \notin Nat

VARIABLES size,      \* block->size, on the headers in the pool
          next,      \* block->next; stale while the block is allocated
          freelist,  \* head of the free list
          held,      \* ghost: the pointers callers hold |-> bytes they asked for
          pc,        \* where the call is
          bytes,     \* the size asked for, before and ...
          want,      \* ... after ALIGN_UP
          prev,      \* the node before cur; NULL: the link is freelist itself
          cur,       \* the node the walk looks at
          block      \* the block kfree returns

vars == <<size, next, freelist, held, pc, bytes, want, prev, cur, block>>
list == <<size, next, freelist>>
args == <<bytes, want, block>>

Addr == 0 .. Pool - 1
Blocks == DOMAIN size
End(b) == b + Hdr + size[b]
FreeBlocks == Blocks \ {p - Hdr : p \in DOMAIN held}

\* Mutant: requests are rounded down.
AlignDown(n) == (n \div Align) * Align
AlignUp(n) == ((n + Align - 1) \div Align) * Align

\* heap_init: one free block fills the pool.
Init ==
    /\ size = [b \in {0} |-> Pool - Hdr]
    /\ next = [b \in {0} |-> NULL]
    /\ freelist = 0
    /\ held = [p \in {} |-> 0]
    /\ pc = "idle"
    /\ bytes = 0 /\ want = 0
    /\ prev = NULL /\ cur = NULL /\ block = NULL

\* The link the walk stopped at, prev->next or freelist, is set to b; f is the
\* next function the other assignments of the step produce.
Link(b, f) ==
    /\ next' = IF prev = NULL THEN f ELSE [f EXCEPT ![prev] = b]
    /\ freelist' = IF prev = NULL THEN b ELSE freelist

\* Back to the caller; the locals are gone.
Return ==
    /\ pc' = "idle"
    /\ bytes' = 0 /\ want' = 0
    /\ prev' = NULL /\ cur' = NULL /\ block' = NULL

\* Mutant: the walk stays where it is.
AdvanceStays ==
    /\ prev' = cur
    /\ UNCHANGED <<list, held, pc, args, cur>>

\* The walk's step to the following node.
Advance ==
    /\ prev' = cur
    /\ cur' = next[cur]
    /\ UNCHANGED <<list, held, pc, args>>

----------------------------------------------------------------------------
(***************************************************************************)
(* kmalloc                                                                 *)
(***************************************************************************)
KmallocZero ==
    /\ pc = "idle" /\ 0 \in Sizes
    /\ UNCHANGED vars

KmallocEnter(n) ==
    /\ pc = "idle" /\ n # 0
    /\ pc' = "kmalloc"
    /\ bytes' = n /\ want' = AlignUp(n)
    /\ prev' = NULL /\ cur' = freelist
    /\ UNCHANGED <<list, held, block>>

KmallocSkip ==
    /\ pc = "kmalloc" /\ cur # NULL
    /\ size[cur] < want
    /\ Advance

\* The caller gets the bytes after cur's header.
Grant ==
    /\ held' = [p \in DOMAIN held \cup {cur + Hdr} |-> IF p = cur + Hdr THEN bytes ELSE held[p]]
    /\ Return

Splits == size[cur] >= AlignUp(Hdr + want + Hdr)

\* Mutant: the remainder keeps the size of its own header too.
RemainderWithHeader == size[cur] - want
Remainder == size[cur] - (Hdr + want)

KmallocSplit ==
    /\ pc = "kmalloc" /\ cur # NULL
    /\ size[cur] >= want /\ Splits
    /\ LET new == cur + Hdr + want IN
         /\ size' = [b \in Blocks \cup {new} |-> CASE b = new -> Remainder
                                                   [] b = cur -> want
                                                   [] OTHER -> size[b]]
         /\ Link(new, [b \in Blocks \cup {new} |-> IF b = new THEN next[cur] ELSE next[b]])
    /\ Grant

KmallocWhole ==
    /\ pc = "kmalloc" /\ cur # NULL
    /\ size[cur] >= want /\ ~ Splits
    /\ Link(next[cur], next)
    /\ Grant
    /\ UNCHANGED size

\* Mutant: the walk gives up at the last block.
KmallocFailEarly ==
    /\ pc = "kmalloc" /\ (cur # NULL => next[cur] = NULL)
    /\ Return
    /\ UNCHANGED <<list, held>>

\* The end of the list: NULL.
KmallocFail ==
    /\ pc = "kmalloc" /\ cur = NULL
    /\ Return
    /\ UNCHANGED <<list, held>>

----------------------------------------------------------------------------
(***************************************************************************)
(* kfree                                                                   *)
(***************************************************************************)
KfreeNull ==
    /\ pc = "idle"
    /\ UNCHANGED vars

KfreeEnter(ptr) ==
    /\ pc = "idle"
    /\ block' = ptr - Hdr
    /\ held' = [p \in DOMAIN held \ {ptr} |-> held[p]]
    /\ pc' = "kfree"
    /\ prev' = NULL /\ cur' = freelist
    /\ UNCHANGED <<list, bytes, want>>

KfreeWalk ==
    /\ pc = "kfree" /\ cur # NULL /\ cur < block
    /\ Advance

KfreeInsert ==
    /\ pc = "kfree"
    /\ ~ (cur # NULL /\ cur < block)
    /\ Link(block, [next EXCEPT ![block] = cur])
    /\ pc' = "join_next"
    /\ UNCHANGED <<size, held, args, prev, cur>>

\* b swallows the block d that starts where b ends; d's header disappears.
Swallow(b, d) ==
    /\ size' = [e \in Blocks \ {d} |-> IF e = b THEN size[b] + Hdr + size[d] ELSE size[e]]
    /\ next' = [e \in Blocks \ {d} |-> IF e = b THEN next[d] ELSE next[e]]

JoinNext ==
    /\ pc = "join_next"
    /\ IF next[block] # NULL /\ End(block) = next[block]
       THEN Swallow(block, next[block])
       ELSE UNCHANGED <<size, next>>
    /\ pc' = "join_prev"
    /\ UNCHANGED <<freelist, held, args, prev, cur>>

\* Mutant: the block before the freed one is never joined.
JoinPrevNever ==
    /\ pc = "join_prev"
    /\ Return
    /\ UNCHANGED <<list, held>>

\* prev is what the second walk of kfree, from freelist to the node whose next
\* is block, finds again.
JoinPrev ==
    /\ pc = "join_prev"
    /\ IF prev # NULL /\ End(prev) = block
       THEN Swallow(prev, block)
       ELSE UNCHANGED <<size, next>>
    /\ Return
    /\ UNCHANGED <<freelist, held>>

----------------------------------------------------------------------------
CallStep ==
    \/ KmallocSkip \/ KmallocSplit \/ KmallocWhole \/ KmallocFail
    \/ KfreeWalk \/ KfreeInsert \/ JoinNext \/ JoinPrev

Next ==
    \/ KmallocZero
    \/ \E n \in Sizes : KmallocEnter(n)
    \/ KmallocSkip \/ KmallocSplit \/ KmallocWhole \/ KmallocFail
    \/ KfreeNull
    \/ \E ptr \in DOMAIN held : KfreeEnter(ptr)
    \/ KfreeWalk \/ KfreeInsert \/ JoinNext \/ JoinPrev

\* A call that has begun is executed to its end.
Fairness == WF_vars(CallStep)

Spec == Init /\ [][Next]_vars /\ Fairness

----------------------------------------------------------------------------
(***************************************************************************)
(* Properties                                                              *)
(***************************************************************************)
Pointer == Nat \cup {NULL}

TypeOK ==
    /\ Blocks \subseteq Addr /\ size \in [Blocks -> Nat]
    /\ DOMAIN next = Blocks /\ next \in [Blocks -> Pointer]
    /\ freelist \in Pointer
    /\ DOMAIN held \subseteq Addr /\ held \in [DOMAIN held -> Nat]
    /\ pc \in {"idle", "kmalloc", "kfree", "join_next", "join_prev"}
    /\ bytes \in Nat /\ want \in Nat
    /\ prev \in Pointer /\ cur \in Pointer /\ block \in Pointer

\* After every step the blocks tile the pool: splitting and joining neither
\* lose a byte nor let two blocks overlap.
Tiling ==
    /\ TypeOK
    /\ 0 \in Blocks
    /\ \A b \in Blocks : End(b) = Pool \/ End(b) \in Blocks
    /\ \A b, d \in Blocks : b < d => End(b) <= d

\* Every pointer a caller holds is behind a block of its own, of at least the
\* size the caller asked for, whatever is allocated and freed around it.
HeldIntact == \A p \in DOMAIN held : p - Hdr \in Blocks /\ held[p] <= size[p - Hdr]

\* Between calls the free list holds exactly the blocks nobody holds, each
\* linked to the next one by address, and no two of them are adjacent: freed
\* memory is always joined with its free neighbours on both sides.
Least(S) == IF S = {} THEN NULL ELSE CHOOSE a \in S : \A b \in S : a <= b
ListSorted ==
    pc = "idle" => /\ freelist = Least(FreeBlocks)
                   /\ \A b \in FreeBlocks : next[b] = Least({d \in FreeBlocks : d > b})
                   /\ \A b, d \in FreeBlocks : End(b) # d

\* kmalloc returns NULL only when no free block is large enough.
NullMeansNoFit == [][KmallocFail => \A b \in FreeBlocks : size[b] < want]_vars

\* Every kmalloc and kfree returns: the walks come to the end of the list.
CallsReturn == pc # "idle" ~> pc = "idle"
=============================================================================
