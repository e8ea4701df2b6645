--------------------------- MODULE PageAllocator ---------------------------
(***************************************************************************)
(* What a physical page allocator promises its callers, whatever its data  *)
(* structures: each usable page is free, held by a caller, or being given  *)
(* back.  Runs of free pages are granted; a page can be granted again only *)
(* after its holder has given it back.  PMM implements this specification. *)
(***************************************************************************)
EXTENDS Integers

CONSTANT Usable
VARIABLE status

Become(S, from, to) ==
    /\ \A p \in S : status[p] = from
    /\ status' = [p \in Usable |-> IF p \in S THEN to ELSE status[p]]

\* palloc: consecutive free pages go to one caller.
Allocate(S) ==
    /\ \A p, q \in S : \A r \in p .. q : r \in S
    /\ Become(S, "free", "held")

\* pfree is entered: the caller no longer uses the pages.
GiveBack(S) == Become(S, "held", "returning")

\* pfree clears the page's bit.
Reclaim(p) == Become({p}, "returning", "free")

Init == status = [p \in Usable |-> "free"]

Next ==
    \/ \E S \in SUBSET Usable : Allocate(S) \/ GiveBack(S)
    \/ \E p \in Usable : Reclaim(p)

Spec == Init /\ [][Next]_status
=============================================================================
