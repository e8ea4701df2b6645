------------------------------ MODULE MCPaging -----------------------------
(* Instances of Paging: three levels of two entries, so addresses 0 to 3   *)
(* are the user half and 4 to 7 the kernel half.  paging_init maps the     *)
(* direct map at 4 and then the part of it that the memory map lists.      *)
EXTENDS Paging

Range(v, n, p, fl, memmap) == [v |-> v, n |-> n, p |-> p, fl |-> fl, memmap |-> memmap]

BootRanges ==
    << Range(4, 3, 20, {"W"}, FALSE), Range(4, 3, 20, {"W", "NX"}, TRUE) >>

UserAndKernel == {{"W"}, {"U", "NX"}}
=============================================================================
