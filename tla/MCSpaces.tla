------------------------------ MODULE MCSpaces -----------------------------
(* Instances of Spaces: pages of two bytes, the kernel's pool around the    *)
(* start of process address spaces as in the kernel, modules of up to two   *)
(* segments, and every amount of free memory, in one piece or in two.       *)
EXTENDS Spaces

H(load, vaddr, filesz, memsz, offset, flags) ==
    [load |-> load, vaddr |-> vaddr, filesz |-> filesz, memsz |-> memsz, offset |-> offset,
     flags |-> flags]
Module(valid, entry, ph) == [valid |-> valid, entry |-> entry, ph |-> ph]

Text == H(TRUE, 16, 2, 2, 1, {VALLOC_EXEC})
Data == H(TRUE, 19, 1, 3, 4, {VALLOC_WRITE})
\* shares a page with Data
Bss == H(TRUE, 21, 1, 2, 7, {VALLOC_WRITE})
Note == H(FALSE, 16, 1, 1, 0, {})

Modules == {Module(FALSE, 16, <<Text>>), Module(TRUE, 16, <<Note, Text, Data>>),
            Module(TRUE, 17, <<Text, Data, Bss>>), Module(TRUE, 19, <<Data>>),
            Module(TRUE, 16, <<Text, H(TRUE, 20, 2, 2, 3, {VALLOC_WRITE})>>)}

\* Regions of one page and of five.
KernelMap == [k \in 1 .. 6 |-> [page |-> k, frame |-> 100 + k]]
FreeSets == {1 .. k : k \in 0 .. 17} \cup {(1 .. 17) \ {6}, (1 .. 12) \ {6, 8}}

\* Copies leave regions and tree alone: one copy is as good as many.
OneCopy == copy' = copy \/ copy = NoCopy
=============================================================================
