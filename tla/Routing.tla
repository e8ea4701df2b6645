------------------------------ MODULE Routing ------------------------------
(***************************************************************************)
(* Interrupt routing: the scan of the firmware's MADT (sys/acpi/madt.c,    *)
(* found by sys/acpi.c), the redirection entries of the I/O APIC           *)
(* (sys/apic/ioapic.c) and the timer's use of them (dev/timer/pit.c).  The *)
(* steps run on the boot CPU with interrupts off; Boot puts them in order  *)
(* and turns a failed check into a panic.                                  *)
(*                                                                         *)
(* The MADT is a sequence of entries, each at its place and as long as it  *)
(* says; tableLen is what the table's header says, less the header, and    *)
(* may cut the last entry short.  The code uses the first I/O APIC only    *)
(* and never reads its gsi_base: the model takes it to be 0.               *)
(***************************************************************************)
EXTENDS Integers, Sequences, FiniteSetsExt

CONSTANTS Tables,     \* the MADTs: sequences of entries, off is an entry's place
          ListMax,    \* slots of each list, 256 in the kernel
          Pins,       \* inputs of the I/O APIC
          VecMod,     \* vectors have 8 bits: 256 in the kernel
          BspId,      \* local APIC number of the boot CPU
          Broadcast   \* BROADCAST_PIT

PIT_VECTOR == 32
LAPIC_SPURIOUS_VECTOR == VecMod - 1
AllCpus == 255

\* The bytes of the entries of t.
Bytes(t) == IF t = <<>> THEN 0 ELSE t[Len(t)].off + t[Len(t)].len

\* Entries follow each other without gaps.  The last one has at least a byte:
\* what comes behind the table's bytes is no entry.
Layout(t) ==
    /\ t # <<>> => t[1].off = 0 /\ t[Len(t)].len > 0
    /\ \A i, j \in DOMAIN t : i < j =>
         /\ t[i].off + t[i].len <= t[j].off
         /\ j = i + 1 => t[i].off + t[i].len = t[j].off

\* The number of a register of the I/O APIC has 8 bits, as a vector has; input g
\* uses the registers 16 + 2g and 17 + 2g.
ASSUME RoutingAssumption ==
    /\ ListMax \in Nat \ {0} /\ Pins \in Nat \ {0} /\ BspId \in Nat /\ Broadcast \in BOOLEAN
    /\ VecMod \in Nat /\ VecMod > PIT_VECTOR + 1 /\ 16 + 2 * Pins <= VecMod
    /\ Tables \subseteq Seq([type : Nat, len : Nat, irq : Nat, gsi : Nat, aligned : BOOLEAN, off : Nat])
    /\ \A t \in Tables : Layout(t)

VARIABLES table,      \* the entries of the MADT
          tableLen,   \* madt->sdt.length - sizeof(acpi_madt_t)
          pos,        \* the scan has passed this many entries ...
          offset,     \* ... and is at this byte
          lists,      \* madt_lapic_list, madt_ioapic_list ..., by entry type
          lapic_addr, \* address of the local APIC according to the MADT
          ioapic_base,\* the I/O APIC's registers have been mapped
          red,        \* its redirection entries
          handler     \* real_handlers[PIT_VECTOR] and pit_callback are set

firmware == <<table, tableLen>>
madt == <<pos, offset, lists, lapic_addr>>
ioapic == <<ioapic_base, red, handler>>

----------------------------------------------------------------------------
(***************************************************************************)
(* madt_init                                                               *)
(***************************************************************************)
\* The structures of madt.h and their sizes in bytes.
LAPIC == 0
IOAPIC == 1
IOAPIC_SRC_OVR == 2
IOAPIC_NMI_SRC == 3
LAPIC_NMI == 4
LAPIC_ADDR_OVR == 5
LX2APIC == 9
Listed == {LAPIC, IOAPIC, IOAPIC_SRC_OVR, IOAPIC_NMI_SRC, LAPIC_NMI, LX2APIC}
Size == [t \in Listed \cup {LAPIC_ADDR_OVR} |->
           CASE t = LAPIC -> 8 [] t \in {IOAPIC, LAPIC_ADDR_OVR} -> 12
             [] t \in {IOAPIC_SRC_OVR, IOAPIC_NMI_SRC} -> 10 [] t = LAPIC_NMI -> 6
             [] t = LX2APIC -> 16]

\* The header's length agrees with the entries, or ends inside the last one.
RoutingInit ==
    /\ table \in Tables
    /\ tableLen \in {Bytes(table)} \cup
         {n \in {Bytes(table) - 1} : table # <<>> /\ n > table[Len(table)].off}
    /\ pos = 0 /\ offset = 0
    /\ lists = [t \in Listed |-> <<>>]
    /\ lapic_addr = "none"
    /\ ioapic_base = FALSE
    \* what the firmware left: pins it used itself, unmasked
    /\ red = [g \in 0 .. Pins - 1 |-> [mask |-> FALSE, vec |-> 8, mode |-> 0, dest |-> BspId]]
    /\ handler = FALSE

\* Mutant: an entry of length 0 is let through.
BadEntryZeroOk(e) ==
    \/ offset + e.len > tableLen
    \/ e.len > 0 /\ e.type \in DOMAIN Size /\ e.len < Size[e.type]

\* Mutant: the end of the table is not checked.
BadEntryNoEnd(e) ==
    \/ e.len = 0
    \/ e.type \in DOMAIN Size /\ e.len < Size[e.type]

\* The checks that make madt_init panic.
BadEntry(e) ==
    \/ e.len = 0
    \/ offset + e.len > tableLen
    \/ e.type \in DOMAIN Size /\ e.len < Size[e.type]

Scanning == offset < tableLen

MadtStart ==
    /\ lapic_addr' = "madt"
    /\ UNCHANGED <<pos, offset, lists>>

\* One round of the loop.  The loop goes on where the entry's length says,
\* which is the next entry, or the same one if the length is 0.
MadtEntry ==
    LET e == table[pos + 1] IN
    /\ Scanning /\ ~ BadEntry(e)
    /\ lists' = IF e.type \in Listed /\ Len(lists[e.type]) < ListMax
                THEN [lists EXCEPT ![e.type] = Append(@, [e EXCEPT !.off = offset])]
                ELSE lists
    /\ lapic_addr' = IF e.type = LAPIC_ADDR_OVR THEN "override" ELSE lapic_addr
    /\ offset' = offset + e.len
    /\ pos' = IF e.len = 0 THEN pos ELSE pos + 1

MadtInvalid == Scanning /\ BadEntry(table[pos + 1])

----------------------------------------------------------------------------
(***************************************************************************)
(* The I/O APIC                                                            *)
(***************************************************************************)
\* Mutant: interrupt numbers are used as global ones.
irq_to_gsi_identity(irq) == irq

\* The first override of the interrupt, or the same number.
irq_to_gsi(irq) ==
    LET list == lists[IOAPIC_SRC_OVR]
        isos == {k \in DOMAIN list : list[k].irq = irq}
    IN  IF isos = {} THEN irq ELSE list[Min(isos)].gsi

\* The low word of a redirection entry: the vector spills into the delivery mode.
Word(mask, vec, dest) ==
    [mask |-> mask, vec |-> vec % VecMod, mode |-> vec \div VecMod, dest |-> dest]

\* No I/O APIC in the MADT, or the first one's registers are not page-aligned.
NoIoapic == IF lists[IOAPIC] = <<>> THEN TRUE ELSE ~ lists[IOAPIC][1].aligned

\* ioapic_init: every input masked, with a vector of its own or almost.
IoapicInit ==
    /\ ~ NoIoapic
    /\ ioapic_base' = TRUE
    /\ red' = [g \in 0 .. Pins - 1 |->
                 LET v == 32 + g
                 IN  Word(TRUE, IF v = LAPIC_SPURIOUS_VECTOR THEN v + 1 ELSE v, BspId)]
    /\ UNCHANGED handler

\* timer_init: the handler, then ioapic_map of interrupt 0, still masked.
PitInit ==
    /\ ioapic_base /\ irq_to_gsi(0) < Pins
    /\ red' = [red EXCEPT ![irq_to_gsi(0)] =
                 Word(TRUE, PIT_VECTOR, IF Broadcast THEN AllCpus ELSE BspId)]
    /\ handler' = TRUE
    /\ UNCHANGED ioapic_base

InvalidGsi == irq_to_gsi(0) >= Pins

\* ioapic_unmask(0)
Unmask ==
    /\ red' = IF irq_to_gsi(0) < Pins THEN [red EXCEPT ![irq_to_gsi(0)].mask = FALSE] ELSE red
    /\ UNCHANGED <<ioapic_base, handler>>
=============================================================================
