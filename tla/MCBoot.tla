------------------------------- MODULE MCBoot ------------------------------
(* Instances of Boot: every MADT of up to three entries, well formed, cut   *)
(* short, too small or of length zero, with and without overrides.          *)
EXTENDS Boot, SequencesExt

E(type, len, irq, gsi, aligned) ==
    [type |-> type, len |-> len, irq |-> irq, gsi |-> gsi, aligned |-> aligned, off |-> 0]

Entries == {E(LAPIC, 8, 0, 0, TRUE), E(LAPIC, 6, 0, 0, TRUE), E(IOAPIC, 12, 0, 0, TRUE),
            E(IOAPIC, 12, 0, 0, FALSE), E(IOAPIC_SRC_OVR, 10, 0, 2, TRUE),
            E(IOAPIC_SRC_OVR, 10, 0, 7, TRUE), E(IOAPIC_SRC_OVR, 10, 9, 0, TRUE),
            E(LAPIC_ADDR_OVR, 12, 0, 0, TRUE), E(7, 4, 0, 0, TRUE), E(7, 0, 0, 0, TRUE)}

\* The entries of t, each where the one before ends.
Laid(t) == [k \in DOMAIN t |-> [t[k] EXCEPT !.off = FoldSeq(LAMBDA e, n : e.len + n, 0, SubSeq(t, 1, k - 1))]]

Small == {Laid(t) : t \in {u \in SeqOf(Entries, 3) : u = <<>> \/ Last(u).len > 0}}
Plain == {<<E(IOAPIC, 12, 0, 0, TRUE)>>}
=============================================================================
