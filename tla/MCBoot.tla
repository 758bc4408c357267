------------------------------- MODULE MCBoot --------------------------------
(* Small tables and windows for TLC. *)
EXTENDS Boot

MCWindows == {<<12, 4>>}

Entry(kind, length) == [kind |-> kind, length |-> length]

\* A well-formed MADT, with an entry of a kind that is not handled; one that ends short of its
\* last entry; one shorter than its header; one with an entry of no length.
MCTable ==
    [length |-> 11, entries |-> <<Entry("lapic", 2), Entry("lapic", 2), Entry("other", 1), Entry("ioapic", 2)>>]

ShortOfItsLast ==
    [length |-> 6, entries |-> <<Entry("interrupt_source_override", 1), Entry("lapic_nmi", 3)>>]

ShorterThanItsHeader == [length |-> 3, entries |-> <<Entry("other", 5), Entry("lapic", 3)>>]

MCTables ==
    {[length |-> 7, entries |-> <<Entry("lapic", 1), Entry("ioapic", 0), Entry("lapic", 2)>>], NoTable}

\* A good machine; one for each thing that can be wrong with it, and two with memory that ends
\* within a page or beyond the kernel.
MCFirmware ==
    [memmap |-> TRUE, hhdm |-> TRUE, kernel_address |-> TRUE, highest |-> 4, rsdp |-> TRUE, madt |-> MCTable]

MCFirmwares ==
    {MCFirmware, [MCFirmware EXCEPT !.memmap = FALSE], [MCFirmware EXCEPT !.hhdm = FALSE],
     [MCFirmware EXCEPT !.kernel_address = FALSE], [MCFirmware EXCEPT !.rsdp = FALSE],
     [MCFirmware EXCEPT !.highest = 12],
     [MCFirmware EXCEPT !.highest = 3, !.madt = ShortOfItsLast],
     [MCFirmware EXCEPT !.highest = 18, !.madt = ShorterThanItsHeader]}
        \cup {[MCFirmware EXCEPT !.madt = t] : t \in MCTables}
==============================================================================
