--------------------------------- MODULE Boot --------------------------------
(***************************************************************************)
(* kernel_main (kernel/core.cpp): the order in which the subsystems come   *)
(* up, what each needs of those before it, what ends the boot early, and   *)
(* the exceptions that may arrive at any of its steps.  irqs::init's walk  *)
(* of the MADT is here entry by entry, and uACPI's calls one by one; the   *)
(* allocators, the heap and the clock sources have modules of their own    *)
(* and are single steps here.  Addresses are Bits wide.                    *)
(***************************************************************************)
EXTENDS AcpiGlue, FiniteSetsExt

CONSTANTS
    PageSize, Slide, KernelBase,    \* PAGE_SIZE, the direct map, the kernel's first address
    HeapSize,                       \* memory::heap_size
    Firmwares,                      \* bound: what the bootloader and the tables provide
    NoTable,                        \* no MADT
    MadtHeader,                     \* sizeof(*hdr) + sizeof(uint64_t)
    MaxEntries                      \* bound: the entries that the heap has room for

ASSUME SizesAssumption ==
    /\ PageSize \in Nat \ {0} /\ HeapSize \in Nat /\ HeapSize % PageSize = 0
    /\ Slide \in 0 .. KernelBase /\ KernelBase \in 0 .. TwoTo[Bits] - 1
    /\ Slide % PageSize = 0 /\ KernelBase % PageSize = 0

\* The length of the first n of the entries, for every n.
Bytes(entries) ==
    LET b[n \in 0 .. Len(entries)] == IF n = 0 THEN 0 ELSE b[n - 1] + entries[n].length
    IN  b

\* The entries of a MADT are what the bytes behind its header read as, as far as memory is
\* mapped: up to the table's end at least, and not to the last address.
ASSUME FirmwareAssumption ==
    /\ MaxEntries \in Nat /\ MadtHeader \in Nat
    /\ \A f \in Firmwares :
        /\ f.memmap \in BOOLEAN /\ f.hhdm \in BOOLEAN /\ f.kernel_address \in BOOLEAN
        /\ f.highest \in Nat /\ f.rsdp \in BOOLEAN
        /\ f.madt # NoTable =>
            /\ f.madt.length \in Nat /\ f.madt.entries \in Seq([kind : STRING, length : Nat])
            /\ LET mapped == MadtHeader + Bytes(f.madt.entries)[Len(f.madt.entries)]
               IN  f.madt.length <= mapped /\ mapped < TwoTo[Bits]

VARIABLES
    firmware,       \* which answers the bootloader gave, the end of memory, the MADT
    pc,             \* the next step of kernel_main, "hcf" where it has given up
    gsbase,         \* GS_BASE holds the address of bsp_percpu
    error,          \* bsp_percpu.error
    range,          \* the virtual range: its first address and its length
    heap_base,      \* the heap's place in it
    read,           \* load_entries: the bytes read
    tables          \* the entries found, by kind

percpuVars == <<gsbase, error>>
memoryVars == <<range, heap_base>>
madtVars == <<read, tables>>
bootVars == <<firmware, pc, percpuVars, memoryVars, madtVars>>
vars == <<bootVars, glueVars, gdt, idt, cpuVars>>

Kinds == {"lapic", "lapic_nmi", "interrupt_source_override", "ioapic"}

Init ==
    /\ Init_Interrupts /\ Init_Glue
    /\ firmware \in Firmwares
    /\ pc = "run_constructors"
    /\ gsbase = FALSE
    /\ error = "MemoryMisaligned"
    /\ range = [start |-> 0, length |-> 0]
    /\ heap_base = 0
    /\ read = 0
    /\ tables = [k \in Kinds |-> <<>>]

-----------------------------------------------------------------------------
\* The kernel executes its own code.
At(step) == pc = step /\ taken = <<>> /\ ~hlt /\ ~reset

\* From one step to the next; uACPI makes no calls.
Step(from, to) ==
    /\ At(from) /\ pc' = to
    /\ UNCHANGED <<firmware, glueVars, cpuVars>>

\* An access through a null pointer or to what is not mapped, which is never gone past.
Fault == PageFault /\ UNCHANGED <<bootVars, glueVars>>

\* cli; hlt.
Hcf(step) ==
    /\ pc' = step /\ Halt
    /\ UNCHANGED <<glueVars, firmware>>

\* The constructors only register destructors, and __cxa_atexit drops them.
RunConstructors ==
    /\ Step("run_constructors", "setup_bsp_percpu")
    /\ UNCHANGED <<percpuVars, memoryVars, madtVars, gdt, idt>>

SetupBspPercpu_WithoutGsBase ==
    /\ Step("setup_bsp_percpu", "init_gdt")
    /\ error' = "MemoryMisaligned"
    /\ UNCHANGED <<gsbase, memoryVars, madtVars, gdt, idt>>

\* The block is cleared, so that its error is that numbered 0.
SetupBspPercpu ==
    /\ Step("setup_bsp_percpu", "init_gdt")
    /\ error' = "MemoryMisaligned"
    /\ gsbase' = TRUE
    /\ UNCHANGED <<memoryVars, madtVars, gdt, idt>>

\* flush_gdt reloads cs, ds, es and ss.  It leaves gs, and with it GS_BASE.
InitGdt ==
    /\ Step("init_gdt", "init_idt")
    /\ gdt' = TRUE
    /\ UNCHANGED <<percpuVars, memoryVars, madtVars, idt>>

InitIdt ==
    /\ Step("init_idt", "init_pma")
    /\ idt' = TRUE
    /\ UNCHANGED <<percpuVars, memoryVars, madtVars, gdt>>

\* FreeListAllocator models the list that is built.  The memory map is asserted, the direct
\* map's answer read untested.
InitPma ==
    \/ /\ firmware.memmap /\ firmware.hhdm
       /\ Step("init_pma", "init_vma")
       /\ UNCHANGED <<percpuVars, memoryVars, madtVars, gdt, idt>>
    \/ /\ firmware.memmap /\ ~firmware.hhdm
       /\ At("init_pma") /\ Fault
    \/ /\ ~firmware.memmap
       /\ At("init_pma") /\ Hcf("hcf")
       /\ UNCHANGED <<percpuVars, memoryVars, madtVars>>

Align(a) == a - (a % PageSize)

VirtualRange_FromTheSlide ==
    [start |-> Align(Slide), length |-> (Align(KernelBase) - Align(Slide)) % TwoTo[Bits]]

\* All between the direct map's end and the kernel.  The difference wraps.
VirtualRange ==
    LET start == Align((Slide + firmware.highest) % TwoTo[Bits])
    IN  [start |-> start, length |-> (Align(KernelBase) - start) % TwoTo[Bits]]

\* get_kernel_base_address reads the bootloader's answer untested.
InitVma ==
    \/ /\ firmware.hhdm /\ firmware.kernel_address
       /\ Step("init_vma", "init_heap")
       /\ range' = VirtualRange
       /\ UNCHANGED <<percpuVars, heap_base, madtVars, gdt, idt>>
    \/ /\ ~(firmware.hhdm /\ firmware.kernel_address)
       /\ At("init_vma") /\ Fault

\* allocate_virtual_memory, which VAddrAllocator models, gives the range's first pages.
InitHeap ==
    /\ IF HeapSize <= range.length
       THEN Step("init_heap", "init_early_acpi") /\ heap_base' = range.start
       ELSE Step("init_heap", "heap_failed") /\ UNCHANGED heap_base
    /\ UNCHANGED <<percpuVars, range, madtVars, gdt, idt>>

\* set_error, by way of GS_BASE, and hcf.
HeapFailed ==
    /\ At("heap_failed")
    /\ IF gsbase
       THEN Hcf("hcf") /\ error' = "OutOfMemory" /\ UNCHANGED <<gsbase, memoryVars, madtVars>>
       ELSE Fault

\* uacpi_initialize begins with get_rsdp, which reads the bootloader's answer untested.
InitEarlyAcpi ==
    IF firmware.rsdp
    THEN /\ Step("init_early_acpi", "uacpi")
         /\ UNCHANGED <<percpuVars, memoryVars, madtVars, gdt, idt>>
    ELSE At("init_early_acpi") /\ Fault

UacpiCalls == At("uacpi") /\ GlueCall /\ UNCHANGED bootVars

\* It returns, with every lock released, or fails.
UacpiReturns ==
    /\ \A h \in DOMAIN objects : ~objects[h].held
    /\ \/ /\ At("uacpi") /\ pc' = "clocksource"
          /\ access' = NoAccess /\ calls' = 0
          /\ UNCHANGED <<firmware, objects, handles, gdt, idt, cpuVars>>
       \/ At("uacpi") /\ Hcf("hcf")
    /\ UNCHANGED <<percpuVars, memoryVars, madtVars>>

\* Clocksource models what registers and what is selected.
InitClocksource ==
    /\ Step("clocksource", "irqs")
    /\ UNCHANGED <<percpuVars, memoryVars, madtVars, gdt, idt>>

InitIrqs ==
    /\ IF firmware.madt # NoTable
       THEN Step("irqs", "load_entries") /\ UNCHANGED <<gdt, idt>>
       ELSE At("irqs") /\ Hcf("hcf")
    /\ UNCHANGED <<percpuVars, memoryVars, madtVars>>

Entries == firmware.madt.entries

\* The difference wraps where the table is shorter than its header.
table_entries_size == (firmware.madt.length - MadtHeader) % TwoTo[Bits]

\* Where the entry i begins.
Begin(i) == Bytes(Entries)[i - 1]

\* There is memory at the bytes that are read next.
Mapped == \E i \in DOMAIN Entries : Begin(i) = read

\* The entry that is read next.
Current == CHOOSE i \in DOMAIN Entries : Begin(i) = read /\ \A m \in 1 .. i - 1 : Begin(m) < read

Found ==
    Len(tables["lapic"]) + Len(tables["lapic_nmi"]) + Len(tables["interrupt_source_override"])
        + Len(tables["ioapic"])

\* A round of the loop over the entry i.  push_back faults when the heap is full.
File(i) ==
    /\ tables' = IF Entries[i].kind \in Kinds THEN [tables EXCEPT ![Entries[i].kind] = Append(@, i)]
                 ELSE tables
    /\ UNCHANGED <<firmware, pc, percpuVars, memoryVars, glueVars, gdt, idt, cpuVars>>

HeapFull(i) == Entries[i].kind \in Kinds /\ Found = MaxEntries

LoadEntry_UntilUnknown ==
    /\ At("load_entries") /\ read < table_entries_size
    /\ IF ~Mapped \/ HeapFull(Current) THEN Fault
       ELSE /\ read' = IF Entries[Current].kind \in Kinds THEN read + Entries[Current].length
                       ELSE table_entries_size
            /\ File(Current)

LoadEntry ==
    /\ At("load_entries") /\ read < table_entries_size
    /\ IF ~Mapped \/ HeapFull(Current) THEN Fault
       ELSE read' = read + Entries[Current].length /\ File(Current)

Idle_OnlyAtTheEnd ==
    /\ At("load_entries") /\ read = table_entries_size
    /\ Hcf("idle")
    /\ UNCHANGED <<percpuVars, memoryVars, madtVars>>

\* The walk is over, and kernel_main ends in cli; hlt.
Idle ==
    /\ At("load_entries") /\ read >= table_entries_size
    /\ Hcf("idle")
    /\ UNCHANGED <<percpuVars, memoryVars, madtVars>>

KernelStep ==
    \/ RunConstructors \/ SetupBspPercpu \/ InitGdt \/ InitIdt \/ InitPma \/ InitVma \/ InitHeap
    \/ HeapFailed \/ InitEarlyAcpi \/ UacpiCalls \/ UacpiReturns \/ InitClocksource \/ InitIrqs
    \/ LoadEntry \/ Idle

HandlerHalt == InterruptHalt /\ UNCHANGED <<bootVars, glueVars>>

Stub == StubStep /\ UNCHANGED <<bootVars, glueVars>>

Interrupt == (Exception \/ SoftwareInterrupt) /\ UNCHANGED <<bootVars, glueVars>>

Next == KernelStep \/ HandlerHalt \/ Stub \/ Interrupt

\* The processor executes what is next.  What an interrupt returns to is executed before the
\* next int n, so that interrupts cannot keep a step from being taken for ever.
Spec ==
    /\ Init /\ [][Next]_vars
    /\ SF_vars(KernelStep) /\ SF_vars(HandlerHalt)
    /\ \A d \in 1 .. MaxDepth : SF_vars(Depth = d /\ Stub)

-----------------------------------------------------------------------------
(* Properties *)

\* Every variable has a value of its type.
TypeOK ==
    /\ gdt \in BOOLEAN /\ idt \in BOOLEAN /\ hlt \in BOOLEAN /\ masked \in BOOLEAN /\ reset \in BOOLEAN
    /\ DOMAIN cpu = Names /\ Depth <= MaxDepth
    /\ \A h \in DOMAIN objects : h <= MaxObjects /\ objects[h].kind \in {"io", "lock", "memory"}
    /\ calls \in 0 .. MaxCalls
    /\ gsbase \in BOOLEAN /\ error \in {"MemoryMisaligned", "OutOfMemory"}
    /\ range.start \in 0 .. TwoTo[Bits] - 1 /\ range.length \in 0 .. TwoTo[Bits] - 1
    /\ Found <= MaxEntries

HeapUsers == {"uacpi", "clocksource", "irqs", "load_entries", "idle"}
Early == {"run_constructors", "setup_bsp_percpu", "init_gdt", "init_idt"}

\* Whatever the bootloader left out (the memory map, the direct map's offset, the kernel's
\* address, the RSDP), a step of the boot finds in place what it uses: set_error the per-CPU
\* block, uACPI, the clock sources and the walk a heap between the direct map and the kernel.
ReadyWhenUsed ==
    /\ pc \notin Early => gsbase
    /\ pc \in {"init_vma", "init_heap", "heap_failed"} => firmware.memmap /\ firmware.hhdm
    /\ pc \in {"init_heap", "heap_failed"} => firmware.kernel_address
    /\ pc \in HeapUsers =>
            /\ firmware.memmap /\ firmware.hhdm /\ firmware.kernel_address
            /\ range = VirtualRange
            /\ heap_base = range.start /\ HeapSize <= range.length
            /\ firmware.rsdp

\* Once init_idt is done no exception, and no fault of the kernel's own, is a triple fault.
ResetsOnlyEarly == reset => pc \in Early

\* Whatever is missing and whatever arrives, each step of the boot finds what those before
\* it were to provide.
BootOrder == TypeOK /\ ReadyWhenUsed /\ ResetsOnlyEarly

\* The heap lies between what the direct map covers and the kernel, where memory ends on a
\* page and below the kernel.
HeapApart ==
    pc \in HeapUsers /\ firmware.highest % PageSize = 0 /\ Slide + firmware.highest <= KernelBase
        => Slide + firmware.highest <= heap_base /\ heap_base + HeapSize <= KernelBase

\* The boot ends well only after every entry that begins within the MADT was read once, in
\* its order, and filed by its kind; never with a MADT that is shorter than its header.
CollectsEveryEntry ==
    pc = "idle" =>
        /\ MadtHeader <= firmware.madt.length
        /\ \A k \in Kinds :
            /\ Range(tables[k]) = {i \in DOMAIN Entries :
                                    Entries[i].kind = k /\ MadtHeader + Begin(i) < firmware.madt.length}
            /\ \A i, j \in DOMAIN tables[k] : i < j => tables[k][i] < tables[k][j]

\* Whatever arrives, the boot comes to an end: idle, given up, or at a halt in a handler.
\* A MADT that has an entry of no length is walked for ever.
BootEnds ==
    (firmware.madt = NoTable \/ \A i \in DOMAIN firmware.madt.entries : firmware.madt.entries[i].length > 0)
        => <>[](hlt \/ reset)
==============================================================================
