------------------------------- MODULE AcpiGlue ------------------------------
(***************************************************************************)
(* What uACPI asks of the kernel (acpi/glue.cpp, acpi/uacpi_io.cpp): port  *)
(* windows, mutexes and spinlocks, memory.  uACPI itself is external: it   *)
(* makes any calls, MaxCalls of them, on the handles that it has.  Numbers *)
(* are Bits wide (uacpi_size), a port PortBits (uint16_t).  The remaining  *)
(* entry points log that they are unimplemented and change nothing.        *)
(***************************************************************************)
EXTENDS Interrupts, FiniteSets, Functions, Words

CONSTANTS
    Bits, PortBits,
    Windows,        \* bound: the windows mapped, <<base, length>>
    Offsets,        \* bound: the offsets accessed
    MaxObjects,     \* bound: the objects at a time
    MaxCalls        \* bound: the calls of uACPI that are no release

ASSUME WidthAssumption ==
    /\ Bits \in Nat \ {0} /\ PortBits \in 1 .. Bits
    /\ Offsets \subseteq 0 .. TwoTo[Bits] - 1
    /\ Windows \subseteq (0 .. TwoTo[Bits] - 1) \X (0 .. TwoTo[Bits] - 1)
    /\ MaxObjects \in Nat /\ MaxCalls \in Nat

VARIABLES
    objects,        \* what operator new and malloc have given to uACPI or for it
    handles,        \* those of them that uACPI has not given back
    access,         \* the last call's access by a window, and the ports it touched
    calls           \* how many calls uACPI has made

glueVars == <<objects, handles, access, calls>>

NoAccess == [window |-> <<0, 0>>, offset |-> 0, width |-> 1, ok |-> FALSE, ports |-> {}]

Init_Glue == objects = <<>> /\ handles = {} /\ access = NoAccess /\ calls = 0

Call == calls < MaxCalls /\ calls' = calls + 1

FreshHandles == (1 .. MaxObjects) \ DOMAIN objects

PageFault == Take(14)

\* The heap or memory may be full at any call: malloc writes at the address 8 then, which is
\* a page fault.
Make(object) ==
    LET h == CHOOSE n \in FreshHandles : \A m \in FreshHandles : n <= m
    IN  /\ Call
        /\ access' = NoAccess
        /\ \/ /\ FreshHandles # {}
              /\ objects' = [n \in DOMAIN objects \cup {h} |-> IF n = h THEN object ELSE objects[n]]
              /\ handles' = handles \cup {h}
              /\ UNCHANGED <<gdt, idt, cpuVars>>
           \/ PageFault /\ UNCHANGED <<objects, handles>>

IoMap(window) == [kind |-> "io", window |-> window, held |-> FALSE]
Spinlock == [kind |-> "lock", window |-> <<0, 0>>, held |-> FALSE]
Memory == [kind |-> "memory", window |-> <<0, 0>>, held |-> FALSE]

uacpi_kernel_io_map == \E w \in Windows : Make(IoMap(w))

\* uacpi_kernel_create_mutex and _spinlock.
uacpi_kernel_create_mutex == Make(Spinlock)

\* malloc returns null for a size out of its range.
uacpi_kernel_alloc ==
    \/ Make(Memory)
    \/ Call /\ access' = NoAccess /\ UNCHANGED <<objects, handles, gdt, idt, cpuVars>>

Has(kind) == {h \in handles : objects[h].kind = kind}

GiveBack(h) ==
    /\ objects' = Restrict(objects, DOMAIN objects \ {h})
    /\ handles' = handles \ {h}
    /\ access' = NoAccess
    /\ UNCHANGED <<calls, gdt, idt, cpuVars>>

uacpi_kernel_io_unmap_WithoutDelete ==
    \E h \in Has("io") :
        /\ handles' = handles \ {h} /\ access' = NoAccess
        /\ UNCHANGED <<objects, calls, gdt, idt, cpuVars>>

uacpi_kernel_io_unmap == \E h \in Has("io") : GiveBack(h)

\* free may trim the heap or unmap the chunk, and sbrk and munmap halt then.
uacpi_kernel_free ==
    \E h \in Has("memory") : GiveBack(h) \/ (Halt /\ UNCHANGED glueVars)

\* Unimplemented, the free_spinlock too: the lock stays.
uacpi_kernel_free_mutex ==
    \E h \in Has("lock") :
        /\ ~objects[h].held
        /\ handles' = handles \ {h} /\ access' = NoAccess
        /\ UNCHANGED <<objects, calls, gdt, idt, cpuVars>>

\* The bounds test of read8, read16 and read32, and of the writes; the sum wraps.
InWindow_WithOneMore(offset, width, len) == (offset + width - 1) % TwoTo[Bits] <= len

InWindow(offset, width, len) == (offset + width - 1) % TwoTo[Bits] < len

\* inb(m_base + offset) and its like: a port number is cut.
uacpi_kernel_io_access ==
    /\ Call
    /\ \E h \in Has("io"), offset \in Offsets, width \in {1, 2, 4} :
        LET w == objects[h].window
            ok == InWindow(offset, width, w[2])
        IN  access' = [window |-> w, offset |-> offset, width |-> width, ok |-> ok,
                       ports |-> IF ok THEN {(w[1] + offset + k) % TwoTo[PortBits] : k \in 0 .. width - 1}
                                 ELSE {}]
    /\ UNCHANGED <<objects, handles, gdt, idt, cpuVars>>

SetHeld(h, held) ==
    /\ objects' = [objects EXCEPT ![h].held = held]
    /\ access' = NoAccess
    /\ UNCHANGED <<handles, gdt, idt, cpuVars>>

\* acquire_mutex and lock_spinlock: they spin until the lock is free, whatever the timeout.
\* Nothing else runs that would free it, so uACPI is assumed not to ask for one it holds.
uacpi_kernel_acquire_mutex == Call /\ \E h \in Has("lock") : ~objects[h].held /\ SetHeld(h, TRUE)

uacpi_kernel_release_mutex ==
    \E h \in Has("lock") : objects[h].held /\ SetHeld(h, FALSE) /\ UNCHANGED calls

GlueCall ==
    \/ uacpi_kernel_io_map \/ uacpi_kernel_create_mutex \/ uacpi_kernel_alloc
    \/ uacpi_kernel_io_unmap \/ uacpi_kernel_free \/ uacpi_kernel_free_mutex
    \/ uacpi_kernel_io_access \/ uacpi_kernel_acquire_mutex \/ uacpi_kernel_release_mutex

-----------------------------------------------------------------------------
(* Properties *)

\* An access that succeeds touches the ports of its window and no others, as long as the
\* offset's sum does not wrap and the window ends below 2^16.
PortsInWindow ==
    LET base == access.window[1]
        len == access.window[2]
    IN  access.ok /\ access.offset + access.width <= TwoTo[Bits] /\ base + len <= TwoTo[PortBits] =>
            /\ access.ports \subseteq base .. base + len - 1
            /\ Cardinality(access.ports) = access.width

\* Every handle that uACPI holds is of an object that is allocated, and what is allocated
\* without one is a free lock: nothing else leaks.
OnlyLocksLeak ==
    /\ handles \subseteq DOMAIN objects
    /\ \A h \in DOMAIN objects \ handles : objects[h].kind = "lock" /\ ~objects[h].held
==============================================================================
