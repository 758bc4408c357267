---------------------------- MODULE Clocksource -----------------------------
(***************************************************************************)
(* Clock sources (drivers/): which of the TSC, the HPET and the ACPI timer *)
(* register, which one is selected, and what becomes of its cycles on the  *)
(* way to nanoseconds, in numbers of W and 2 * W bits for uint32_t and     *)
(* uint64_t.  The kernel calls neither ktime::now nor read_delta yet; the  *)
(* model calls both at any time once a source is selected.                 *)
(***************************************************************************)
EXTENDS Integers, Sequences, FiniteSets, Words

CONSTANTS
    W,              \* the width of uint32_t
    NsPerSec, FsPerSec,
    PmFreq,         \* ACPI_PM_FREQ_HZ
    PmBits,         \* the bits of the narrower ACPI timer
    TscReports,     \* bound: the bootloader's frequencies; NoFrequency is none
    NoFrequency,
    HpetReports,    \* bound: the HPET's periods; NoHpet is no table or no memory
    NoHpet,
    PmReports,      \* bound: the FADT's port, length, and the timer's bits; NoPm is no FADT
    NoPm,
    MaxCycles       \* bound: the cycles a counter counts

ASSUME WidthAssumption ==
    /\ W \in Nat \ {0} /\ PmBits \in 1 .. W
    /\ NsPerSec \in Nat \ {0} /\ PmFreq \in 1 .. TwoTo[W] - 1
    /\ TwoTo[W] * NsPerSec < TwoTo[2 * W]

ASSUME ReportsAssumption ==
    /\ FsPerSec \in Nat /\ MaxCycles \in Nat
    /\ TscReports \subseteq Nat \cup {NoFrequency} /\ HpetReports \subseteq Nat \cup {NoHpet}
    /\ PmReports \subseteq [port : Nat, len : Nat, bits : 1 .. W] \cup {NoPm}

\* compute_ms divides by the HPET's frequency, cut to 32 bits.  With 10^15 and 2^32 no
\* period makes that 0.
ASSUME PeriodAssumption == \A p \in HpetReports \ {NoHpet, 0} : (FsPerSec \div p) % TwoTo[W] # 0

VARIABLES
    firmware,       \* what the bootloader and the tables say
    pc,             \* the step of clocksource::init that is next, or "up"
    sources,        \* the registered clock sources
    best,           \* the index of the selected one; 0 is null
    cycles,         \* the cycles its hardware has counted
    cycle_last,     \* what update_cycle_last was given
    marked          \* the value of cycles at that call

vars == <<firmware, pc, sources, best, cycles, cycle_last, marked>>

U32(n) == n % TwoTo[W]
U64(n) == n % TwoTo[2 * W]

compute_ms_WithRoundingUp(freq) ==
    [mult |-> U32((TwoTo[W] * NsPerSec + freq - 1) \div freq), shift |-> W]

compute_ms(freq) == [mult |-> U32(U64(TwoTo[W] * NsPerSec) \div freq), shift |-> W]

cycles_to_ns(n, mult, shift) == U64(n * mult) \div TwoTo[shift]

Source(name, freq, rating, mask, bits) ==
    [name |-> name, freq |-> freq, rating |-> rating, mask |-> mask, bits |-> bits,
     mult |-> compute_ms(freq).mult, shift |-> compute_ms(freq).shift]

-----------------------------------------------------------------------------
Init ==
    /\ firmware \in [tsc : TscReports, hpet : HpetReports, pm : PmReports]
    /\ pc = "tsc"
    /\ sources = <<>>
    /\ best = 0
    /\ cycles = 0 /\ cycle_last = 0 /\ marked = 0

register_clocksource(s) == sources' = Append(sources, s)

Step(from, to) ==
    /\ pc = from /\ pc' = to
    /\ UNCHANGED <<firmware, best, cycles, cycle_last, marked>>

TscUsable == firmware.tsc # NoFrequency /\ U32(firmware.tsc) # 0

TscInit ==
    /\ Step("tsc", "hpet")
    /\ TscUsable
    /\ register_clocksource(Source("tsc", U32(firmware.tsc), 300, TwoTo[2 * W] - 1, 2 * W))

TscNone ==
    /\ Step("tsc", "hpet")
    /\ ~TscUsable
    /\ UNCHANGED sources

HpetFreq == U32(FsPerSec \div firmware.hpet)

HpetInit ==
    /\ Step("hpet", "acpi_pm")
    /\ firmware.hpet \notin {NoHpet, 0}
    /\ register_clocksource(Source("hpet", HpetFreq, 200, TwoTo[W] - 1, W))

HpetNone ==
    /\ Step("hpet", "acpi_pm")
    /\ firmware.hpet \in {NoHpet, 0}
    /\ UNCHANGED sources

PmUsable == firmware.pm # NoPm /\ firmware.pm.port # 0

AcpiPmInit ==
    /\ Step("acpi_pm", "select")
    /\ PmUsable
    /\ register_clocksource(
            Source("acpi_pm", PmFreq, 100, TwoTo[IF firmware.pm.len = 4 THEN W ELSE PmBits] - 1,
                   firmware.pm.bits))

AcpiPmNone ==
    /\ Step("acpi_pm", "select")
    /\ ~PmUsable
    /\ UNCHANGED sources

Select_WithLowestRating ==
    /\ pc = "select" /\ pc' = "up"
    /\ best' = IF sources = <<>> THEN 0
               ELSE CHOOSE i \in DOMAIN sources :
                        \A j \in DOMAIN sources : sources[i].rating <= sources[j].rating
    /\ cycles' \in IF sources = <<>> THEN {0} ELSE 0 .. MaxCycles
    /\ UNCHANGED <<firmware, sources, cycle_last, marked>>

\* The first of those with the highest rating.
Fittest(i) ==
    \A j \in DOMAIN sources :
        sources[j].rating < sources[i].rating \/ (sources[j].rating = sources[i].rating /\ i <= j)

\* The hardware may have counted for any time by now.
Select ==
    /\ pc = "select" /\ pc' = "up"
    /\ best' = IF sources = <<>> THEN 0 ELSE CHOOSE i \in DOMAIN sources : Fittest(i)
    /\ cycles' \in IF sources = <<>> THEN {0} ELSE 0 .. MaxCycles
    /\ UNCHANGED <<firmware, sources, cycle_last, marked>>

Tick ==
    /\ pc = "up" /\ best # 0 /\ cycles < MaxCycles
    /\ cycles' = cycles + 1
    /\ UNCHANGED <<firmware, pc, sources, best, cycle_last, marked>>

cs == sources[best]

\* read(): the low bits of what the hardware has counted.
read == cycles % TwoTo[cs.bits]

\* update_cycle_last(read()).
UpdateCycleLast ==
    /\ pc = "up" /\ best # 0
    /\ cycle_last' = read /\ marked' = cycles
    /\ UNCHANGED <<firmware, pc, sources, best, cycles>>

Next ==
    \/ TscInit \/ TscNone \/ HpetInit \/ HpetNone \/ AcpiPmInit \/ AcpiPmNone
    \/ Select \/ Tick \/ UpdateCycleLast

Spec == Init /\ [][Next]_vars

\* (now - last) & mask, in 64 bits; a mask is one less than a power of 2.
read_delta_WithoutMask == U64(read - cycle_last)

read_delta == U64(read - cycle_last) % (cs.mask + 1)

\* ktime::now().
now == cycles_to_ns(read, cs.mult, cs.shift)

-----------------------------------------------------------------------------
(* Properties *)

Up == pc = "up" /\ best # 0

\* Every variable has a value of its type.
TypeOK ==
    /\ pc \in {"tsc", "hpet", "acpi_pm", "select", "up"}
    /\ \A i \in DOMAIN sources :
            /\ sources[i].freq \in 1 .. TwoTo[W] - 1 /\ sources[i].mult \in 0 .. TwoTo[W] - 1
            /\ sources[i].shift = W /\ sources[i].mask \in 0 .. TwoTo[2 * W] - 1
    /\ best \in {0} \cup DOMAIN sources
    /\ cycles \in 0 .. MaxCycles /\ cycle_last \in 0 .. MaxCycles /\ marked \in 0 .. MaxCycles

Has(name) == \E i \in DOMAIN sources : sources[i].name = name

\* Whichever sources are missing or broken, init selects the best of the others, and
\* only where there is none is there nothing to read.
BestAvailable ==
    pc = "up" =>
        /\ Has("tsc") => cs.name = "tsc"
        /\ Has("hpet") /\ ~Has("tsc") => cs.name = "hpet"
        /\ Has("acpi_pm") /\ Cardinality(DOMAIN sources) = 1 => cs.name = "acpi_pm"
        /\ best = 0 <=> ~TscUsable /\ firmware.hpet \in {NoHpet, 0} /\ ~PmUsable

\* What is registered has fields that fit their widths, and the best of it is selected.
SelectionSound == TypeOK /\ BestAvailable

\* The nanoseconds of a second that mult stands for: in 32 bits it has lost the whole
\* nanoseconds of a cycle, so that of a clock of 1 GHz or less a part is left, or nothing.
FractionKept == NsPerSec % cs.freq

\* The nanoseconds lost where cycles * mult leaves 64 bits.
Overflown == TwoTo[W] * ((read * cs.mult) \div TwoTo[2 * W])

\* ktime::now is never ahead of the time that has been counted.  It is behind by what the
\* counter has lost in wrapping, the product in its overflows, mult of whole nanoseconds,
\* and, of what is left, by less than the two roundings: nothing else is ever lost.
NowIsAccounted ==
    Up => LET whole == now + Overflown
          IN  /\ now * cs.freq <= cycles * NsPerSec
              /\ whole * cs.freq <= read * FractionKept
              /\ (whole + 1) * cs.freq * TwoTo[W] + read * cs.freq > read * FractionKept * TwoTo[W]

\* A mask wider than the counter lets through, when the counter has wrapped, the bits that
\* the counter has not.
WrapCounted ==
    IF cs.mask >= TwoTo[cs.bits] /\ read < cycle_last THEN cs.mask + 1 - TwoTo[cs.bits] ELSE 0

\* read_delta is what has been counted since update_cycle_last, also when the counter has
\* wrapped in between, as long as neither mask nor counter has gone round.  Only the ACPI
\* timer of 24 bits in a port of 32 counts too much, and only across a wrap.
DeltaIsElapsed ==
    Up /\ cycles - marked \in 0 .. cs.mask /\ cycles - marked < TwoTo[cs.bits]
        => read_delta = cycles - marked + WrapCounted

==============================================================================
