-------------------------- MODULE ClocksourceProofs ---------------------------
(***************************************************************************)
(* The clock sources for numbers of every width and every frequency the    *)
(* firmware may report: which one is selected, how exact ktime::now is,    *)
(* and that read_delta survives a counter that wraps.                      *)
(***************************************************************************)
EXTENDS Clocksource, NumberTheorems, FiniteSetTheorems

LEMMA Widths ==
    /\ W \in Nat \ {0} /\ PmBits \in 1 .. W /\ PmFreq \in 1 .. TwoTo[W] - 1 /\ NsPerSec \in Nat \ {0}
    /\ TwoTo[W] \in Nat \ {0} /\ TwoTo[2 * W] \in Nat \ {0} /\ TwoTo[2 * W] = TwoTo[W] * TwoTo[W]
    /\ TwoTo[W] <= TwoTo[2 * W]
<1>1. W \in Nat \ {0} /\ PmBits \in 1 .. W /\ PmFreq \in 1 .. TwoTo[W] - 1 /\ NsPerSec \in Nat \ {0}
    BY WidthAssumption
<1>2. W \in Nat /\ 2 * W \in Nat /\ 2 * W = W + W
    BY <1>1
<1>3. TwoTo[W] \in Nat \ {0} /\ TwoTo[2 * W] \in Nat \ {0}
    BY <1>2, TwoToAt
<1>4. TwoTo[2 * W] = TwoTo[W] * TwoTo[W]
    BY <1>2, TwoToSum
<1> DEFINE t == TwoTo[W]
<1> HIDE DEF t
<1>5. t \in Nat \ {0} /\ TwoTo[2 * W] = t * t
    BY <1>3, <1>4 DEF t
<1>6. t * t >= t
    <2>1. t * (t - 1) >= 0
        BY <1>5
    <2> QED
        BY <1>5, <2>1
<1> QED
    BY <1>1, <1>3, <1>4, <1>5, <1>6 DEF t

\* A number of fewer bits is smaller.
LEMMA TwoToGrows ==
    ASSUME NEW m \in Nat, NEW n \in Nat, m <= n
    PROVE  TwoTo[m] <= TwoTo[n]
<1> DEFINE k == n - m
           a == TwoTo[m]
           b == TwoTo[k]
<1>1. k \in Nat /\ m + k = n
    OBVIOUS
<1> HIDE DEF k
<1>2. TwoTo[n] = a * b /\ a \in Nat \ {0} /\ b \in Nat \ {0}
    <2>1. TwoTo[m + k] = TwoTo[m] * TwoTo[k]
        BY <1>1, TwoToSum
    <2> QED
        BY <1>1, <2>1, TwoToAt
<1> HIDE DEF a, b
<1>3. a * (b - 1) >= 0
    BY <1>2
<1>4. a <= a * b
    BY <1>2, <1>3
<1> QED
    BY <1>2, <1>4 DEF a

-----------------------------------------------------------------------------
(* The inductive invariant *)

Names == {"tsc", "hpet", "acpi_pm"}

Rating == [name \in Names |-> IF name = "tsc" THEN 300 ELSE IF name = "hpet" THEN 200 ELSE 100]

\* What a driver registers.
Registered ==
    {s \in [name : Names, freq : 1 .. TwoTo[W] - 1, rating : Nat, mask : 0 .. TwoTo[2 * W] - 1,
            bits : 1 .. 2 * W, mult : 0 .. TwoTo[W] - 1, shift : {W}] :
        /\ s.rating = Rating[s.name] /\ s.mult = compute_ms(s.freq).mult
        /\ \E k \in 1 .. 2 * W : s.mask = TwoTo[k] - 1}

HpetUsable == firmware.hpet \notin {NoHpet, 0}

\* Each driver that found its hardware has registered one source, when its turn was over.
SourcesInv ==
    /\ pc \in {"tsc", "hpet", "acpi_pm", "select", "up"}
    /\ firmware \in [tsc : TscReports, hpet : HpetReports, pm : PmReports]
    /\ sources \in Seq(Registered)
    /\ \A i, j \in DOMAIN sources : sources[i].name = sources[j].name => i = j
    /\ Has("tsc") <=> TscUsable /\ pc # "tsc"
    /\ Has("hpet") <=> HpetUsable /\ pc \notin {"tsc", "hpet"}
    /\ Has("acpi_pm") <=> PmUsable /\ pc \in {"select", "up"}

\* The selected source, and what update_cycle_last has kept of its counter.
SelectionInv ==
    /\ best \in {0} \cup DOMAIN sources
    /\ pc # "up" => best = 0
    /\ pc = "up" /\ sources # <<>> => best # 0 /\ Fittest(best)
    /\ cycles \in 0 .. MaxCycles /\ cycle_last \in 0 .. MaxCycles /\ marked \in 0 .. MaxCycles
    /\ IF best = 0 THEN cycles = 0 /\ cycle_last = 0 /\ marked = 0
       ELSE cycle_last = marked % TwoTo[cs.bits]

IInv == SourcesInv /\ SelectionInv

LEMMA RatingIs == Rating["tsc"] = 300 /\ Rating["hpet"] = 200 /\ Rating["acpi_pm"] = 100
BY DEF Rating, Names

\* A number cut to its width is within it, and a number within it is not changed.
LEMMA Cut ==
    ASSUME NEW v \in Nat
    PROVE  /\ U32(v) \in 0 .. TwoTo[W] - 1 /\ U64(v) \in 0 .. TwoTo[2 * W] - 1
           /\ v < TwoTo[W] => U32(v) = v
           /\ v < TwoTo[2 * W] => U64(v) = v
<1> DEFINE s == TwoTo[W]
           t == TwoTo[2 * W]
<1>1. s \in Nat \ {0} /\ t \in Nat \ {0}
    BY Widths
<1> HIDE DEF s, t
<1>2. v % s \in 0 .. s - 1 /\ v % t \in 0 .. t - 1 /\ (v < s => v % s = v) /\ (v < t => v % t = v)
    BY <1>1
<1> QED
    BY <1>2 DEF U32, U64, s, t

LEMMA MultiplierFits ==
    ASSUME NEW freq \in 1 .. TwoTo[W] - 1
    PROVE  compute_ms(freq).mult \in 0 .. TwoTo[W] - 1 /\ compute_ms(freq).shift = W
<1> DEFINE n == TwoTo[W] * NsPerSec
           q == U64(n) \div freq
<1>1. n \in Nat
    BY Widths
<1>2. U64(n) \in Nat
    BY <1>1, Cut
<1>3. q \in Nat
    <2>1. freq \in Nat \ {0}
        BY Widths
    <2> QED
        BY <1>2, <2>1, Quotient
<1>4. U32(q) \in 0 .. TwoTo[W] - 1
    BY <1>3, Widths, Quotient DEF U32
<1> QED
    BY <1>4 DEF compute_ms

LEMMA SourceIsRegistered ==
    ASSUME NEW name \in Names, NEW freq \in 1 .. TwoTo[W] - 1, NEW mask \in 0 .. TwoTo[2 * W] - 1,
           NEW bits \in 1 .. 2 * W, \E k \in 1 .. 2 * W : mask = TwoTo[k] - 1
    PROVE  /\ Source(name, freq, Rating[name], mask, bits) \in Registered
           /\ Source(name, freq, Rating[name], mask, bits).name = name
<1>1. compute_ms(freq).mult \in 0 .. TwoTo[W] - 1 /\ compute_ms(freq).shift = W
    BY MultiplierFits
<1>2. Rating[name] \in Nat
    BY DEF Rating
<1> HIDE DEF compute_ms
<1> QED
    BY <1>1, <1>2 DEF Source, Registered

\* A driver's turn, with its hardware there.
LEMMA RegisterKeeps ==
    ASSUME NEW s \in Registered, SourcesInv, ~ Has(s.name), sources' = Append(sources, s)
    PROVE  /\ sources' \in Seq(Registered)
           /\ \A i, j \in DOMAIN sources' : sources'[i].name = sources'[j].name => i = j
           /\ \A name \in Names : Has(name)' <=> Has(name) \/ name = s.name
<1>1. sources \in Seq(Registered)
    BY DEF SourcesInv
<1> DEFINE n == Len(sources)
<1>2. n \in Nat /\ DOMAIN sources = 1 .. n
    BY <1>1
<1>3. /\ sources' \in Seq(Registered) /\ DOMAIN sources' = 1 .. n + 1
      /\ \A i \in 1 .. n : sources'[i] = sources[i]
      /\ sources'[n + 1] = s
    BY <1>1
<1> HIDE DEF n
<1>4. \A i \in 1 .. n : sources[i].name # s.name
    BY <1>2 DEF Has
<1>5. ASSUME NEW i \in 1 .. n + 1, NEW j \in 1 .. n + 1, sources'[i].name = sources'[j].name
      PROVE  i = j
    <2>1. CASE i \in 1 .. n /\ j \in 1 .. n
        BY <1>2, <1>3, <1>5, <2>1 DEF SourcesInv
    <2>2. CASE i = n + 1 \/ j = n + 1
        BY <1>2, <1>3, <1>4, <1>5, <2>2
    <2> QED
        BY <1>2, <2>1, <2>2
<1>6. ASSUME NEW name \in Names PROVE Has(name)' <=> Has(name) \/ name = s.name
    <2>1. n + 1 \in 1 .. n + 1 /\ \A i \in 1 .. n + 1 : i \in 1 .. n \/ i = n + 1
        BY <1>2
    <2>2. 1 .. n \subseteq 1 .. n + 1
        BY <1>2
    <2> QED
        BY <1>2, <1>3, <2>1, <2>2 DEF Has
<1> QED
    BY <1>3, <1>5, <1>6

LEMMA InitSources == Init => IInv
<1> SUFFICES ASSUME Init PROVE IInv
    OBVIOUS
<1>1. sources \in Seq(Registered) /\ DOMAIN sources = {}
    BY DEF Init
<1>2. \A name : ~ Has(name)
    BY <1>1 DEF Has
<1>3. 0 \in 0 .. MaxCycles
    BY ReportsAssumption
<1> QED
    BY <1>1, <1>2, <1>3 DEF Init, IInv, SourcesInv, SelectionInv

\* A step of init before the last.
LEMMA TurnKeeps ==
    ASSUME IInv, NEW from \in Names, NEW to \in {"hpet", "acpi_pm", "select"}, Step(from, to)
    PROVE  SelectionInv'
<1>1. pc' # "up" /\ pc # "up" /\ UNCHANGED <<best, cycles, cycle_last, marked>>
    BY DEF Step, Names
<1>2. best = 0
    BY <1>1 DEF IInv, SelectionInv
<1> QED
    BY <1>1, <1>2 DEF IInv, SelectionInv

LEMMA TscKeeps == IInv /\ (TscInit \/ TscNone) => IInv'
<1> SUFFICES ASSUME IInv, TscInit \/ TscNone PROVE IInv'
    OBVIOUS
<1>1. Step("tsc", "hpet") /\ pc = "tsc" /\ pc' = "hpet" /\ firmware' = firmware
    BY DEF TscInit, TscNone, Step
<1>2. SelectionInv'
    BY <1>1, TurnKeeps DEF Names
<1>3. ~ Has("tsc") /\ ~ Has("hpet") /\ ~ Has("acpi_pm")
    BY <1>1 DEF IInv, SourcesInv
<1>4. UNCHANGED <<TscUsable, HpetUsable, PmUsable>>
    BY <1>1 DEF TscUsable, HpetUsable, PmUsable
<1>5. CASE TscNone
    <2>1. sources' = sources /\ ~ TscUsable
        BY <1>5 DEF TscNone
    <2>2. \A name : Has(name)' <=> Has(name)
        BY <2>1 DEF Has
    <2> QED
        BY <1>1, <1>2, <1>3, <1>4, <2>1, <2>2 DEF IInv, SourcesInv
<1>6. CASE TscInit
    <2> DEFINE s == Source("tsc", U32(firmware.tsc), 300, TwoTo[2 * W] - 1, 2 * W)
    <2>1. sources' = Append(sources, s) /\ TscUsable
        BY <1>6 DEF TscInit, register_clocksource
    <2>2. U32(firmware.tsc) \in 1 .. TwoTo[W] - 1
        <3>1. firmware.tsc \in Nat
            BY <2>1, ReportsAssumption DEF TscUsable, IInv, SourcesInv
        <3>2. U32(firmware.tsc) \in 0 .. TwoTo[W] - 1
            BY <3>1, Widths, Quotient DEF U32
        <3> QED
            BY <2>1, <3>2, Widths DEF TscUsable
    <2>3. s \in Registered /\ s.name = "tsc"
        <3> DEFINE mask == TwoTo[2 * W] - 1
        <3>1. /\ mask \in 0 .. TwoTo[2 * W] - 1 /\ 2 * W \in 1 .. 2 * W /\ "tsc" \in Names
              /\ \E k \in 1 .. 2 * W : mask = TwoTo[k] - 1
            BY Widths DEF Names
        <3> HIDE DEF mask
        <3>2. /\ Source("tsc", U32(firmware.tsc), Rating["tsc"], mask, 2 * W) \in Registered
              /\ Source("tsc", U32(firmware.tsc), Rating["tsc"], mask, 2 * W).name = "tsc"
            BY <2>2, <3>1, SourceIsRegistered
        <3> QED
            BY <3>2, RatingIs DEF mask
    <2> HIDE DEF s
    <2>4. /\ sources' \in Seq(Registered)
          /\ \A i, j \in DOMAIN sources' : sources'[i].name = sources'[j].name => i = j
          /\ \A name \in Names : Has(name)' <=> Has(name) \/ name = "tsc"
        BY <1>3, <2>1, <2>3, RegisterKeeps DEF IInv
    <2> QED
        BY <1>1, <1>2, <1>3, <1>4, <2>1, <2>4 DEF IInv, SourcesInv, Names
<1> QED
    BY <1>5, <1>6

LEMMA HpetKeeps == IInv /\ (HpetInit \/ HpetNone) => IInv'
<1> SUFFICES ASSUME IInv, HpetInit \/ HpetNone PROVE IInv'
    OBVIOUS
<1>1. Step("hpet", "acpi_pm") /\ pc = "hpet" /\ pc' = "acpi_pm" /\ firmware' = firmware
    BY DEF HpetInit, HpetNone, Step
<1>2. SelectionInv'
    BY <1>1, TurnKeeps DEF Names
<1>3. (Has("tsc") <=> TscUsable) /\ ~ Has("hpet") /\ ~ Has("acpi_pm")
    BY <1>1 DEF IInv, SourcesInv
<1>4. UNCHANGED <<TscUsable, HpetUsable, PmUsable>>
    BY <1>1 DEF TscUsable, HpetUsable, PmUsable
<1>5. CASE HpetNone
    <2>1. sources' = sources /\ ~ HpetUsable
        BY <1>5 DEF HpetNone, HpetUsable
    <2>2. \A name : Has(name)' <=> Has(name)
        BY <2>1 DEF Has
    <2> QED
        BY <1>1, <1>2, <1>3, <1>4, <2>1, <2>2 DEF IInv, SourcesInv
<1>6. CASE HpetInit
    <2> DEFINE s == Source("hpet", HpetFreq, 200, TwoTo[W] - 1, W)
    <2>1. sources' = Append(sources, s) /\ HpetUsable
        BY <1>6 DEF HpetInit, register_clocksource, HpetUsable
    <2>2. HpetFreq \in 1 .. TwoTo[W] - 1
        <3>1. firmware.hpet \in HpetReports \ {NoHpet, 0} /\ firmware.hpet \in Nat \ {0}
            BY <2>1, ReportsAssumption DEF HpetUsable, IInv, SourcesInv
        <3>2. FsPerSec \div firmware.hpet \in Nat
            BY <3>1, ReportsAssumption, Quotient
        <3>3. HpetFreq \in 0 .. TwoTo[W] - 1
            BY <3>2, Widths, Quotient DEF U32, HpetFreq
        <3>4. HpetFreq # 0
            BY <3>1, PeriodAssumption DEF HpetFreq, U32
        <3> QED
            BY <3>3, <3>4, Widths
    <2>3. s \in Registered /\ s.name = "hpet"
        <3> DEFINE mask == TwoTo[W] - 1
        <3>1. /\ mask \in 0 .. TwoTo[2 * W] - 1 /\ W \in 1 .. 2 * W /\ "hpet" \in Names
              /\ \E k \in 1 .. 2 * W : mask = TwoTo[k] - 1
            BY Widths DEF Names
        <3> HIDE DEF mask
        <3>2. /\ Source("hpet", HpetFreq, Rating["hpet"], mask, W) \in Registered
              /\ Source("hpet", HpetFreq, Rating["hpet"], mask, W).name = "hpet"
            BY <2>2, <3>1, SourceIsRegistered
        <3> QED
            BY <3>2, RatingIs DEF mask
    <2> HIDE DEF s
    <2>4. /\ sources' \in Seq(Registered)
          /\ \A i, j \in DOMAIN sources' : sources'[i].name = sources'[j].name => i = j
          /\ \A name \in Names : Has(name)' <=> Has(name) \/ name = "hpet"
        BY <1>3, <2>1, <2>3, RegisterKeeps DEF IInv
    <2> QED
        BY <1>1, <1>2, <1>3, <1>4, <2>1, <2>4 DEF IInv, SourcesInv, Names
<1> QED
    BY <1>5, <1>6

LEMMA AcpiPmKeeps == IInv /\ (AcpiPmInit \/ AcpiPmNone) => IInv'
<1> SUFFICES ASSUME IInv, AcpiPmInit \/ AcpiPmNone PROVE IInv'
    OBVIOUS
<1>1. Step("acpi_pm", "select") /\ pc = "acpi_pm" /\ pc' = "select" /\ firmware' = firmware
    BY DEF AcpiPmInit, AcpiPmNone, Step
<1>2. SelectionInv'
    BY <1>1, TurnKeeps DEF Names
<1>3. (Has("tsc") <=> TscUsable) /\ (Has("hpet") <=> HpetUsable) /\ ~ Has("acpi_pm")
    BY <1>1 DEF IInv, SourcesInv
<1>4. UNCHANGED <<TscUsable, HpetUsable, PmUsable>>
    BY <1>1 DEF TscUsable, HpetUsable, PmUsable
<1>5. CASE AcpiPmNone
    <2>1. sources' = sources /\ ~ PmUsable
        BY <1>5 DEF AcpiPmNone
    <2>2. \A name : Has(name)' <=> Has(name)
        BY <2>1 DEF Has
    <2> QED
        BY <1>1, <1>2, <1>3, <1>4, <2>1, <2>2 DEF IInv, SourcesInv
<1>6. CASE AcpiPmInit
    <2> DEFINE k == IF firmware.pm.len = 4 THEN W ELSE PmBits
               s == Source("acpi_pm", PmFreq, 100, TwoTo[k] - 1, firmware.pm.bits)
    <2>1. sources' = Append(sources, s) /\ PmUsable
        BY <1>6 DEF AcpiPmInit, register_clocksource
    <2>2. firmware.pm.bits \in 1 .. W
        <3>1. firmware.pm \in [port : Nat, len : Nat, bits : 1 .. W]
            BY <2>1, ReportsAssumption DEF PmUsable, IInv, SourcesInv
        <3> QED
            BY <3>1
    <2>3. k \in 1 .. W
        BY Widths
    <2> HIDE DEF k
    <2>4. TwoTo[k] \in Nat \ {0} /\ TwoTo[k] <= TwoTo[W]
        BY <2>3, Widths, TwoToAt, TwoToGrows
    <2>5. s \in Registered /\ s.name = "acpi_pm"
        <3> DEFINE mask == TwoTo[k] - 1
        <3>1. /\ mask \in 0 .. TwoTo[2 * W] - 1 /\ firmware.pm.bits \in 1 .. 2 * W /\ "acpi_pm" \in Names
              /\ k \in 1 .. 2 * W
            BY <2>2, <2>3, <2>4, Widths DEF Names
        <3>2. \E i \in 1 .. 2 * W : mask = TwoTo[i] - 1
            BY <3>1
        <3> HIDE DEF mask
        <3>3. /\ Source("acpi_pm", PmFreq, Rating["acpi_pm"], mask, firmware.pm.bits) \in Registered
              /\ Source("acpi_pm", PmFreq, Rating["acpi_pm"], mask, firmware.pm.bits).name = "acpi_pm"
            BY <3>1, <3>2, Widths, SourceIsRegistered
        <3> QED
            BY <3>3, RatingIs DEF mask
    <2> HIDE DEF s
    <2>6. /\ sources' \in Seq(Registered)
          /\ \A i, j \in DOMAIN sources' : sources'[i].name = sources'[j].name => i = j
          /\ \A name \in Names : Has(name)' <=> Has(name) \/ name = "acpi_pm"
        BY <1>3, <2>1, <2>5, RegisterKeeps DEF IInv
    <2> QED
        BY <1>1, <1>2, <1>3, <1>4, <2>1, <2>6 DEF IInv, SourcesInv, Names
<1> QED
    BY <1>5, <1>6

\* Where there is a source, there is a first one of the highest rating.
LEMMA FittestExists ==
    ASSUME SourcesInv, sources # <<>>
    PROVE  \E i \in DOMAIN sources : Fittest(i)
<1>1. /\ DOMAIN sources = 1 .. Len(sources) /\ Len(sources) \in Nat
      /\ \A i \in DOMAIN sources : sources[i] \in Registered
    BY DEF SourcesInv
<1>2. 1 \in DOMAIN sources
    BY <1>1 DEF SourcesInv
<1>3. ASSUME NEW s \in Registered PROVE s.rating \in 0 .. 300
    <2>1. s.name \in Names /\ s.rating = Rating[s.name]
        BY DEF Registered
    <2>2. s.rating \in {100, 200, 300}
        BY <2>1, RatingIs DEF Names
    <2> QED
        BY <2>2
<1> DEFINE gaps == {n \in Nat : \E i \in DOMAIN sources : sources[i].rating = 300 - n}
<1>4. gaps \subseteq Nat /\ gaps # {}
    <2> DEFINE r == sources[1].rating
    <2>1. r \in 0 .. 300
        BY <1>1, <1>2, <1>3
    <2> HIDE DEF r
    <2>2. 300 - r \in Nat /\ r = 300 - (300 - r)
        BY <2>1
    <2>3. 300 - r \in gaps
        BY <1>2, <2>2 DEF r
    <2> QED
        BY <2>3
<1>5. PICK g \in gaps : \A h \in gaps : g <= h
    <2> HIDE DEF gaps
    <2> QED
        BY <1>4, LeastNumber
<1> DEFINE firsts == {i \in DOMAIN sources : sources[i].rating = 300 - g}
<1>6. firsts \subseteq Nat /\ firsts # {}
    BY <1>1, <1>5
<1>7. PICK i \in firsts : \A j \in firsts : i <= j
    <2> HIDE DEF firsts
    <2> QED
        BY <1>6, LeastNumber
<1>8. ASSUME NEW j \in DOMAIN sources
      PROVE  sources[j].rating < sources[i].rating \/ (sources[j].rating = sources[i].rating /\ i <= j)
    <2>1. sources[i].rating = 300 - g /\ g \in Nat
        BY <1>5, <1>7
    <2>2. sources[j].rating \in 0 .. 300
        BY <1>1, <1>3
    <2>3. CASE sources[j].rating = 300 - g
        <3>1. j \in firsts
            BY <2>3
        <3>2. i <= j
            BY <1>7, <3>1
        <3> QED
            BY <2>1, <2>3, <3>2
    <2>4. CASE sources[j].rating # 300 - g
        <3> DEFINE r == sources[j].rating
                   h == 300 - r
        <3>0. r \in 0 .. 300
            BY <2>2
        <3> HIDE DEF r
        <3>1. h \in Nat /\ r = 300 - h
            BY <3>0
        <3>2. h \in gaps
            BY <3>1 DEF r
        <3>3. g <= h
            BY <1>5, <3>2
        <3> HIDE DEF h, r
        <3>4. r < 300 - g
            BY <2>1, <2>4, <3>1, <3>3 DEF r
        <3> QED
            BY <2>1, <3>4 DEF r
    <2> QED
        BY <2>3, <2>4
<1> QED
    BY <1>7, <1>8 DEF Fittest

LEMMA SelectKeeps == IInv /\ Select => IInv'
<1> SUFFICES ASSUME IInv, Select PROVE IInv'
    OBVIOUS
<1>1. /\ pc = "select" /\ pc' = "up" /\ UNCHANGED <<firmware, sources, cycle_last, marked>>
      /\ best' = (IF sources = <<>> THEN 0 ELSE CHOOSE i \in DOMAIN sources : Fittest(i))
      /\ cycles' \in IF sources = <<>> THEN {0} ELSE 0 .. MaxCycles
    BY DEF Select
<1>2. best = 0 /\ cycle_last = 0 /\ marked = 0
    BY <1>1 DEF IInv, SelectionInv
<1>3. SourcesInv'
    <2>1. \A name : Has(name)' <=> Has(name)
        BY <1>1 DEF Has
    <2>2. UNCHANGED <<TscUsable, HpetUsable, PmUsable>>
        BY <1>1 DEF TscUsable, HpetUsable, PmUsable
    <2> QED
        BY <1>1, <2>1, <2>2 DEF IInv, SourcesInv
<1>4. CASE sources = <<>>
    BY <1>1, <1>2, <1>3, <1>4, ReportsAssumption DEF IInv, SelectionInv
<1>5. CASE sources # <<>>
    <2>1. best' \in DOMAIN sources /\ Fittest(best')
        BY <1>1, <1>5, FittestExists DEF IInv
    <2>2. best' # 0
        BY <2>1 DEF IInv, SourcesInv
    <2>3. Fittest(best)'
        BY <1>1, <2>1 DEF Fittest
    <2>4. sources[best'] \in Registered
        BY <2>1 DEF IInv, SourcesInv
    <2>5. TwoTo[cs'.bits] \in Nat \ {0}
        <3>1. cs'.bits \in 1 .. 2 * W /\ W \in Nat
            BY <1>1, <2>4, Widths DEF cs, Registered
        <3> QED
            BY <3>1, TwoToAt
    <2>6. 0 % TwoTo[cs'.bits] = 0
        BY <2>5
    <2> QED
        BY <1>1, <1>2, <1>3, <1>5, <2>1, <2>2, <2>3, <2>6, ReportsAssumption DEF IInv, SelectionInv
<1> QED
    BY <1>4, <1>5

\* The selected source is one of those registered.
LEMMA SelectedIsRegistered ==
    ASSUME IInv, best # 0
    PROVE  cs \in Registered /\ TwoTo[cs.bits] \in Nat \ {0} /\ pc = "up"
<1>1. cs \in Registered
    BY DEF IInv, SourcesInv, SelectionInv, cs
<1>2. cs.bits \in 1 .. 2 * W /\ W \in Nat
    BY <1>1, Widths DEF Registered
<1>3. TwoTo[cs.bits] \in Nat \ {0}
    BY <1>2, TwoToAt
<1> QED
    BY <1>1, <1>3 DEF IInv, SelectionInv

LEMMA RunningKeeps == IInv /\ (Tick \/ UpdateCycleLast) => IInv'
<1> SUFFICES ASSUME IInv, Tick \/ UpdateCycleLast PROVE IInv'
    OBVIOUS
<1>1. best # 0 /\ UNCHANGED <<firmware, pc, sources, best>> /\ cs' = cs
    BY DEF Tick, UpdateCycleLast, cs
<1>2. SourcesInv'
    <2>1. \A name : Has(name)' <=> Has(name)
        BY <1>1 DEF Has
    <2>2. UNCHANGED <<TscUsable, HpetUsable, PmUsable>>
        BY <1>1 DEF TscUsable, HpetUsable, PmUsable
    <2> QED
        BY <1>1, <2>1, <2>2 DEF IInv, SourcesInv
<1>3. Fittest(best)' <=> Fittest(best)
    BY <1>1 DEF Fittest
<1>4. CASE Tick
    <2>1. cycles' \in 0 .. MaxCycles /\ UNCHANGED <<cycle_last, marked>>
        BY <1>4, ReportsAssumption DEF Tick, IInv, SelectionInv
    <2> QED
        BY <1>1, <1>2, <1>3, <2>1 DEF IInv, SelectionInv
<1>5. CASE UpdateCycleLast
    <2>1. cycles' = cycles /\ marked' = cycles /\ cycle_last' = cycles % TwoTo[cs.bits]
        BY <1>5 DEF UpdateCycleLast, read
    <2>2. cycles \in 0 .. MaxCycles /\ cycles \in Nat
        BY ReportsAssumption DEF IInv, SelectionInv
    <2>3. cycle_last' \in 0 .. MaxCycles
        <3> DEFINE t == TwoTo[cs.bits]
        <3>1. t \in Nat \ {0}
            BY <1>1, SelectedIsRegistered
        <3> HIDE DEF t
        <3>2. cycles % t \in 0 .. cycles
            BY <2>2, <3>1, Remainder
        <3>3. MaxCycles \in Nat
            BY ReportsAssumption
        <3> QED
            BY <2>1, <2>2, <3>2, <3>3 DEF t
    <2> QED
        BY <1>1, <1>2, <1>3, <2>1, <2>2, <2>3 DEF IInv, SelectionInv
<1> QED
    BY <1>4, <1>5

-----------------------------------------------------------------------------
(* The theorems *)

THEOREM InductiveInvariant == Spec => []IInv
<1>1. IInv /\ UNCHANGED vars => IInv'
    <2> SUFFICES ASSUME IInv, UNCHANGED vars PROVE IInv'
        OBVIOUS
    <2>1. UNCHANGED <<firmware, pc, sources, best, cycles, cycle_last, marked>>
        BY DEF vars
    <2>2. \A name : Has(name)' <=> Has(name)
        BY <2>1 DEF Has
    <2>3. UNCHANGED <<TscUsable, HpetUsable, PmUsable>> /\ (Fittest(best)' <=> Fittest(best)) /\ cs' = cs
        BY <2>1 DEF TscUsable, HpetUsable, PmUsable, Fittest, cs
    <2> QED
        BY <2>1, <2>2, <2>3 DEF IInv, SourcesInv, SelectionInv
<1>2. IInv /\ [Next]_vars => IInv'
    BY <1>1, TscKeeps, HpetKeeps, AcpiPmKeeps, SelectKeeps, RunningKeeps DEF Next
<1> QED
    BY <1>2, InitSources, PTL DEF Spec

\* Whichever sources are missing or report nonsense, what is registered fits its fields
\* and init selects the best of what there is.
THEOREM Selection == Spec => []SelectionSound
<1>1. IInv => SelectionSound
    <2> SUFFICES ASSUME IInv PROVE SelectionSound
        OBVIOUS
    <2>1. sources \in Seq(Registered) /\ DOMAIN sources = 1 .. Len(sources) /\ Len(sources) \in Nat
        BY DEF IInv, SourcesInv
    <2>2. TypeOK
        <3>1. \A i \in DOMAIN sources : sources[i] \in Registered
            BY <2>1
        <3>2. \A r \in Registered :
                /\ r.freq \in 1 .. TwoTo[W] - 1 /\ r.mult \in 0 .. TwoTo[W] - 1
                /\ r.shift = W /\ r.mask \in 0 .. TwoTo[2 * W] - 1
            BY DEF Registered
        <3>3. /\ pc \in {"tsc", "hpet", "acpi_pm", "select", "up"} /\ best \in {0} \cup DOMAIN sources
              /\ cycles \in 0 .. MaxCycles /\ cycle_last \in 0 .. MaxCycles
              /\ marked \in 0 .. MaxCycles
            BY DEF IInv, SourcesInv, SelectionInv
        <3> QED
            BY <3>1, <3>2, <3>3, Zenon DEF TypeOK
    <2>3. BestAvailable
        <3> SUFFICES ASSUME pc = "up" PROVE
                /\ Has("tsc") => cs.name = "tsc"
                /\ Has("hpet") /\ ~Has("tsc") => cs.name = "hpet"
                /\ Has("acpi_pm") /\ Cardinality(DOMAIN sources) = 1 => cs.name = "acpi_pm"
                /\ best = 0 <=> ~TscUsable /\ firmware.hpet \in {NoHpet, 0} /\ ~PmUsable
            BY DEF BestAvailable
        <3>1. \A i \in DOMAIN sources : sources[i].name \in Names /\ sources[i].rating = Rating[sources[i].name]
            BY <2>1 DEF Registered
        <3>2. sources # <<>> => best \in DOMAIN sources /\ Fittest(best)
            BY DEF IInv, SelectionInv
        <3>3. \A name : Has(name) => sources # <<>> /\ best \in DOMAIN sources
            BY <3>2 DEF Has
        <3>4. Has("tsc") => cs.name = "tsc"
            <4> SUFFICES ASSUME NEW i \in DOMAIN sources, sources[i].name = "tsc" PROVE cs.name = "tsc"
                BY DEF Has
            <4>1. best \in DOMAIN sources /\ sources[best].rating >= 300
                <5>1. sources[i].rating = 300 /\ sources # <<>>
                    BY <2>1, <3>1, RatingIs
                <5>2. best \in DOMAIN sources /\ Fittest(best)
                    BY <3>2, <5>1
                <5>3. sources[i].rating < sources[best].rating \/ sources[i].rating = sources[best].rating
                    BY <5>2 DEF Fittest
                <5>4. sources[best].rating \in Nat
                    BY <2>1, <5>2 DEF Registered
                <5> QED
                    BY <5>1, <5>2, <5>3, <5>4
            <4> QED
                BY <3>1, <4>1, RatingIs DEF Names, cs
        <3>5. Has("hpet") /\ ~ Has("tsc") => cs.name = "hpet"
            <4> SUFFICES ASSUME NEW i \in DOMAIN sources, sources[i].name = "hpet", ~ Has("tsc")
                         PROVE  cs.name = "hpet"
                BY DEF Has
            <4>1. best \in DOMAIN sources /\ sources[best].rating >= 200
                <5>1. sources[i].rating = 200 /\ sources # <<>>
                    BY <2>1, <3>1, RatingIs
                <5>2. best \in DOMAIN sources /\ Fittest(best)
                    BY <3>2, <5>1
                <5>3. sources[i].rating < sources[best].rating \/ sources[i].rating = sources[best].rating
                    BY <5>2 DEF Fittest
                <5>4. sources[best].rating \in Nat
                    BY <2>1, <5>2 DEF Registered
                <5> QED
                    BY <5>1, <5>2, <5>3, <5>4
            <4>2. sources[best].name # "tsc"
                BY <4>1 DEF Has
            <4> QED
                BY <3>1, <4>1, <4>2, RatingIs DEF Names, cs
        <3>6. Has("acpi_pm") /\ Cardinality(DOMAIN sources) = 1 => cs.name = "acpi_pm"
            <4> SUFFICES ASSUME NEW i \in DOMAIN sources, sources[i].name = "acpi_pm",
                                Cardinality(DOMAIN sources) = 1
                         PROVE  cs.name = "acpi_pm"
                BY DEF Has
            <4>1. Cardinality(1 .. Len(sources)) = Len(sources)
                BY <2>1, FS_Interval
            <4>2. Len(sources) = 1
                BY <2>1, <4>1
            <4>3. sources # <<>> /\ i = 1 /\ best = 1
                BY <2>1, <3>2, <4>2
            <4> QED
                BY <4>3 DEF cs
        <3>7. best = 0 <=> sources = <<>>
            BY <3>2, <2>1 DEF IInv, SelectionInv
        <3>8. sources = <<>> <=> ~ Has("tsc") /\ ~ Has("hpet") /\ ~ Has("acpi_pm")
            <4>1. sources # <<>> => 1 \in DOMAIN sources
                BY <2>1
            <4>2. \A i \in DOMAIN sources : Has("tsc") \/ Has("hpet") \/ Has("acpi_pm")
                BY <3>1 DEF Names, Has
            <4>3. \A name : Has(name) => sources # <<>>
                BY <3>3
            <4> QED
                BY <4>1, <4>2, <4>3
        <3>9. best = 0 <=> ~TscUsable /\ firmware.hpet \in {NoHpet, 0} /\ ~PmUsable
            BY <3>7, <3>8 DEF IInv, SourcesInv, HpetUsable
        <3> QED
            BY <3>4, <3>5, <3>6, <3>9
    <2> QED
        BY <2>2, <2>3 DEF SelectionSound
<1> QED
    BY <1>1, InductiveInvariant, PTL

-----------------------------------------------------------------------------
\* Multiplying by the quotient q of T * ns by f, and dividing by T, is multiplying by
\* ns / f and losing no more than the two remainders.
LEMMA TwoRoundings ==
    ASSUME NEW T \in Nat \ {0}, NEW ns \in Nat, NEW f \in Nat \ {0}, NEW c \in Nat,
           NEW q \in Nat, NEW r \in 0 .. f - 1, NEW n \in Nat, NEW s \in 0 .. T - 1,
           T * ns = f * q + r, c * q = T * n + s
    PROVE  n * f <= c * ns /\ (n + 1) * f * T + c * f > c * ns * T
<1> DEFINE x == T * (n * f)
           y == f * s
           z == c * r
<1>1. x \in Nat /\ y \in Nat /\ z \in Nat
    OBVIOUS
<1>2. T * (c * ns) = x + y + z
    <2>1. T * (c * ns) = c * (T * ns)
        OBVIOUS
    <2>2. c * (f * q + r) = f * (c * q) + z
        OBVIOUS
    <2>3. f * (T * n + s) = x + y
        OBVIOUS
    <2> QED
        BY <2>1, <2>2, <2>3
<1>3. n * f \in Nat /\ c * ns \in Nat
    OBVIOUS
<1>4. y < f * T
    <2>1. f * (T - s) > 0
        OBVIOUS
    <2> QED
        BY <2>1
<1>5. z <= c * f
    <2>1. c * (f - r) >= 0
        OBVIOUS
    <2> QED
        BY <2>1
<1>6. (n + 1) * f * T = x + f * T /\ f * T \in Nat /\ c * f \in Nat
    OBVIOUS
<1>7. c * ns * T = T * (c * ns)
    OBVIOUS
<1>8. n * f <= c * ns
    <2> DEFINE u == n * f
               v == c * ns
    <2>1. u \in Nat /\ v \in Nat /\ T * u <= T * v
        <3>1. T * u = x /\ T * v = x + y + z
            BY <1>2
        <3> HIDE DEF x, y, z, u, v
        <3> QED
            BY <1>1, <1>3, <3>1 DEF u, v
    <2> HIDE DEF u, v
    <2>2. ~ (v + 1 <= u)
        <3> SUFFICES ASSUME v + 1 <= u PROVE FALSE
            OBVIOUS
        <3>1. T * (u - v) >= T
            BY <2>1
        <3> QED
            BY <2>1, <3>1
    <2> QED
        BY <2>1, <2>2 DEF u, v
<1> HIDE DEF x, y, z
<1> QED
    BY <1>1, <1>2, <1>4, <1>5, <1>6, <1>7, <1>8

\* A number of nanoseconds by a frequency, in units of 1 / T: of the quotient the part
\* below T, and what that part stands for.
LEMMA FractionIsKept ==
    ASSUME NEW T \in Nat \ {0}, NEW ns \in Nat, NEW f \in Nat \ {0}
    PROVE  LET q == (T * ns) \div f
               r == (T * ns) % f
           IN  /\ q \in Nat /\ q % T \in Nat /\ r \in 0 .. f - 1 /\ ns % f \in Nat
               /\ T * (ns % f) = f * (q % T) + r
<1> DEFINE N == T * ns
           q == N \div f
           r == N % f
           k == q \div T
           m == q % T
           g == ns - f * k
<1>1. N \in Nat
    OBVIOUS
<1>2. q \in Nat /\ r \in 0 .. f - 1 /\ N = f * q + r
    <2> HIDE DEF N
    <2> QED
        BY <1>1, Quotient
<1>3. k \in Nat /\ m \in 0 .. T - 1 /\ q = T * k + m
    <2> HIDE DEF q
    <2> QED
        BY <1>2, Quotient
<1> HIDE DEF k, m, r, q
<1>4. g \in Int /\ T * g = f * m + r
    <2>1. f * (T * k + m) = T * (f * k) + f * m
        BY <1>3
    <2>2. T * (ns - f * k) = T * ns - T * (f * k)
        BY <1>3
    <2> QED
        BY <1>2, <1>3, <2>1, <2>2
<1>5. f * m \in Nat /\ f * m + r < f * T
    <2>1. f * (T - 1 - m) >= 0
        BY <1>3
    <2>2. f * (T - 1 - m) = f * T - f - f * m
        BY <1>3
    <2>3. f * m \in Nat /\ f * T \in Nat
        BY <1>3
    <2> QED
        BY <1>2, <2>1, <2>2, <2>3
<1>6. g \in 0 .. f - 1
    <2> HIDE DEF g
    <2>1. T * g >= 0 /\ T * g < f * T
        BY <1>2, <1>4, <1>5
    <2>2. ~ (g <= -1)
        <3> SUFFICES ASSUME g <= -1 PROVE FALSE
            OBVIOUS
        <3>1. T * (-1 - g) >= 0
            BY <1>4
        <3> QED
            BY <1>4, <2>1, <3>1
    <2>3. ~ (g >= f)
        <3> SUFFICES ASSUME g >= f PROVE FALSE
            OBVIOUS
        <3>1. T * (g - f) >= 0
            BY <1>4
        <3>2. T * (g - f) = T * g - f * T
            BY <1>4
        <3> QED
            BY <1>4, <2>1, <3>1, <3>2
    <2> QED
        BY <1>4, <2>2, <2>3
<1>7. ns % f = g
    <2>1. ns = f * k + g /\ k \in Int /\ ns \in Int
        BY <1>3
    <2> HIDE DEF g
    <2> QED
        BY <1>6, <2>1, ResidueIs
<1> HIDE DEF g
<1>8. m \in Nat /\ g \in Nat
    BY <1>3, <1>6
<1> QED
    BY <1>2, <1>4, <1>7, <1>8 DEF q, r, m, N

\* A product cut to T * T before it is divided by T loses a multiple of T.
LEMMA OverflowIsMultiple ==
    ASSUME NEW T \in Nat \ {0}, NEW p \in Nat
    PROVE  /\ p \div T \in Nat /\ p % T \in 0 .. T - 1 /\ p = T * (p \div T) + (p % T)
           /\ p \div (T * T) \in Nat /\ (p % (T * T)) \div T \in Nat
           /\ (p % (T * T)) \div T + T * (p \div (T * T)) = p \div T
<1> DEFINE S == T * T
           w == p \div S
           c == p % S
           n == c \div T
           s == c % T
<1>1. S \in Nat \ {0}
    <2>1. T * (T - 1) >= 0
        OBVIOUS
    <2> QED
        BY <2>1
<1> HIDE DEF S, w, c, n, s
<1>2. w \in Nat /\ c \in 0 .. S - 1 /\ c \in Nat /\ p = S * w + c
    <2>1. w \in Nat /\ c \in 0 .. S - 1 /\ p = S * w + c
        BY <1>1, Quotient DEF w, c
    <2> QED
        BY <1>1, <2>1
<1>3. n \in Nat /\ s \in 0 .. T - 1 /\ c = T * n + s
    BY <1>2, Quotient DEF n, s
<1> DEFINE k == p \div T
           l == p % T
<1> HIDE DEF k, l
<1>4. k \in Nat /\ l \in 0 .. T - 1 /\ p = T * k + l
    BY Quotient DEF k, l
<1>0. S = T * T
    BY DEF S
<1>5. p = T * (n + T * w) + s /\ n + T * w \in Nat
    <2>1. T * (n + T * w) = T * n + S * w
        BY <1>0, <1>2, <1>3
    <2>2. T * w \in Nat /\ T * n \in Nat /\ S * w \in Nat
        BY <1>0, <1>1, <1>2, <1>3
    <2>3. n + T * w \in Nat
        BY <1>3, <2>2
    <2>4. p = T * n + S * w + s
        BY <1>2, <1>3, <2>2
    <2> QED
        BY <2>1, <2>3, <2>4
<1>6. k = n + T * w
    <2> DEFINE a == n + T * w
    <2>1. p = T * a + s /\ a \in Nat
        BY <1>5
    <2> HIDE DEF a
    <2>2. (T * a + s) \div T = a
        BY <1>3, <2>1, QuotientIsUnique
    <2> QED
        BY <2>1, <2>2 DEF a, k
<1>7. /\ k \in Nat /\ l \in 0 .. T - 1 /\ p = T * k + l /\ w \in Nat /\ n \in Nat /\ n + T * w = k
    BY ONLY <1>2, <1>3, <1>4, <1>6
<1> QED
    BY ONLY <1>7, Zenon DEF w, c, n, S, k, l

\* For every frequency, width and count: ktime::now is never ahead of the time that has
\* been counted, and what it is behind is the counter's wraps, the product's overflows, the
\* whole nanoseconds of a cycle that mult has no room for, and the two roundings.
THEOREM NowLosesOnlyThis == Spec => []NowIsAccounted
<1>1. IInv => NowIsAccounted
    <2> DEFINE T == TwoTo[W]
               f == cs.freq
               N == T * NsPerSec
               q == N \div f
               r == N % f
               m == cs.mult
               g == FractionKept
               c == read
               p == c * m
               n == p \div T
               s == p % T
    <2> SUFFICES ASSUME IInv, Up
                 PROVE  /\ now * f <= cycles * NsPerSec
                        /\ (now + Overflown) * f <= c * g
                        /\ (now + Overflown + 1) * f * T + c * f > c * g * T
        BY DEF NowIsAccounted
    <2>1. cs \in Registered /\ TwoTo[cs.bits] \in Nat \ {0}
        BY SelectedIsRegistered DEF Up
    <2>2. T \in Nat \ {0} /\ f \in Nat \ {0} /\ NsPerSec \in Nat \ {0} /\ N \in Nat /\ TwoTo[2 * W] = T * T
        BY <2>1, Widths DEF Registered
    <2>3. cycles \in Nat
        BY ReportsAssumption DEF IInv, SelectionInv
    <2>4. U64(N) = N
        BY <2>2, WidthAssumption, Cut
    <2>5. m = q % T /\ cs.shift = W
        <3>1. m = compute_ms(f).mult /\ cs.shift = W
            BY <2>1 DEF Registered
        <3> QED
            BY <2>4, <3>1 DEF compute_ms, U32
    <2>6. c \in Nat /\ c <= cycles
        <3> DEFINE t == TwoTo[cs.bits]
        <3>1. t \in Nat \ {0}
            BY <2>1
        <3> HIDE DEF t
        <3>2. cycles % t \in 0 .. cycles
            BY <2>3, <3>1, Remainder
        <3> QED
            BY <2>3, <3>2 DEF read, t
    <2>7. m \in Nat /\ r \in 0 .. f - 1 /\ g \in Nat /\ T * g = f * m + r
        <3> HIDE DEF T, f, m
        <3>1. /\ q % T \in Nat /\ r \in 0 .. f - 1 /\ NsPerSec % f \in Nat
              /\ T * (NsPerSec % f) = f * (q % T) + r
            BY <2>2, FractionIsKept
        <3>2. NsPerSec % f = g
            BY DEF FractionKept, f
        <3> HIDE DEF g
        <3> QED
            BY ONLY <2>5, <3>1, <3>2
    <2>8. g <= NsPerSec
        <3> HIDE DEF f
        <3>1. NsPerSec % f \in 0 .. NsPerSec
            BY <2>2, Remainder
        <3> QED
            BY <2>2, <3>1 DEF FractionKept, f
    <2> DEFINE o == p \div (T * T)
               v == (p % (T * T)) \div T
    <2>9. now = v /\ Overflown = T * o
        BY <2>2, <2>5 DEF now, cycles_to_ns, U64, Overflown
    <2> HIDE DEF T, f, N, q, r, m, g, c
    <2>10. p \in Nat
        BY <2>6, <2>7
    <2>11. n \in Nat /\ s \in 0 .. T - 1 /\ c * m = T * n + s /\ o \in Nat /\ v \in Nat /\ v + T * o = n
        <3> DEFINE pp == p
        <3>1. pp \in Nat
            BY <2>10
        <3> HIDE DEF pp
        <3>2. /\ pp \div T \in Nat /\ pp % T \in 0 .. T - 1 /\ pp = T * (pp \div T) + (pp % T)
              /\ pp \div (T * T) \in Nat /\ (pp % (T * T)) \div T \in Nat
              /\ (pp % (T * T)) \div T + T * (pp \div (T * T)) = pp \div T
            BY <2>2, <3>1, OverflowIsMultiple
        <3>3. n \in Nat /\ s \in 0 .. T - 1 /\ c * m = T * n + s /\ o \in Nat /\ v \in Nat
            BY ONLY <3>2, Zenon DEF pp, p, n, s, o, v
        <3>4. v + T * o = n
            BY ONLY <3>2, Zenon DEF pp, p, n, s, o, v
        <3> QED
            BY ONLY <3>3, <3>4
    <2> HIDE DEF n, s, o, v
    <2>12. n * f <= c * g /\ (n + 1) * f * T + c * f > c * g * T
        BY <2>2, <2>6, <2>7, <2>11, TwoRoundings
    <2>13. now + Overflown = n
        BY ONLY <2>9, <2>11
    <2>14. v * f <= cycles * NsPerSec
        <3>1. v * f <= n * f
            <4>1. T * o \in Nat
                BY <2>2, <2>11
            <4>2. (n - v) * f >= 0 /\ (n - v) * f = n * f - v * f
                BY <2>2, <2>11, <4>1
            <4>3. n * f \in Nat /\ v * f \in Nat
                BY <2>2, <2>11
            <4> QED
                BY <4>2, <4>3
        <3>2. c * g <= cycles * NsPerSec
            <4>1. c * (NsPerSec - g) >= 0 /\ c * (NsPerSec - g) = c * NsPerSec - c * g
                BY <2>2, <2>6, <2>7, <2>8
            <4>2. (cycles - c) * NsPerSec >= 0 /\ (cycles - c) * NsPerSec = cycles * NsPerSec - c * NsPerSec
                BY <2>2, <2>3, <2>6
            <4>3. c * g \in Nat /\ c * NsPerSec \in Nat /\ cycles * NsPerSec \in Nat
                BY <2>2, <2>3, <2>6, <2>7
            <4> QED
                BY <4>1, <4>2, <4>3
        <3>3. v * f \in Nat /\ n * f \in Nat /\ c * g \in Nat /\ cycles * NsPerSec \in Nat
            BY <2>2, <2>3, <2>6, <2>7, <2>11
        <3> QED
            BY <2>12, <3>1, <3>2, <3>3
    <2> QED
        BY ONLY <2>9, <2>12, <2>13, <2>14
<1> QED
    BY <1>1, InductiveInvariant, PTL

\* Of a difference of counts of M, when e have been counted from one to the other, what is
\* left in P, which is M in parts or M several times.
LEMMA DeltaNarrow ==
    ASSUME NEW P \in Nat \ {0}, NEW K \in Nat \ {0}, NEW k \in Int, NEW e \in 0 .. P - 1, NEW d \in Int,
           d = P * K * k + e
    PROVE  d % P = e
<1> DEFINE q == K * k
<1>1. q \in Int /\ d = P * q + e
    OBVIOUS
<1> HIDE DEF q
<1> QED
    BY <1>1, ResidueIs

LEMMA DeltaWide ==
    ASSUME NEW M \in Nat \ {0}, NEW K \in Nat \ {0}, NEW k \in Int, NEW e \in 0 .. M - 1, NEW d \in Int,
           NEW c \in 0 .. M - 1, NEW l \in 0 .. M - 1, d = c - l, d = M * k + e
    PROVE  d % (M * K) = e + (IF c < l THEN M * K - M ELSE 0)
<1> DEFINE P == M * K
<1>1. P \in Nat \ {0} /\ P >= M
    <2>1. M * (K - 1) >= 0 /\ M * (K - 1) = M * K - M
        OBVIOUS
    <2> QED
        BY <2>1
<1> HIDE DEF P
<1>2. ~ (k >= 1)
    <2> SUFFICES ASSUME k >= 1 PROVE FALSE
        OBVIOUS
    <2>1. M * (k - 1) >= 0 /\ M * (k - 1) = M * k - M
        OBVIOUS
    <2> QED
        BY <2>1
<1>3. ~ (k <= -2)
    <2> SUFFICES ASSUME k <= -2 PROVE FALSE
        OBVIOUS
    <2>1. M * (-2 - k) >= 0 /\ M * (-2 - k) = -(2 * M) - M * k
        OBVIOUS
    <2> QED
        BY <2>1
<1>4. k = 0 \/ k = -1
    BY <1>2, <1>3
<1>5. CASE k = 0
    <2>1. d = e /\ ~ (c < l)
        BY <1>5
    <2>2. d \in 0 .. P - 1 /\ d = P * 0 + d
        BY <1>1, <2>1
    <2>3. d % P = d
        BY <1>1, <2>2, ResidueIs
    <2> QED
        BY <2>1, <2>3 DEF P
<1>6. CASE k = -1
    <2> DEFINE r == e + P - M
    <2>1. d = e - M /\ c < l
        BY <1>6
    <2>2. r \in 0 .. P - 1 /\ d = P * (-1) + r
        BY <1>1, <2>1
    <2> HIDE DEF r
    <2>3. d % P = r
        BY <1>1, <2>2, ResidueIs
    <2>4. r = e + (P - M)
        BY <1>1 DEF r
    <2> QED
        BY <2>1, <2>3, <2>4 DEF P
<1> QED
    BY <1>4, <1>5, <1>6

\* However often the counter has wrapped before, read_delta is what it has counted since
\* update_cycle_last, for every width of the counter and of the mask; and how much it is
\* too large where the mask is the wider one and the counter has wrapped.
THEOREM DeltaIsAlwaysElapsed == Spec => []DeltaIsElapsed
<1>1. IInv => DeltaIsElapsed
    <2> SUFFICES ASSUME IInv, Up, cycles - marked \in 0 .. cs.mask, cycles - marked < TwoTo[cs.bits]
                 PROVE  read_delta = cycles - marked + WrapCounted
        BY DEF DeltaIsElapsed
    <2> DEFINE M == TwoTo[cs.bits]
               e == cycles - marked
               d == read - cycle_last
    <2>1. cs \in Registered /\ M \in Nat \ {0} /\ best # 0
        BY SelectedIsRegistered DEF Up
    <2>2. PICK k \in 1 .. 2 * W : cs.mask = TwoTo[k] - 1
        BY <2>1 DEF Registered
    <2>3. cs.bits \in 1 .. 2 * W /\ 2 * W \in Nat
        BY <2>1, Widths DEF Registered
    <2> DEFINE P == TwoTo[k]
    <2>4. P \in Nat \ {0} /\ cs.mask = P - 1 /\ cs.mask + 1 = P
        <3>1. P \in Nat \ {0}
            BY <2>2, <2>3, TwoToAt
        <3> HIDE DEF P
        <3> QED
            BY <2>2, <3>1 DEF P
    <2>5. ASSUME NEW a \in 1 .. 2 * W, NEW b \in 1 .. 2 * W, a <= b
          PROVE  \E K \in Nat \ {0} : TwoTo[b] = TwoTo[a] * K
        <3>1. a \in Nat /\ b - a \in Nat /\ a + (b - a) = b
            BY <2>3, <2>5
        <3>2. TwoTo[a + (b - a)] = TwoTo[a] * TwoTo[b - a] /\ TwoTo[b - a] \in Nat \ {0}
            BY <3>1, TwoToSum, TwoToAt
        <3> QED
            BY <3>1, <3>2
    <2>6. cycles \in Nat /\ marked \in Nat
        BY ReportsAssumption DEF IInv, SelectionInv
    <2>7. read = cycles % M /\ cycle_last = marked % M
        BY <2>1 DEF read, IInv, SelectionInv
    <2>8. e < M /\ e \in 0 .. cs.mask
        OBVIOUS
    <2> HIDE DEF M, P
    <2>9. e \in 0 .. P - 1 /\ e \in 0 .. M - 1
        BY <2>1, <2>4, <2>6, <2>8
    <2> DEFINE a == cycles \div M
               b == marked \div M
    <2>10. /\ a \in Nat /\ read \in 0 .. M - 1 /\ cycles = M * a + read
           /\ b \in Nat /\ cycle_last \in 0 .. M - 1 /\ marked = M * b + cycle_last
        BY <2>1, <2>6, <2>7, Quotient
    <2> DEFINE j == b - a
    <2> HIDE DEF a, b
    <2>11. d \in Int /\ j \in Int /\ d = M * j + e
        <3>1. M * (b - a) = M * b - M * a
            BY <2>1, <2>10
        <3> QED
            BY <2>1, <2>6, <2>10, <3>1
    <2> HIDE DEF j
    <2>12. read_delta = d % P
        <3>1. PICK K \in Nat \ {0} : TwoTo[2 * W] = P * K
            <4>1. 2 * W \in 1 .. 2 * W /\ k <= 2 * W
                BY <2>2, <2>3
            <4> QED
                BY <2>2, <2>5, <4>1 DEF P
        <3>2. d \in Int
            BY <2>11
        <3>3. (d % (P * K)) % P = d % P
            <4> HIDE DEF d
            <4> QED
                BY <2>4, <3>2, ResidueOfResidue
        <3>4. read_delta = (d % (P * K)) % P
            BY <2>4, <3>1 DEF read_delta, U64
        <3> QED
            BY ONLY <3>3, <3>4
    <2>13. WrapCounted = IF P - 1 >= M /\ read < cycle_last THEN P - M ELSE 0
        <3> DEFINE x == cs.mask
        <3>1. x = P - 1 /\ P \in Int /\ M \in Int
            BY <2>1, <2>4
        <3> HIDE DEF x
        <3>2. x + 1 - M = P - M
            BY ONLY <3>1
        <3>3. WrapCounted = IF x >= M /\ read < cycle_last THEN x + 1 - M ELSE 0
            BY ONLY Zenon DEF WrapCounted, M, x
        <3> QED
            BY ONLY <3>1, <3>2, <3>3
    <2>14. CASE k <= cs.bits
        <3>1. PICK K \in Nat \ {0} : M = P * K
            BY <2>2, <2>3, <2>5, <2>14 DEF M, P
        <3>2. P <= M
            <4>1. P * (K - 1) >= 0 /\ P * (K - 1) = P * K - P
                BY <2>4, <3>1
            <4> QED
                BY <2>1, <2>4, <3>1, <4>1
        <3>3. WrapCounted = 0
            BY <2>1, <2>4, <2>13, <3>2
        <3>4. d = P * K * j + e
            BY <2>11, <3>1
        <3>5. d % P = e
            <4> HIDE DEF d, e
            <4>1. d \in Int /\ j \in Int /\ e \in 0 .. P - 1 /\ P \in Nat \ {0} /\ K \in Nat \ {0}
                BY <2>4, <2>9, <2>11
            <4> QED
                BY ONLY <3>4, <4>1, DeltaNarrow
        <3> QED
            BY <2>6, <2>12, <3>3, <3>5
    <2>15. CASE cs.bits <= k
        <3>1. PICK K \in Nat \ {0} : P = M * K
            BY <2>2, <2>3, <2>5, <2>15 DEF M, P
        <3>2. P >= M
            <4>1. M * (K - 1) >= 0 /\ M * (K - 1) = M * K - M
                BY <2>1, <3>1
            <4> QED
                BY <2>1, <2>4, <3>1, <4>1
        <3>3. d % P = e + (IF read < cycle_last THEN P - M ELSE 0)
            <4> DEFINE x == read
                       y == cycle_last
            <4>1. d = x - y /\ x \in 0 .. M - 1 /\ y \in 0 .. M - 1
                BY <2>10
            <4>2. d \in Int /\ j \in Int /\ e \in 0 .. M - 1 /\ M \in Nat \ {0} /\ K \in Nat \ {0}
                BY <2>1, <2>9, <2>11
            <4> HIDE DEF d, e, x, y
            <4>3. d % (M * K) = e + (IF x < y THEN M * K - M ELSE 0)
                BY ONLY <2>11, <4>1, <4>2, DeltaWide
            <4> QED
                BY ONLY <3>1, <4>3 DEF x, y
        <3>4. WrapCounted = IF read < cycle_last THEN P - M ELSE 0
            BY <2>1, <2>4, <2>13, <3>2
        <3> QED
            BY ONLY <2>12, <3>3, <3>4 DEF e
    <2>16. k <= cs.bits \/ cs.bits <= k
        BY <2>2, <2>3
    <2> QED
        BY <2>14, <2>15, <2>16
<1> QED
    BY <1>1, InductiveInvariant, PTL

==============================================================================
