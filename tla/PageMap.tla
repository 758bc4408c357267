------------------------------ MODULE PageMap --------------------------------
(***************************************************************************)
(* memory::map_virtual (kernel/mm/vmm.cpp): one page is mapped in the tree *)
(* of page tables that cr3 points to.  The walk goes down one table at a   *)
(* time and takes missing tables from the physical allocator, each of      *)
(* which may fail; what the walk has built by then stays.  The processor's *)
(* TLB may load a translation between any two steps.                       *)
(*                                                                         *)
(* Addresses are page numbers.  Tables are reached through the direct map, *)
(* so a table is named by its frame and the slide does not appear.         *)
(***************************************************************************)
EXTENDS Integers, FiniteSets

CONSTANTS
    Levels,         \* levels of tables: 4, PML4 first
    Fanout,         \* entries of a table: 512
    Frame,          \* physical pages; 0 is what alloc_page returns when it fails
    Root,           \* the frame cr3 points to
    Virts,          \* bound: virtual pages that callers map
    Requests,       \* bound: the sets of MapFlags they ask for
    None

\* What one entry of a table at level l + 1 covers, in pages: 1, 512, 2^18, 2^27.
Pages[l \in 0 .. Levels] == IF l = 0 THEN 1 ELSE Fanout * Pages[l - 1]

VirtPage == 0 .. Pages[Levels] - 1
Index == 0 .. Fanout - 1
Level == 1 .. Levels

ASSUME ConstantsAssumption ==
    /\ Levels \in Nat \ {0} /\ Fanout \in Nat \ {0, 1}
    /\ Root \in Frame /\ 0 \notin Frame /\ None \notin Frame
    /\ Virts \subseteq VirtPage

VARIABLES
    entry,          \* entry[t][i]: entry i of the page t, read as a table
    free,           \* pages that alloc_page can still hand out
    owned,          \* pages that callers took from alloc_page
    tlb,            \* the translations the processor has cached
    call,           \* "idle", "walk" or "flush"
    virt, phys, flags,      \* its arguments
    level, table    \* where the walk is: table is one of level `level'

walk == <<virt, phys, flags, level, table>>
vars == <<entry, free, owned, tlb, call, walk>>

\* Names with a suffix _Without... or _With... are broken variants of the definition
\* they precede: see the README.

\* virt >> 39, 30, 21 or 12, & 0x1FF.
IndexOf(v, l) == (v \div Pages[l - 1]) % Fanout

NotPresent == [frame |-> None, flags |-> {}]

\* The bits an entry for a table gets, and those for a page asked for with the
\* flags f; Present is what tells both from NotPresent.
TableBits == {"ReadWrite", "User"}

EntryFlags(f) ==
    (IF "Write" \in f THEN {"ReadWrite"} ELSE {}) \cup (f \cap {"User", "WriteThrough", "CacheDisable"})
        \cup (IF "Execute" \in f THEN {} ELSE {"NoExecute"})

\* The tables that the walk to v passes when the entries are e, and the page at its
\* end (level 0).
WalkIn(e, v) ==
    LET at[l \in 0 .. Levels] ==
            IF l = Levels THEN Root
            ELSE IF at[l + 1] = None THEN None
            ELSE e[at[l + 1]][IndexOf(v, l + 1)].frame
    IN  at

\* The rights of an access to v that passes the tables at: what the processor makes of
\* the flags of the entries at every level.
Rights(e, at, v) ==
    {bit \in UNION {e[at[l]][IndexOf(v, l)].flags : l \in Level} :
        \/ bit \in {"NoExecute", "WriteThrough", "CacheDisable"}
        \/ \A l \in Level : bit \in e[at[l]][IndexOf(v, l)].flags}

\* What an access to v finds.
TranslateIn(e, v) ==
    LET at == WalkIn(e, v)
    IN  IF at[0] = None THEN None ELSE [frame |-> at[0], flags |-> Rights(e, at, v)]

Walk(v) == WalkIn(entry, v)
Translate(v) == TranslateIn(entry, v)

\* What physical memory holds when it is handed out is anything: at worst, what reads
\* as a table full of present entries.
Garbage == [i \in Index |-> [frame |-> Root, flags |-> TableBits]]

\* The state before the first call.  Only the part of the address space that the
\* bootloader left empty is modelled: a root without entries.
Init ==
    /\ entry = [t \in Frame |-> IF t = Root THEN [i \in Index |-> NotPresent] ELSE Garbage]
    /\ free = Frame \ {Root}
    /\ owned = {}
    /\ tlb = [v \in Virts |-> None]
    /\ call = "idle"
    /\ virt = 0 /\ phys = 0 /\ flags = {} /\ level = 0 /\ table = None

-----------------------------------------------------------------------------

\* A caller takes a page from alloc_page, to map it.
TakePage(p) ==
    /\ call = "idle"
    /\ p \in free
    /\ free' = free \ {p}
    /\ owned' = owned \cup {p}
    /\ UNCHANGED <<entry, tlb, call, walk>>

Return ==
    /\ call' = "idle"
    /\ virt' = 0 /\ phys' = 0 /\ flags' = {} /\ level' = 0 /\ table' = None

\* map_virtual is called and its arguments pass the tests.
CallMap(v, p, f) ==
    /\ call = "idle"
    /\ v # 0 /\ p # 0
    /\ call' = "walk"
    /\ virt' = v /\ phys' = p /\ flags' = f
    /\ level' = Levels /\ table' = Root
    /\ UNCHANGED <<entry, free, owned, tlb>>

\* ensure_table finds the entry present.
Descend ==
    LET e == entry[table][IndexOf(virt, level)]
    IN  /\ call = "walk" /\ level > 1
        /\ e.frame # None
        /\ table' = e.frame
        /\ level' = level - 1
        /\ UNCHANGED <<entry, free, owned, tlb, call, virt, phys, flags>>

AddTable_WithoutClear(t) ==
    /\ call = "walk" /\ level > 1
    /\ entry[table][IndexOf(virt, level)].frame = None
    /\ t \in free
    /\ free' = free \ {t}
    /\ entry' = [entry EXCEPT ![table][IndexOf(virt, level)] = [frame |-> t, flags |-> TableBits]]
    /\ table' = t
    /\ level' = level - 1
    /\ UNCHANGED <<owned, tlb, call, virt, phys, flags>>

AddTable_WithoutTake(t) ==
    /\ call = "walk" /\ level > 1
    /\ entry[table][IndexOf(virt, level)].frame = None
    /\ t \in free
    /\ entry' = [entry EXCEPT ![t] = [i \in Index |-> NotPresent],
                              ![table][IndexOf(virt, level)] = [frame |-> t, flags |-> TableBits]]
    /\ table' = t
    /\ level' = level - 1
    /\ UNCHANGED <<free, owned, tlb, call, virt, phys, flags>>

\* ensure_table finds it absent and takes a page: the page is cleared, then entered.
AddTable(t) ==
    /\ call = "walk" /\ level > 1
    /\ entry[table][IndexOf(virt, level)].frame = None
    /\ t \in free
    /\ free' = free \ {t}
    /\ entry' = [entry EXCEPT ![t] = [i \in Index |-> NotPresent],
                              ![table][IndexOf(virt, level)] = [frame |-> t, flags |-> TableBits]]
    /\ table' = t
    /\ level' = level - 1
    /\ UNCHANGED <<owned, tlb, call, virt, phys, flags>>

AddTableFails_WithoutReturn ==
    /\ call = "walk" /\ level > 1
    /\ entry[table][IndexOf(virt, level)].frame = None
    /\ free = {}
    /\ UNCHANGED vars

\* No page for the table: map_virtual returns false.
AddTableFails ==
    /\ call = "walk" /\ level > 1
    /\ entry[table][IndexOf(virt, level)].frame = None
    /\ free = {}
    /\ Return
    /\ UNCHANGED <<entry, free, owned, tlb>>

\* The entry of the last table is written, over whatever it held.
WriteEntry ==
    /\ call = "walk" /\ level = 1
    /\ entry' = [entry EXCEPT ![table][IndexOf(virt, 1)] = [frame |-> phys, flags |-> EntryFlags(flags)]]
    /\ call' = "flush"
    /\ UNCHANGED <<free, owned, tlb, walk>>

Flush_WithoutInvlpg ==
    /\ call = "flush"
    /\ Return
    /\ UNCHANGED <<entry, free, owned, tlb>>

\* invlpg: the pagemap is the one in cr3, the only one the kernel has.
Flush ==
    /\ call = "flush"
    /\ tlb' = [tlb EXCEPT ![virt] = None]
    /\ Return
    /\ UNCHANGED <<entry, free, owned>>

\* The processor loads a translation into its TLB, for an access or ahead of one.
Cache(v) ==
    /\ Translate(v) # None
    /\ tlb' = [tlb EXCEPT ![v] = Translate(v)]
    /\ UNCHANGED <<entry, free, owned, call, walk>>

-----------------------------------------------------------------------------

Step == Descend \/ (\E t \in Frame : AddTable(t)) \/ AddTableFails \/ WriteEntry \/ Flush

Next ==
    \/ Step
    \/ \E p \in Frame : TakePage(p)
    \/ \E v \in Virts, p \in owned, f \in Requests : CallMap(v, p, f)
    \/ \E v \in Virts : Cache(v)

Spec == Init /\ [][Next]_vars

\* Interrupts are off and nothing else runs: a call is not stopped.
FairSpec == Spec /\ WF_vars(Step)

-----------------------------------------------------------------------------
(* Properties *)

Entry == [frame : Frame \cup {None}, flags : SUBSET {"ReadWrite", "User", "WriteThrough", "CacheDisable", "NoExecute"}]

\* Every variable has a value of its type.
TypeOK ==
    /\ entry \in [Frame -> [Index -> Entry]]
    /\ free \subseteq Frame /\ owned \subseteq Frame
    /\ tlb \in [Virts -> Entry \cup {None}]
    /\ call \in {"idle", "walk", "flush"}
    /\ virt \in VirtPage /\ phys \in Frame \cup {0} /\ flags \in Requests \cup {{}}
    /\ level \in 0 .. Levels /\ table \in Frame \cup {None}

\* The tables are a tree: a frame is a table at one level and for one range of
\* addresses, and no frame is a table and also free, or in a caller's hands.  Every
\* frame is one of these: a call that fails after it has added tables loses none, a
\* later call finds them.
FramesApart ==
    LET at == [v \in VirtPage |-> Walk(v)]
        Tables == {at[v][l] : v \in VirtPage, l \in Level} \ {None}
    IN  /\ Frame = free \cup owned \cup Tables
        /\ free \cap owned = {} /\ Tables \cap (free \cup owned) = {}
        /\ \A v, w \in VirtPage : \A l, m \in Level :
            at[v][l] # None /\ at[v][l] = at[w][m] =>
                l = m /\ v \div Pages[l] = w \div Pages[l]

\* Tables, free frames and owned ones are apart, and what the entries name are frames.
TablesApart == TypeOK /\ FramesApart

\* Between calls the processor does not use a translation that is no longer in the
\* tables.
TlbFollowsTables ==
    call = "idle" => \A v \in Virts : tlb[v] \in {None, Translate(v)}

\* Every call returns.
CallReturns == call # "idle" ~> call = "idle"

\* map_virtual is atomic: tables added on the way, also by a call that fails, map
\* nothing; the entry written maps the page asked for, with the rights asked for.
Space == INSTANCE AddressSpace WITH
    PageFlags <- {EntryFlags(f) : f \in Requests},
    NotMapped <- None,
    translation <- [v \in VirtPage |-> Translate(v)]
ImplementsAddressSpace == Space!Spec

==============================================================================
