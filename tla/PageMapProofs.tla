---------------------------- MODULE PageMapProofs ----------------------------
(***************************************************************************)
(* Safety of PageMap for every number of levels, every fan-out and every   *)
(* set of frames, and its refinement of AddressSpace.                      *)
(***************************************************************************)
EXTENDS PageMap, NumberTheorems

USE ConstantsAssumption

-----------------------------------------------------------------------------
(* Addresses: what the indices of a page number say about it. *)

\* The recursive definition of Pages has a solution.
LEMMA PagesExist ==
    \E f \in [0 .. Levels -> Nat \ {0}] :
        f = [l \in 0 .. Levels |-> IF l = 0 THEN 1 ELSE Fanout * f[l - 1]]
<1> DEFINE X == Nat \ {0}
           one == 1
           step == [n \in Nat |-> [x \in X |-> Fanout * x]]
<1>1. \A x \in X : Fanout * x \in X
    OBVIOUS
<1>2. one \in X /\ step \in [Nat -> [X -> X]]
    BY <1>1
<1>3. \A n \in Nat : \A x \in X : step[n][x] = Fanout * x
    OBVIOUS
<1> HIDE DEF X, one, step
<1>a. PICK f : IsRecursion(f, X, one, step)
    BY <1>2, Recursion
<1>4. f \in [Nat -> X] /\ f[0] = one /\ \A n \in Nat : f[n + 1] = step[n][f[n]]
    BY <1>a DEF IsRecursion
<1> DEFINE g == [l \in 0 .. Levels |-> f[l]]
<1>5. \A n \in Nat : f[n + 1] = Fanout * f[n]
    BY <1>3, <1>4
<1>6. \A l \in 1 .. Levels : f[l] = Fanout * f[l - 1]
    <2> TAKE l \in 1 .. Levels
    <2> l - 1 \in Nat /\ (l - 1) + 1 = l
        OBVIOUS
    <2> QED
        BY <1>5
<1>7. g = [l \in 0 .. Levels |-> IF l = 0 THEN 1 ELSE Fanout * g[l - 1]]
    <2>1. \A l \in 0 .. Levels : f[l] = IF l = 0 THEN 1 ELSE Fanout * g[l - 1]
        BY <1>4, <1>6 DEF one
    <2> QED
        BY <2>1
<1>8. g \in [0 .. Levels -> Nat \ {0}]
    BY <1>4 DEF X
<1> HIDE DEF g
<1> QED
    BY <1>7, <1>8

\* What Pages computes: the powers of Fanout.
LEMMA PagesAt ==
    /\ Pages \in [0 .. Levels -> Nat \ {0}]
    /\ Pages[0] = 1
    /\ \A l \in Level : Pages[l] = Fanout * Pages[l - 1]
<1>1. Pages = CHOOSE f : f = [l \in 0 .. Levels |-> IF l = 0 THEN 1 ELSE Fanout * f[l - 1]]
    BY DEF Pages
<1>2. PICK f \in [0 .. Levels -> Nat \ {0}] :
        f = [l \in 0 .. Levels |-> IF l = 0 THEN 1 ELSE Fanout * f[l - 1]]
    BY PagesExist
<1>3. Pages = [l \in 0 .. Levels |-> IF l = 0 THEN 1 ELSE Fanout * Pages[l - 1]]
    BY <1>1, <1>2
<1>4. Pages[0] = 1 /\ \A l \in Level : Pages[l] = Fanout * Pages[l - 1]
    BY <1>3 DEF Level
<1>5. \A l \in 0 .. Levels : l \in {m \in 0 .. Levels : Pages[m] \in Nat \ {0}}
    <2> DEFINE S == {m \in 0 .. Levels : Pages[m] \in Nat \ {0}}
    <2>1. 0 \in S
        BY <1>4
    <2>2. ASSUME NEW n \in 0 .. Levels - 1, n \in S
          PROVE  n + 1 \in S
        <3>1. Pages[n + 1] = Fanout * Pages[n]
            BY <1>4 DEF Level
        <3> QED
            BY <2>2, <3>1
    <2> HIDE DEF S
    <2>3. \A n \in 0 .. Levels : n \in S
        BY <2>1, <2>2, BoundedInduction
    <2> QED
        BY <2>3 DEF S
<1> QED
    BY <1>3, <1>4, <1>5

\* What is left of a page number above level l: the number of the entry that covers it.
Above(v, l) == v \div Pages[l]

\* Page numbers have indices; those of the address space have nothing above the root,
\* and a page number is what is above level 0.
LEMMA AboveBounds ==
    ASSUME NEW v \in VirtPage
    PROVE  /\ \A l \in 0 .. Levels : Above(v, l) \in Nat
           /\ Above(v, Levels) = 0 /\ Above(v, 0) = v
           /\ \A l \in Level : IndexOf(v, l) \in Index
<1>1. v \in Nat /\ v < Pages[Levels] /\ Levels \in 0 .. Levels
    BY PagesAt DEF VirtPage
<1>2. \A l \in 0 .. Levels : Above(v, l) \in Nat
    BY <1>1, PagesAt, Quotient DEF Above
<1>3. Above(v, Levels) = 0
    <2> DEFINE d == Pages[Levels]
    <2>1. d \in Nat \ {0} /\ v \in 0 .. d - 1 /\ v = d * 0 + v
        BY <1>1, PagesAt
    <2> HIDE DEF d
    <2>2. v \div d = 0
        BY <2>1, QuotientIsUnique
    <2> QED
        BY <2>2 DEF Above, d
<1>4. Above(v, 0) = v
    BY <1>1, PagesAt DEF Above
<1>5. ASSUME NEW l \in Level
      PROVE  IndexOf(v, l) \in Index
    <2>1. l - 1 \in 0 .. Levels
        BY DEF Level
    <2>2. v \div Pages[l - 1] \in Nat
        BY <1>2, <2>1 DEF Above
    <2> QED
        BY <2>2, Quotient DEF IndexOf, Index
<1> QED
    BY <1>2, <1>3, <1>4, <1>5

\* The number above a level and the index at it make the number above the level below.
LEMMA AboveSplits ==
    ASSUME NEW v \in VirtPage, NEW w \in VirtPage, NEW l \in Level
    PROVE  Above(v, l - 1) = Above(w, l - 1) <=>
                Above(v, l) = Above(w, l) /\ IndexOf(v, l) = IndexOf(w, l)
<1> DEFINE d == Pages[l - 1]
<1>1. l - 1 \in 0 .. Levels /\ d \in Nat \ {0} /\ Pages[l] = Fanout * d
    BY PagesAt DEF Level
<1>2. v \in Nat /\ w \in Nat
    BY PagesAt DEF VirtPage
<1> HIDE DEF d
<1>3. Above(v, l) = (v \div d) \div Fanout /\ Above(w, l) = (w \div d) \div Fanout
    <2>1. Fanout \in Nat \ {0}
        OBVIOUS
    <2>2. v \div (Fanout * d) = (v \div d) \div Fanout
        BY ONLY <2>1, <1>1, <1>2, QuotientOfProduct
    <2>3. w \div (Fanout * d) = (w \div d) \div Fanout
        BY ONLY <2>1, <1>1, <1>2, QuotientOfProduct
    <2> QED
        BY <2>2, <2>3, <1>1 DEF Above
<1>4. IndexOf(v, l) = (v \div d) % Fanout /\ IndexOf(w, l) = (w \div d) % Fanout
    BY DEF IndexOf, d
<1>5. Above(v, l - 1) = v \div d /\ Above(w, l - 1) = w \div d
    BY DEF Above, d
<1>6. v \div d \in Nat /\ w \div d \in Nat
    BY <1>1, <1>2, Quotient
<1>7. v \div d = Fanout * ((v \div d) \div Fanout) + ((v \div d) % Fanout)
    BY <1>6, Quotient
<1>8. w \div d = Fanout * ((w \div d) \div Fanout) + ((w \div d) % Fanout)
    BY <1>6, Quotient
<1> QED
    BY <1>3, <1>4, <1>5, <1>7, <1>8

-----------------------------------------------------------------------------
(* Walks through a set of tables. *)

\* Every set of tables.
Tree == [Frame -> [Index -> Entry]]

\* Where the walk to v goes below the table x of level l.
Below(e, v, l, x) == IF x = None THEN None ELSE e[x][IndexOf(v, l)].frame

LEMMA BelowIsFrame ==
    ASSUME NEW e \in Tree, NEW v \in VirtPage, NEW l \in Level, NEW x \in Frame \cup {None}
    PROVE  Below(e, v, l, x) \in Frame \cup {None}
BY AboveBounds DEF Below, Tree, Entry

\* A level is reached by one step down from the one above, so a property of the root
\* that every step down keeps holds at every level.
LEMMA DownwardInduction ==
    ASSUME NEW S, Levels \in S, \A l \in Level : l \in S => l - 1 \in S
    PROVE  \A l \in 0 .. Levels : l \in S
<1> DEFINE T == {n \in Nat : Levels - n \in S}
<1>1. 0 \in T
    OBVIOUS
<1>2. ASSUME NEW n \in 0 .. Levels - 1, n \in T
      PROVE  n + 1 \in T
    <2> Levels - n \in Level /\ (Levels - n) - 1 = Levels - (n + 1)
        BY DEF Level
    <2> QED
        BY <1>2
<1> HIDE DEF T
<1>3. \A n \in 0 .. Levels : n \in T
    BY <1>1, <1>2, BoundedInduction
<1> TAKE l \in 0 .. Levels
<1>4. Levels - l \in 0 .. Levels /\ Levels - (Levels - l) = l
    OBVIOUS
<1> QED
    BY <1>3, <1>4 DEF T

\* The recursive definition of a walk has a solution.
LEMMA WalkExists ==
    ASSUME NEW e \in Tree, NEW v \in VirtPage
    PROVE  \E f \in [0 .. Levels -> Frame \cup {None}] :
              f = [l \in 0 .. Levels |->
                    IF l = Levels THEN Root
                    ELSE IF f[l + 1] = None THEN None
                    ELSE e[f[l + 1]][IndexOf(v, l + 1)].frame]
<1> DEFINE X == Frame \cup {None}
           step == [n \in Nat |-> [x \in X |->
                        IF n < Levels THEN Below(e, v, Levels - n, x) ELSE None]]
<1>1. Root \in X /\ step \in [Nat -> [X -> X]]
    <2>1. ASSUME NEW n \in Nat, NEW x \in X, n < Levels
          PROVE  Below(e, v, Levels - n, x) \in X
        <3> Levels - n \in Level
            BY <2>1 DEF Level
        <3> QED
            BY BelowIsFrame
    <2> QED
        BY <2>1
<1>2. \A n \in Nat : \A x \in X : n < Levels => step[n][x] = Below(e, v, Levels - n, x)
    OBVIOUS
<1> HIDE DEF X, step
<1>3. PICK f : IsRecursion(f, X, Root, step)
    BY <1>1, Recursion
<1>4. f \in [Nat -> X] /\ f[0] = Root /\ \A n \in Nat : f[n + 1] = step[n][f[n]]
    BY <1>3 DEF IsRecursion
<1> DEFINE g == [l \in 0 .. Levels |-> f[Levels - l]]
<1>5. g \in [0 .. Levels -> X]
    BY <1>4
<1>6. g[Levels] = Root
    BY <1>4
<1>7. ASSUME NEW l \in 0 .. Levels, l # Levels
      PROVE  g[l] = Below(e, v, l + 1, g[l + 1])
    <2> DEFINE n == Levels - (l + 1)
    <2>1. n \in Nat /\ n < Levels /\ n + 1 = Levels - l /\ Levels - n = l + 1
        BY <1>7
    <2>2. f[n + 1] = step[n][f[n]] /\ f[n] \in X
        BY <1>4, <2>1
    <2>3. step[n][f[n]] = Below(e, v, Levels - n, f[n])
        BY <1>2, <2>1, <2>2
    <2>4. g[l] = f[n + 1] /\ g[l + 1] = f[n]
        BY <1>7, <2>1
    <2> HIDE DEF n, g
    <2> QED
        BY <2>1, <2>2, <2>3, <2>4
<1> HIDE DEF g
<1>8. \A l \in 0 .. Levels :
        g[l] = IF l = Levels THEN Root
               ELSE IF g[l + 1] = None THEN None
               ELSE e[g[l + 1]][IndexOf(v, l + 1)].frame
    BY <1>6, <1>7 DEF Below
<1>9. g = [l \in 0 .. Levels |->
            IF l = Levels THEN Root
            ELSE IF g[l + 1] = None THEN None
            ELSE e[g[l + 1]][IndexOf(v, l + 1)].frame]
    BY <1>5, <1>8
<1> QED
    BY <1>5, <1>9 DEF X

\* What a walk is: it starts at the root and follows the entries.
LEMMA WalkAt ==
    ASSUME NEW e \in Tree, NEW v \in VirtPage
    PROVE  /\ WalkIn(e, v) \in [0 .. Levels -> Frame \cup {None}]
           /\ WalkIn(e, v)[Levels] = Root
           /\ \A l \in Level : WalkIn(e, v)[l - 1] = Below(e, v, l, WalkIn(e, v)[l])
<1> DEFINE IsWalk(f) == f = [l \in 0 .. Levels |->
                    IF l = Levels THEN Root
                    ELSE IF f[l + 1] = None THEN None
                    ELSE e[f[l + 1]][IndexOf(v, l + 1)].frame]
           at == WalkIn(e, v)
<1>1. at = CHOOSE f : IsWalk(f)
    BY DEF WalkIn
<1>2. PICK f \in [0 .. Levels -> Frame \cup {None}] : IsWalk(f)
    BY WalkExists
<1>3. IsWalk(at)
    <2> HIDE DEF IsWalk, at
    <2> QED
        BY <1>1, <1>2
<1> HIDE DEF at
<1>4. at[Levels] = Root
    BY <1>3
<1>5. ASSUME NEW l \in Level
      PROVE  at[l - 1] = Below(e, v, l, at[l])
    <2>1. l - 1 \in 0 .. Levels /\ l - 1 # Levels /\ (l - 1) + 1 = l
        BY DEF Level
    <2> QED
        BY <1>3, <2>1 DEF Below
<1>6. \A l \in 0 .. Levels : at[l] \in Frame \cup {None}
    <2> DEFINE S == {l \in 0 .. Levels : at[l] \in Frame \cup {None}}
    <2>1. Levels \in S
        BY <1>4
    <2>2. \A l \in Level : l \in S => l - 1 \in S
        BY <1>5, BelowIsFrame DEF Level
    <2> HIDE DEF S
    <2>3. \A l \in 0 .. Levels : l \in S
        BY <2>1, <2>2, DownwardInduction
    <2> QED
        BY <2>3 DEF S
<1>7. at = [l \in 0 .. Levels |-> at[l]]
    BY <1>3
<1> QED
    BY <1>4, <1>5, <1>6, <1>7 DEF at

\* Below a missing entry there is nothing.
LEMMA NothingBelow ==
    ASSUME NEW e \in Tree, NEW v \in VirtPage, NEW m \in 0 .. Levels, WalkIn(e, v)[m] = None
    PROVE  \A l \in 0 .. m : WalkIn(e, v)[l] = None
<1> DEFINE at == WalkIn(e, v)
           S == {l \in 0 .. Levels : l <= m => at[l] = None}
<1>1. Levels \in S
    OBVIOUS
<1>2. ASSUME NEW l \in Level, l \in S
      PROVE  l - 1 \in S
    <2>1. l - 1 < m => at[l] = None
        BY <1>2 DEF Level
    <2>2. at[l - 1] = Below(e, v, l, at[l])
        BY WalkAt
    <2> QED
        BY <2>1, <2>2 DEF Below, Level
<1> HIDE DEF S
<1>3. \A l \in 0 .. Levels : l \in S
    BY <1>1, <1>2, DownwardInduction
<1> QED
    BY <1>3 DEF S

\* Two sets of tables that agree on the entries that a walk passes above level m give
\* the same walk down to that level.
LEMMA WalkStays ==
    ASSUME NEW e \in Tree, NEW f \in Tree, NEW v \in VirtPage, NEW m \in 0 .. Levels,
           \A l \in Level : l > m /\ WalkIn(e, v)[l] # None =>
                f[WalkIn(e, v)[l]][IndexOf(v, l)] = e[WalkIn(e, v)[l]][IndexOf(v, l)]
    PROVE  \A l \in m .. Levels : WalkIn(f, v)[l] = WalkIn(e, v)[l]
<1> DEFINE S == {l \in 0 .. Levels : l >= m => WalkIn(f, v)[l] = WalkIn(e, v)[l]}
<1>1. Levels \in S
    BY WalkAt
<1>2. ASSUME NEW l \in Level, l \in S
      PROVE  l - 1 \in S
    <2>1. SUFFICES ASSUME l - 1 >= m
                   PROVE  WalkIn(f, v)[l - 1] = WalkIn(e, v)[l - 1]
        BY DEF Level
    <2>2. l > m /\ WalkIn(f, v)[l] = WalkIn(e, v)[l]
        BY <1>2, <2>1 DEF Level
    <2>3. Below(f, v, l, WalkIn(f, v)[l]) = Below(e, v, l, WalkIn(e, v)[l])
        BY <2>2 DEF Below
    <2> QED
        BY <2>3, WalkAt
<1> HIDE DEF S
<1>3. \A l \in 0 .. Levels : l \in S
    BY <1>1, <1>2, DownwardInduction
<1> QED
    BY <1>3 DEF S

\* The same for a whole walk, and what it finds.
LEMMA TranslateStays ==
    ASSUME NEW e \in Tree, NEW f \in Tree, NEW v \in VirtPage,
           \A l \in Level : WalkIn(e, v)[l] # None =>
                f[WalkIn(e, v)[l]][IndexOf(v, l)] = e[WalkIn(e, v)[l]][IndexOf(v, l)]
    PROVE  /\ \A l \in 0 .. Levels : WalkIn(f, v)[l] = WalkIn(e, v)[l]
           /\ TranslateIn(f, v) = TranslateIn(e, v)
<1>1. \A l \in 0 .. Levels : WalkIn(f, v)[l] = WalkIn(e, v)[l]
    BY WalkStays
<1>2. CASE WalkIn(e, v)[0] = None
    BY <1>1, <1>2 DEF TranslateIn
<1>3. CASE WalkIn(e, v)[0] # None
    <2>1. \A l \in Level : WalkIn(e, v)[l] # None
        BY <1>3, NothingBelow DEF Level
    <2>2. \A l \in Level : f[WalkIn(f, v)[l]][IndexOf(v, l)] = e[WalkIn(e, v)[l]][IndexOf(v, l)]
        BY <1>1, <2>1 DEF Level
    <2>3. UNION {f[WalkIn(f, v)[l]][IndexOf(v, l)].flags : l \in Level}
            = UNION {e[WalkIn(e, v)[l]][IndexOf(v, l)].flags : l \in Level}
        BY <2>2
    <2>4. \A bit : (\A l \in Level : bit \in f[WalkIn(f, v)[l]][IndexOf(v, l)].flags)
            <=> (\A l \in Level : bit \in e[WalkIn(e, v)[l]][IndexOf(v, l)].flags)
        BY <2>2
    <2>5. Rights(f, WalkIn(f, v), v) = Rights(e, WalkIn(e, v), v)
        BY <2>3, <2>4 DEF Rights
    <2>6. WalkIn(f, v)[0] = WalkIn(e, v)[0]
        BY <1>1
    <2> QED
        BY <1>1, <2>5, <2>6 DEF TranslateIn
<1> QED
    BY <1>1, <1>2, <1>3

\* Addresses that are the same above a level are the same above every higher one, and
\* their walks are the same down to it.
LEMMA SameAbove ==
    ASSUME NEW e \in Tree, NEW v \in VirtPage, NEW w \in VirtPage, NEW m \in 0 .. Levels,
           Above(v, m) = Above(w, m)
    PROVE  /\ \A l \in m .. Levels : Above(v, l) = Above(w, l)
           /\ \A l \in m .. Levels : WalkIn(e, v)[l] = WalkIn(e, w)[l]
<1>1. \A l \in m .. Levels : Above(v, l) = Above(w, l)
    <2> DEFINE S == {n \in 0 .. Levels - m : Above(v, m + n) = Above(w, m + n)}
    <2>1. 0 \in S
        OBVIOUS
    <2>2. ASSUME NEW n \in 0 .. (Levels - m) - 1, n \in S
          PROVE  n + 1 \in S
        <3>1. m + n + 1 \in Level /\ (m + n + 1) - 1 = m + n
            BY DEF Level
        <3>2. Above(v, m + n + 1) = Above(w, m + n + 1)
            BY <2>2, <3>1, AboveSplits
        <3> QED
            BY <3>2
    <2> HIDE DEF S
    <2>3. \A n \in 0 .. Levels - m : n \in S
        <3> Levels - m \in Nat
            OBVIOUS
        <3> QED
            BY <2>1, <2>2, BoundedInduction
    <2> TAKE l \in m .. Levels
    <2>4. l - m \in 0 .. Levels - m /\ m + (l - m) = l
        OBVIOUS
    <2> QED
        BY <2>3, <2>4 DEF S
<1>2. \A l \in Level : l > m => IndexOf(v, l) = IndexOf(w, l)
    <2> TAKE l \in Level
    <2> HAVE l > m
    <2> l - 1 \in m .. Levels
        BY DEF Level
    <2> QED
        BY <1>1, AboveSplits
<1> DEFINE S == {l \in 0 .. Levels : l >= m => WalkIn(e, v)[l] = WalkIn(e, w)[l]}
<1>3. Levels \in S
    BY WalkAt
<1>4. ASSUME NEW l \in Level, l \in S
      PROVE  l - 1 \in S
    <2>1. SUFFICES ASSUME l - 1 >= m
                   PROVE  WalkIn(e, v)[l - 1] = WalkIn(e, w)[l - 1]
        BY DEF Level
    <2>2. l > m /\ WalkIn(e, v)[l] = WalkIn(e, w)[l]
        BY <1>4, <2>1 DEF Level
    <2>3. Below(e, v, l, WalkIn(e, v)[l]) = Below(e, w, l, WalkIn(e, w)[l])
        BY <1>2, <2>2 DEF Below
    <2> QED
        BY <2>3, WalkAt
<1> HIDE DEF S
<1>5. \A l \in 0 .. Levels : l \in S
    BY <1>3, <1>4, DownwardInduction
<1>6. \A l \in m .. Levels : WalkIn(e, v)[l] = WalkIn(e, w)[l]
    BY <1>5 DEF S
<1> QED
    BY <1>1, <1>6

-----------------------------------------------------------------------------
(* What one new table and one new entry do to the walks. *)

\* A frame is a table at one level and for one range of addresses.
IsTree(e) ==
    \A v, w \in VirtPage : \A l, m \in Level :
        WalkIn(e, v)[l] # None /\ WalkIn(e, v)[l] = WalkIn(e, w)[m] =>
            l = m /\ Above(v, l) = Above(w, l)

IsTable(e, x) == \E v \in VirtPage, l \in Level : WalkIn(e, v)[l] = x

\* Entries for tables grant what an entry for a page can grant.
GrantAll(e) ==
    \A v \in VirtPage : \A l \in Level \ {1} :
        WalkIn(e, v)[l] # None /\ WalkIn(e, v)[l - 1] # None =>
            e[WalkIn(e, v)[l]][IndexOf(v, l)].flags = TableBits

\* An empty table t entered for the address u, below level k.
WithTable(e, u, k, t) ==
    [e EXCEPT ![t] = [i \in Index |-> NotPresent],
              ![WalkIn(e, u)[k]][IndexOf(u, k)] = [frame |-> t, flags |-> TableBits]]

\* The hypotheses under which ensure_table adds one.
MayAdd(e, u, k, t) ==
    /\ e \in Tree /\ IsTree(e)
    /\ u \in VirtPage /\ k \in Level \ {1}
    /\ WalkIn(e, u)[k] # None /\ WalkIn(e, u)[k - 1] = None
    /\ t \in Frame /\ ~ IsTable(e, t)

LEMMA WithTableEntries ==
    ASSUME NEW e, NEW u, NEW k, NEW t, MayAdd(e, u, k, t)
    PROVE  LET f == WithTable(e, u, k, t)
               x == WalkIn(e, u)[k]
           IN  /\ f \in Tree /\ x \in Frame /\ t # x
               /\ f[t] = [i \in Index |-> NotPresent]
               /\ f[x][IndexOf(u, k)] = [frame |-> t, flags |-> TableBits]
               /\ \A y \in Frame : \A i \in Index :
                    y # t /\ ~ (y = x /\ i = IndexOf(u, k)) => f[y][i] = e[y][i]
<1> DEFINE x == WalkIn(e, u)[k]
           f == WithTable(e, u, k, t)
           empty == [i \in Index |-> NotPresent]
           new == [frame |-> t, flags |-> TableBits]
           j == IndexOf(u, k)
<1>1. x \in Frame /\ j \in Index /\ t \in Frame /\ e \in Tree
    <2>1. e \in Tree /\ u \in VirtPage /\ k \in Level /\ k \in 0 .. Levels /\ x # None /\ t \in Frame
        BY DEF MayAdd, Level
    <2>2. WalkIn(e, u) \in [0 .. Levels -> Frame \cup {None}]
        BY ONLY <2>1, WalkAt
    <2>3. j \in Index
        BY ONLY <2>1, AboveBounds
    <2> QED
        BY ONLY <2>1, <2>2, <2>3
<1>2. x # t
    BY DEF MayAdd, IsTable
<1>3. new \in Entry /\ empty \in [Index -> Entry]
    BY <1>1 DEF Entry, NotPresent, TableBits
<1>4. f = [e EXCEPT ![t] = empty, ![x][j] = new]
    BY DEF WithTable
<1> HIDE DEF x, f, empty, new, j
<1>5. f = [[e EXCEPT ![t] = empty] EXCEPT ![x] = [[e EXCEPT ![t] = empty][x] EXCEPT ![j] = new]]
    BY <1>4
<1>6. f = [[e EXCEPT ![t] = empty] EXCEPT ![x] = [e[x] EXCEPT ![j] = new]]
    BY <1>1, <1>2, <1>5 DEF Tree
<1>7. f \in Tree
    BY <1>1, <1>3, <1>6 DEF Tree
<1>8. f[t] = empty /\ f[x] = [e[x] EXCEPT ![j] = new]
    BY <1>1, <1>2, <1>6 DEF Tree
<1>9. \A y \in Frame : y # t /\ y # x => f[y] = e[y]
    BY <1>1, <1>6 DEF Tree
<1> QED
    BY <1>1, <1>2, <1>7, <1>8, <1>9 DEF Tree, x, f, empty, new, j

\* The new table is passed at level k - 1 by the walks that passed the table it is entered
\* in with u's index; no other step of any walk changes, and no translation.
LEMMA WithTableWalks ==
    ASSUME NEW e, NEW u, NEW k, NEW t, MayAdd(e, u, k, t), NEW v \in VirtPage
    PROVE  LET f == WithTable(e, u, k, t)
           IN  /\ \A l \in 0 .. Levels :
                    WalkIn(f, v)[l] = IF l = k - 1 /\ Above(v, l) = Above(u, l) THEN t
                                      ELSE WalkIn(e, v)[l]
               /\ TranslateIn(f, v) = TranslateIn(e, v)
               /\ Above(v, k - 1) = Above(u, k - 1) => WalkIn(e, v)[k] = WalkIn(e, u)[k]
                                                        /\ \A l \in 0 .. k - 1 : WalkIn(e, v)[l] = None
<1> DEFINE f == WithTable(e, u, k, t)
           x == WalkIn(e, u)[k]
           j == IndexOf(u, k)
<1>1. /\ f \in Tree /\ x \in Frame /\ t # x
      /\ f[t] = [i \in Index |-> NotPresent]
      /\ f[x][j] = [frame |-> t, flags |-> TableBits]
      /\ \A y \in Frame : \A i \in Index : y # t /\ ~ (y = x /\ i = j) => f[y][i] = e[y][i]
    BY WithTableEntries
<1>2. /\ e \in Tree /\ IsTree(e) /\ u \in VirtPage /\ k \in Level /\ k # 1
      /\ k - 1 \in Level /\ k \in 0 .. Levels /\ k - 1 \in 0 .. Levels
      /\ WalkIn(e, u)[k - 1] = None /\ ~ IsTable(e, t) /\ t \in Frame
    BY DEF MayAdd, Level
<1> HIDE DEF f, x, j
<1>3. \A l \in Level : WalkIn(e, v)[l] # None =>
        /\ WalkIn(e, v)[l] \in Frame /\ WalkIn(e, v)[l] # t /\ IndexOf(v, l) \in Index
        /\ WalkIn(e, v)[l] = x => l = k /\ Above(v, k) = Above(u, k)
    <2> TAKE l \in Level
    <2> HAVE WalkIn(e, v)[l] # None
    <2>1. WalkIn(e, v)[l] \in Frame
        BY <1>2, WalkAt DEF Level
    <2>2. WalkIn(e, v)[l] # t
        BY <1>2 DEF IsTable
    <2>3. IndexOf(v, l) \in Index
        BY AboveBounds
    <2>4. WalkIn(e, v)[l] = x => l = k /\ Above(v, k) = Above(u, k)
        BY <1>2 DEF IsTree, x
    <2> QED
        BY <2>1, <2>2, <2>3, <2>4
<1>4. CASE Above(v, k - 1) # Above(u, k - 1)
    <2>1. ~ (Above(v, k) = Above(u, k) /\ IndexOf(v, k) = j)
        BY <1>2, <1>4, AboveSplits DEF j
    <2>2. \A l \in Level : WalkIn(e, v)[l] # None =>
            f[WalkIn(e, v)[l]][IndexOf(v, l)] = e[WalkIn(e, v)[l]][IndexOf(v, l)]
        BY <1>1, <1>3, <2>1
    <2>3. /\ \A l \in 0 .. Levels : WalkIn(f, v)[l] = WalkIn(e, v)[l]
          /\ TranslateIn(f, v) = TranslateIn(e, v)
        BY <1>1, <1>2, <2>2, TranslateStays
    <2> QED
        BY <1>4, <2>3 DEF f
<1>5. CASE Above(v, k - 1) = Above(u, k - 1)
    <2>1. WalkIn(e, v)[k] = x /\ WalkIn(e, v)[k - 1] = None /\ IndexOf(v, k) = j
        <3>1. k \in k - 1 .. Levels /\ k - 1 \in k - 1 .. Levels
            BY <1>2
        <3> QED
            BY <1>2, <1>5, <3>1, SameAbove, AboveSplits DEF x, j
    <2>2. \A l \in 0 .. k - 1 : WalkIn(e, v)[l] = None
        BY <1>2, <2>1, NothingBelow
    <2>3. \A l \in Level : l > k /\ WalkIn(e, v)[l] # None =>
            f[WalkIn(e, v)[l]][IndexOf(v, l)] = e[WalkIn(e, v)[l]][IndexOf(v, l)]
        BY <1>1, <1>2, <1>3 DEF Level
    <2>4. \A l \in k .. Levels : WalkIn(f, v)[l] = WalkIn(e, v)[l]
        BY <1>1, <1>2, <2>3, WalkStays
    <2>5. WalkIn(f, v)[k - 1] = t
        <3>1. WalkIn(f, v)[k] = x
            BY <1>2, <2>1, <2>4 DEF Level
        <3>2. WalkIn(f, v)[k - 1] = Below(f, v, k, x)
            BY <1>1, <1>2, <3>1, WalkAt
        <3> QED
            BY <1>1, <2>1, <3>2 DEF Below
    <2>6. WalkIn(f, v)[k - 2] = None /\ k - 2 \in 0 .. Levels
        <3>1. k - 1 \in Level /\ (k - 1) - 1 = k - 2
            BY <1>2 DEF Level
        <3>2. WalkIn(f, v)[k - 2] = Below(f, v, k - 1, t)
            BY <1>1, <2>5, <3>1, WalkAt
        <3>3. IndexOf(v, k - 1) \in Index
            BY <3>1, AboveBounds
        <3> QED
            BY <1>1, <1>2, <3>1, <3>2, <3>3 DEF Below, NotPresent, Level
    <2>7. \A l \in 0 .. k - 2 : WalkIn(f, v)[l] = None
        BY <1>1, <2>6, NothingBelow
    <2>8. \A l \in 0 .. Levels : WalkIn(f, v)[l] = IF l = k - 1 THEN t ELSE WalkIn(e, v)[l]
        <3> TAKE l \in 0 .. Levels
        <3> k \in Nat
            BY <1>2
        <3>1. l \in k .. Levels \/ l = k - 1 \/ (l \in 0 .. k - 2 /\ l \in 0 .. k - 1)
            OBVIOUS
        <3> QED
            BY <1>2, <2>2, <2>4, <2>5, <2>7, <3>1
    <2>9. TranslateIn(f, v) = TranslateIn(e, v)
        <3>1. 0 \in 0 .. k - 2 /\ 0 \in 0 .. k - 1
            BY <1>2 DEF Level
        <3>2. WalkIn(f, v)[0] = None /\ WalkIn(e, v)[0] = None
            BY <2>2, <2>7, <3>1
        <3> QED
            BY <3>2 DEF TranslateIn
    <2> QED
        BY <1>2, <1>5, <2>1, <2>2, <2>8, <2>9 DEF f, x
<1> QED
    BY <1>4, <1>5

\* With the new table the tables still are a tree, and they are one more.
LEMMA WithTableTree ==
    ASSUME NEW e, NEW u, NEW k, NEW t, MayAdd(e, u, k, t)
    PROVE  LET f == WithTable(e, u, k, t)
           IN  /\ IsTree(f)
               /\ \A x \in Frame : IsTable(f, x) <=> IsTable(e, x) \/ x = t
               /\ GrantAll(e) => GrantAll(f)
<1> DEFINE f == WithTable(e, u, k, t)
<1>1. \A v \in VirtPage :
        /\ \A l \in 0 .. Levels :
              WalkIn(f, v)[l] = IF l = k - 1 /\ Above(v, l) = Above(u, l) THEN t ELSE WalkIn(e, v)[l]
        /\ Above(v, k - 1) = Above(u, k - 1) =>
              WalkIn(e, v)[k] = WalkIn(e, u)[k] /\ \A l \in 0 .. k - 1 : WalkIn(e, v)[l] = None
    BY WithTableWalks
<1>2. /\ f \in Tree /\ WalkIn(e, u)[k] \in Frame /\ t # WalkIn(e, u)[k]
      /\ f[WalkIn(e, u)[k]][IndexOf(u, k)] = [frame |-> t, flags |-> TableBits]
      /\ \A y \in Frame : \A i \in Index :
            y # t /\ ~ (y = WalkIn(e, u)[k] /\ i = IndexOf(u, k)) => f[y][i] = e[y][i]
    BY WithTableEntries
<1>3. /\ e \in Tree /\ IsTree(e) /\ u \in VirtPage /\ k \in Level /\ k # 1
      /\ k - 1 \in Level /\ ~ IsTable(e, t) /\ t \in Frame /\ t # None
    BY DEF MayAdd, Level
<1>4. \A v \in VirtPage, l \in Level : WalkIn(e, v)[l] # t
    BY <1>3 DEF IsTable
<1> HIDE DEF f
<1>5. \A l \in Level : l \in 0 .. Levels /\ l - 1 \in 0 .. Levels
    BY DEF Level
<1>6. IsTree(f)
    <2> SUFFICES ASSUME NEW v \in VirtPage, NEW w \in VirtPage, NEW l \in Level, NEW m \in Level,
                        WalkIn(f, v)[l] # None, WalkIn(f, v)[l] = WalkIn(f, w)[m]
                 PROVE  l = m /\ Above(v, l) = Above(w, l)
        BY DEF IsTree
    <2>1. CASE WalkIn(f, v)[l] = t
        <3>1. l = k - 1 /\ Above(v, l) = Above(u, l)
            BY <1>1, <1>4, <1>5, <2>1
        <3>2. m = k - 1 /\ Above(w, m) = Above(u, m)
            <4>1. WalkIn(f, w)[m] = t /\ m \in 0 .. Levels /\ WalkIn(e, w)[m] # t
                BY <1>4, <1>5, <2>1
            <4>2. WalkIn(f, w)[m] = IF m = k - 1 /\ Above(w, m) = Above(u, m) THEN t ELSE WalkIn(e, w)[m]
                BY ONLY <1>1, <4>1, w \in VirtPage
            <4> QED
                BY ONLY <4>1, <4>2
        <3> QED
            BY <3>1, <3>2
    <2>2. CASE WalkIn(f, v)[l] # t
        <3>1. WalkIn(e, v)[l] = WalkIn(f, v)[l] /\ WalkIn(e, w)[m] = WalkIn(f, w)[m]
            BY <1>1, <1>5, <2>2
        <3> QED
            BY <1>3, <3>1 DEF IsTree
    <2> QED
        BY <2>1, <2>2
<1>7. ASSUME NEW x \in Frame
      PROVE  IsTable(f, x) <=> IsTable(e, x) \/ x = t
    <2>1. IsTable(f, x) => IsTable(e, x) \/ x = t
        BY <1>1, <1>5 DEF IsTable
    <2>2. x = t => IsTable(f, x)
        <3> WalkIn(f, u)[k - 1] = t
            BY <1>1, <1>3, <1>5
        <3> QED
            BY <1>3 DEF IsTable
    <2>3. ASSUME NEW v \in VirtPage, NEW l \in Level, WalkIn(e, v)[l] = x
          PROVE  WalkIn(f, v)[l] = x
        <3>1. x # None
            OBVIOUS
        <3>2. ~ (l = k - 1 /\ Above(v, l) = Above(u, l))
            <4>1. k - 1 \in 0 .. k - 1
                BY <1>3 DEF Level
            <4> QED
                BY <1>1, <2>3, <3>1, <4>1
        <3> QED
            BY <1>1, <1>5, <2>3, <3>2
    <2> QED
        BY <2>1, <2>2, <2>3 DEF IsTable
<1>8. ASSUME GrantAll(e)
      PROVE  GrantAll(f)
    <2> SUFFICES ASSUME NEW v \in VirtPage, NEW l \in Level \ {1},
                        WalkIn(f, v)[l] # None, WalkIn(f, v)[l - 1] # None
                 PROVE  f[WalkIn(f, v)[l]][IndexOf(v, l)].flags = TableBits
        BY DEF GrantAll
    <2>0. l \in 0 .. Levels /\ l - 1 \in 0 .. Levels /\ l - 1 \in Level /\ IndexOf(v, l) \in Index
        BY <1>5, AboveBounds DEF Level
    <2>1. CASE Above(v, k - 1) = Above(u, k - 1)
        <3>1. l >= k
            <4> SUFFICES ASSUME l \in 1 .. k - 1
                         PROVE  FALSE
                BY <1>3 DEF Level
            <4>1. l - 1 # k - 1 /\ l - 1 \in 0 .. k - 1
                BY <1>3 DEF Level
            <4> QED
                BY <1>1, <2>0, <2>1, <4>1
        <3>2. CASE l = k
            <4>1. IndexOf(v, k) = IndexOf(u, k)
                BY <1>3, <2>1, AboveSplits
            <4>2. WalkIn(f, v)[k] = WalkIn(e, u)[k]
                BY <1>1, <1>3, <1>5, <2>1 DEF Level
            <4> QED
                BY <1>2, <3>2, <4>1, <4>2
        <3>3. CASE l > k
            <4>1. WalkIn(f, v)[l] = WalkIn(e, v)[l] /\ WalkIn(f, v)[l - 1] = WalkIn(e, v)[l - 1]
                BY <1>1, <1>3, <2>0, <3>3 DEF Level
            <4>2. WalkIn(e, v)[l] # WalkIn(e, u)[k]
                BY <1>2, <1>3, <3>3 DEF IsTree, Level
            <4>3. WalkIn(e, v)[l] \in Frame /\ WalkIn(e, v)[l] # t
                BY <1>3, <1>4, <2>0, <4>1, WalkAt
            <4> QED
                BY <1>2, <1>8, <2>0, <4>1, <4>2, <4>3 DEF GrantAll
        <3> QED
            BY <1>3, <3>1, <3>2, <3>3 DEF Level
    <2>2. CASE Above(v, k - 1) # Above(u, k - 1)
        <3>1. WalkIn(f, v)[l] = WalkIn(e, v)[l] /\ WalkIn(f, v)[l - 1] = WalkIn(e, v)[l - 1]
            BY <1>1, <2>0, <2>2
        <3>2. ~ (WalkIn(e, v)[l] = WalkIn(e, u)[k] /\ IndexOf(v, l) = IndexOf(u, k))
            <4> SUFFICES ASSUME WalkIn(e, v)[l] = WalkIn(e, u)[k], IndexOf(v, l) = IndexOf(u, k)
                         PROVE  FALSE
                OBVIOUS
            <4>1. l = k /\ Above(v, l) = Above(u, l)
                BY <1>2, <1>3 DEF IsTree
            <4> QED
                BY <1>3, <2>2, <4>1, AboveSplits
        <3>3. WalkIn(e, v)[l] \in Frame /\ WalkIn(e, v)[l] # t
            BY <1>3, <1>4, <2>0, <3>1, WalkAt
        <3> QED
            BY <1>2, <1>8, <2>0, <3>1, <3>2, <3>3 DEF GrantAll
    <2> QED
        BY <2>1, <2>2
<1> QED
    BY <1>6, <1>7, <1>8 DEF f

\* The entry for the page u in its last table set to x.
WithEntry(e, u, x) == [e EXCEPT ![WalkIn(e, u)[1]][IndexOf(u, 1)] = x]

\* It changes the translation of u, to the page entered with its flags, and of no other
\* page, and it changes no table.
LEMMA WithEntryWalks ==
    ASSUME NEW e \in Tree, IsTree(e), GrantAll(e),
           NEW u \in VirtPage, WalkIn(e, u)[1] # None,
           NEW p \in Frame, NEW g
    PROVE  LET x == [frame |-> p, flags |-> EntryFlags(g)]
               f == WithEntry(e, u, x)
           IN  /\ f \in Tree
               /\ \A v \in VirtPage : \A l \in Level : WalkIn(f, v)[l] = WalkIn(e, v)[l]
               /\ \A v \in VirtPage \ {u} : TranslateIn(f, v) = TranslateIn(e, v)
               /\ TranslateIn(f, u) = x
               /\ IsTree(f) /\ GrantAll(f)
               /\ \A y \in Frame : IsTable(f, y) <=> IsTable(e, y)
<1> DEFINE x == [frame |-> p, flags |-> EntryFlags(g)]
           f == WithEntry(e, u, x)
           t == WalkIn(e, u)[1]
           j == IndexOf(u, 1)
<1>1. 1 \in Level /\ 1 \in 0 .. Levels /\ 0 \in 0 .. Levels /\ 1 - 1 = 0
    BY DEF Level
<1>2. t \in Frame /\ j \in Index
    BY <1>1, WalkAt, AboveBounds
<1>3. x \in Entry
    BY DEF Entry, EntryFlags
<1>4. f = [e EXCEPT ![t][j] = x]
    BY DEF WithEntry
<1>x. x.frame = p /\ x.flags = EntryFlags(g)
    OBVIOUS
<1> HIDE DEF x, f, t, j
<1>5. f \in Tree
    BY <1>2, <1>3, <1>4 DEF Tree
<1>6. f[t][j] = x /\ \A y \in Frame : \A i \in Index : ~ (y = t /\ i = j) => f[y][i] = e[y][i]
    BY <1>2, <1>4 DEF Tree
<1>7. ASSUME NEW v \in VirtPage, NEW l \in Level, WalkIn(e, v)[l] # None
      PROVE  /\ WalkIn(e, v)[l] \in Frame /\ IndexOf(v, l) \in Index
             /\ v # u \/ l # 1 =>
                    f[WalkIn(e, v)[l]][IndexOf(v, l)] = e[WalkIn(e, v)[l]][IndexOf(v, l)]
    <2>1. WalkIn(e, v)[l] \in Frame /\ IndexOf(v, l) \in Index
        BY <1>7, WalkAt, AboveBounds DEF Level
    <2>2. WalkIn(e, v)[l] = t => l = 1 /\ Above(v, 1) = Above(u, 1)
        BY <1>1, <1>7 DEF IsTree, t
    <2>3. Above(v, 1) = Above(u, 1) /\ IndexOf(v, 1) = j => v = u
        BY <1>1, AboveSplits, AboveBounds DEF j
    <2> QED
        BY <1>6, <2>1, <2>2, <2>3
<1>8. \A v \in VirtPage : \A l \in Level : WalkIn(f, v)[l] = WalkIn(e, v)[l]
    <2> TAKE v \in VirtPage
    <2>1. \A l \in Level : l > 1 /\ WalkIn(e, v)[l] # None =>
            f[WalkIn(e, v)[l]][IndexOf(v, l)] = e[WalkIn(e, v)[l]][IndexOf(v, l)]
        BY <1>7 DEF Level
    <2>2. \A l \in 1 .. Levels : WalkIn(f, v)[l] = WalkIn(e, v)[l]
        BY <1>1, <1>5, <2>1, WalkStays
    <2> QED
        BY <2>2 DEF Level
<1>9. \A v \in VirtPage \ {u} : TranslateIn(f, v) = TranslateIn(e, v)
    <2> TAKE v \in VirtPage \ {u}
    <2>1. \A l \in Level : WalkIn(e, v)[l] # None =>
            f[WalkIn(e, v)[l]][IndexOf(v, l)] = e[WalkIn(e, v)[l]][IndexOf(v, l)]
        BY <1>7
    <2> QED
        BY <1>5, <2>1, TranslateStays
<1>10. WalkIn(f, u)[0] = p
    <2>1. WalkIn(f, u)[0] = Below(f, u, 1, WalkIn(f, u)[1])
        BY <1>1, <1>5, WalkAt
    <2>2. WalkIn(f, u)[1] = t
        BY <1>1, <1>8 DEF t
    <2> QED
        BY <1>2, <1>6, <1>x, <2>1, <2>2 DEF Below, j
<1>11. \A l \in Level \ {1} : WalkIn(e, u)[l] # None /\ WalkIn(e, u)[l - 1] # None
    <2> TAKE l \in Level \ {1}
    <2>1. l \in 0 .. Levels /\ l - 1 \in 0 .. Levels /\ 1 \in 0 .. l /\ 1 \in 0 .. l - 1
        BY DEF Level
    <2> QED
        BY <2>1, NothingBelow
<1>12. GrantAll(f)
    <2> SUFFICES ASSUME NEW v \in VirtPage, NEW l \in Level \ {1},
                        WalkIn(f, v)[l] # None, WalkIn(f, v)[l - 1] # None
                 PROVE  f[WalkIn(f, v)[l]][IndexOf(v, l)].flags = TableBits
        BY DEF GrantAll
    <2>1. l - 1 \in Level
        BY DEF Level
    <2> QED
        BY <1>7, <1>8, <2>1 DEF GrantAll
<1>13. Rights(f, WalkIn(f, u), u) = EntryFlags(g)
    <2>1. \A l \in Level \ {1} : f[WalkIn(f, u)[l]][IndexOf(u, l)].flags = TableBits
        BY <1>8, <1>11, <1>12, <1>1 DEF GrantAll, Level
    <2>2. f[WalkIn(f, u)[1]][IndexOf(u, 1)].flags = EntryFlags(g)
        BY <1>1, <1>6, <1>8, <1>x DEF t, j
    <2> DEFINE at == [l \in Level |-> f[WalkIn(f, u)[l]][IndexOf(u, l)].flags]
    <2>3. at[1] = EntryFlags(g) /\ \A l \in Level \ {1} : at[l] = TableBits
        BY <1>1, <2>1, <2>2
    <2>4. Rights(f, WalkIn(f, u), u) =
            {bit \in UNION {at[l] : l \in Level} :
                \/ bit \in {"NoExecute", "WriteThrough", "CacheDisable"}
                \/ \A l \in Level : bit \in at[l]}
        <3>1. \A l \in Level : at[l] = f[WalkIn(f, u)[l]][IndexOf(u, l)].flags
            OBVIOUS
        <3> HIDE DEF at
        <3>2. UNION {at[l] : l \in Level}
                = UNION {f[WalkIn(f, u)[l]][IndexOf(u, l)].flags : l \in Level}
            BY <3>1
        <3>3. \A bit : (\A l \in Level : bit \in at[l])
                <=> (\A l \in Level : bit \in f[WalkIn(f, u)[l]][IndexOf(u, l)].flags)
            BY <3>1
        <3> QED
            BY <3>2, <3>3 DEF Rights
    <2> HIDE DEF at
    <2>5. EntryFlags(g) \subseteq TableBits \cup {"NoExecute", "WriteThrough", "CacheDisable"}
        BY DEF EntryFlags, TableBits
    <2>6. TableBits \cap {"NoExecute", "WriteThrough", "CacheDisable"} = {}
        BY DEF TableBits
    <2>7. \A bit : bit \in UNION {at[l] : l \in Level} <=> \E l \in Level : bit \in at[l]
        OBVIOUS
    <2>8. ASSUME NEW bit \in EntryFlags(g)
          PROVE  bit \in Rights(f, WalkIn(f, u), u)
        BY <1>1, <2>3, <2>4, <2>5, <2>7
    <2>9. ASSUME NEW bit \in Rights(f, WalkIn(f, u), u)
          PROVE  bit \in EntryFlags(g)
        BY <1>1, <2>3, <2>4, <2>6, <2>7
    <2> QED
        BY <2>8, <2>9
<1>14. TranslateIn(f, u) = x
    BY <1>10, <1>13 DEF TranslateIn, x
<1>15. IsTree(f)
    BY <1>8 DEF IsTree
<1>16. \A y \in Frame : IsTable(f, y) <=> IsTable(e, y)
    BY <1>8 DEF IsTable
<1> QED
    BY <1>5, <1>8, <1>9, <1>12, <1>14, <1>15, <1>16 DEF f, x

-----------------------------------------------------------------------------
(* The inductive invariant. *)

\* Every frame is free, taken by a caller or a table, and only one of these.
EachFrameOnce ==
    /\ free \cap owned = {}
    /\ \A x \in Frame : x \notin free \cup owned <=> IsTable(entry, x)

\* Where a call in progress is: the table it has reached is the one that the walk through
\* the tables as they are now reaches.
CallOnItsWay ==
    /\ call # "idle" => /\ virt \in Virts /\ phys \in Frame /\ flags \in Requests
                        /\ level \in Level /\ table \in Frame /\ Walk(virt)[level] = table
    /\ call = "flush" => level = 1

\* A stale translation is that of the page whose entry has just been written.
TlbTracks ==
    \A v \in Virts : (call = "flush" /\ v = virt) \/ tlb[v] \in {None, Translate(v)}

IInv ==
    /\ TypeOK
    /\ EachFrameOnce /\ IsTree(entry) /\ GrantAll(entry)
    /\ CallOnItsWay /\ TlbTracks

LEMMA TranslateType ==
    ASSUME NEW e \in Tree, NEW v \in VirtPage
    PROVE  TranslateIn(e, v) \in Entry \cup {None}
<1>1. CASE WalkIn(e, v)[0] = None
    BY <1>1 DEF TranslateIn
<1>2. CASE WalkIn(e, v)[0] # None
    <2>1. WalkIn(e, v)[0] \in Frame
        BY <1>2, WalkAt
    <2>2. \A l \in Level : WalkIn(e, v)[l] \in Frame /\ IndexOf(v, l) \in Index
        <3> TAKE l \in Level
        <3>1. l \in 0 .. Levels /\ 0 \in 0 .. l
            BY DEF Level
        <3> QED
            BY <1>2, <3>1, NothingBelow, WalkAt, AboveBounds
    <2>3. \A l \in Level : e[WalkIn(e, v)[l]][IndexOf(v, l)].flags
                \in SUBSET {"ReadWrite", "User", "WriteThrough", "CacheDisable", "NoExecute"}
        BY <2>2 DEF Tree, Entry
    <2>4. Rights(e, WalkIn(e, v), v)
                \in SUBSET {"ReadWrite", "User", "WriteThrough", "CacheDisable", "NoExecute"}
        BY <2>3 DEF Rights
    <2> QED
        BY <1>2, <2>1, <2>4 DEF TranslateIn, Entry
<1> QED
    BY <1>1, <1>2

\* The walks through an empty root.
LEMMA InitWalks ==
    ASSUME Init
    PROVE  /\ entry \in Tree
           /\ \A v \in VirtPage : /\ Walk(v)[Levels] = Root
                                  /\ \A l \in 0 .. Levels - 1 : Walk(v)[l] = None
                                  /\ Translate(v) = None
<1>1. \A i \in Index : NotPresent \in Entry /\ Garbage[i] \in Entry
    BY DEF NotPresent, Garbage, Entry, TableBits
<1>2. entry \in Tree
    BY <1>1 DEF Init, Tree, Garbage
<1>3. ASSUME NEW v \in VirtPage
      PROVE  /\ Walk(v)[Levels] = Root
             /\ \A l \in 0 .. Levels - 1 : Walk(v)[l] = None
             /\ Translate(v) = None
    <2>1. Walk(v)[Levels] = Root
        BY <1>2, WalkAt DEF Walk
    <2>2. Levels \in Level /\ Levels - 1 \in 0 .. Levels
        BY DEF Level
    <2>3. Walk(v)[Levels - 1] = Below(entry, v, Levels, Root)
        BY <1>2, <2>1, <2>2, WalkAt DEF Walk
    <2>4. entry[Root][IndexOf(v, Levels)] = NotPresent
        BY <2>2, AboveBounds DEF Init
    <2>5. Walk(v)[Levels - 1] = None
        BY <2>3, <2>4 DEF Below, NotPresent
    <2>6. \A l \in 0 .. Levels - 1 : Walk(v)[l] = None
        BY <1>2, <2>2, <2>5, NothingBelow DEF Walk
    <2>7. Translate(v) = None
        BY <2>6 DEF Translate, TranslateIn, Walk
    <2> QED
        BY <2>1, <2>6, <2>7
<1> QED
    BY <1>2, <1>3

LEMMA InitIInv == Init => IInv
<1> SUFFICES ASSUME Init
             PROVE  IInv
    OBVIOUS
<1>1. 0 \in VirtPage
    BY PagesAt DEF VirtPage
<1>2. TypeOK
    BY <1>1, InitWalks DEF Init, TypeOK, Tree
<1>3. \A v \in VirtPage : \A l \in Level :
        Walk(v)[l] = IF l = Levels THEN Root ELSE None
    BY InitWalks DEF Level
<1>4. EachFrameOnce
    <2>1. \A x \in Frame : IsTable(entry, x) <=> x = Root
        BY <1>1, <1>3 DEF IsTable, Walk, Level
    <2> QED
        BY <2>1 DEF EachFrameOnce, Init
<1>5. IsTree(entry)
    <2>1. \A v \in VirtPage : Above(v, Levels) = 0
        BY AboveBounds
    <2> QED
        BY <1>3, <2>1 DEF IsTree, Walk
<1>6. GrantAll(entry)
    <2>1. \A v \in VirtPage : \A l \in Level : WalkIn(entry, v)[l - 1] = None
        BY InitWalks DEF Walk, Level
    <2> QED
        BY <2>1 DEF GrantAll
<1>7. CallOnItsWay /\ TlbTracks
    BY DEF CallOnItsWay, TlbTracks, Init
<1> QED
    BY <1>2, <1>4, <1>5, <1>6, <1>7 DEF IInv

\* A step that changes neither the tables nor who has which frame.
LEMMA TablesUntouched ==
    ASSUME IInv, UNCHANGED <<entry, free, owned>>
    PROVE  EachFrameOnce' /\ IsTree(entry)' /\ GrantAll(entry)'
BY DEF IInv, EachFrameOnce, IsTable, IsTree, GrantAll

LEMMA TakePageStep ==
    ASSUME IInv, NEW p \in Frame, TakePage(p)
    PROVE  IInv'
<1>1. entry' = entry /\ \A v : Translate(v)' = Translate(v) /\ Walk(v)' = Walk(v)
    BY DEF TakePage, Translate, Walk
<1>2. TypeOK'
    BY DEF IInv, TypeOK, TakePage, walk
<1>3. EachFrameOnce'
    BY <1>1 DEF IInv, EachFrameOnce, IsTable, TakePage
<1>4. IsTree(entry)' /\ GrantAll(entry)'
    BY <1>1 DEF IInv, IsTree, GrantAll
<1>5. CallOnItsWay' /\ TlbTracks'
    BY <1>1 DEF IInv, CallOnItsWay, TlbTracks, TakePage, walk
<1> QED
    BY <1>2, <1>3, <1>4, <1>5 DEF IInv

LEMMA CallMapStep ==
    ASSUME IInv, NEW v \in Virts, NEW p \in owned, NEW f \in Requests, CallMap(v, p, f)
    PROVE  IInv'
<1>1. entry' = entry /\ \A w : Translate(w)' = Translate(w) /\ Walk(w)' = Walk(w)
    BY DEF CallMap, Translate, Walk
<1>2. p \in Frame /\ v \in VirtPage /\ Levels \in Level /\ Levels \in 0 .. Levels
    BY DEF IInv, TypeOK, Level
<1>3. TypeOK'
    BY <1>2 DEF IInv, TypeOK, CallMap
<1>4. EachFrameOnce' /\ IsTree(entry)' /\ GrantAll(entry)'
    BY TablesUntouched DEF CallMap
<1>5. Walk(v)[Levels] = Root
    BY <1>2, WalkAt DEF IInv, TypeOK, Tree, Walk
<1>6. CallOnItsWay'
    BY <1>1, <1>2, <1>5 DEF CallOnItsWay, CallMap
<1>7. TlbTracks'
    BY <1>1 DEF IInv, TlbTracks, CallMap
<1> QED
    BY <1>3, <1>4, <1>6, <1>7 DEF IInv

LEMMA DescendStep ==
    ASSUME IInv, Descend
    PROVE  IInv'
<1>1. entry' = entry /\ \A w : Translate(w)' = Translate(w) /\ Walk(w)' = Walk(w)
    BY DEF Descend, Translate, Walk
<1>2. /\ virt \in Virts /\ virt \in VirtPage /\ level \in Level /\ level # 1 /\ level - 1 \in Level
      /\ table \in Frame /\ Walk(virt)[level] = table /\ entry \in Tree
    BY DEF IInv, CallOnItsWay, TypeOK, Tree, Descend, Level
<1>3. Walk(virt)[level - 1] = entry[table][IndexOf(virt, level)].frame
    BY <1>2, WalkAt DEF Walk, Below
<1>4. table' = Walk(virt)[level - 1] /\ table' # None /\ level' = level - 1
    BY <1>3 DEF Descend
<1>5. table' \in Frame
    <2> level - 1 \in 0 .. Levels
        BY <1>2 DEF Level
    <2> QED
        BY <1>2, <1>4, WalkAt DEF Walk
<1>6. TypeOK'
    BY <1>2, <1>4, <1>5 DEF IInv, TypeOK, Descend, Level
<1>7. EachFrameOnce' /\ IsTree(entry)' /\ GrantAll(entry)'
    BY TablesUntouched DEF Descend
<1>8. CallOnItsWay'
    BY <1>1, <1>2, <1>4, <1>5 DEF IInv, CallOnItsWay, Descend
<1>9. TlbTracks'
    BY <1>1 DEF IInv, TlbTracks, Descend
<1> QED
    BY <1>6, <1>7, <1>8, <1>9 DEF IInv

LEMMA AddTableStep ==
    ASSUME IInv, NEW t \in Frame, AddTable(t)
    PROVE  /\ IInv'
           /\ \A v \in VirtPage : Translate(v)' = Translate(v)
<1>1. /\ virt \in Virts /\ virt \in VirtPage /\ level \in Level \ {1} /\ level - 1 \in Level
      /\ table \in Frame /\ Walk(virt)[level] = table /\ entry \in Tree
    BY DEF IInv, CallOnItsWay, TypeOK, Tree, AddTable, Level
<1>2. Walk(virt)[level - 1] = None
    BY <1>1, WalkAt DEF Walk, Below, AddTable
<1>3. ~ IsTable(entry, t)
    BY DEF IInv, EachFrameOnce, AddTable
<1>4. MayAdd(entry, virt, level, t)
    BY <1>1, <1>2, <1>3 DEF MayAdd, IInv, Walk
<1>5. entry' = WithTable(entry, virt, level, t)
    BY <1>1 DEF WithTable, AddTable, Walk
<1>6. \A v \in VirtPage :
        /\ \A l \in 0 .. Levels :
              Walk(v)'[l] = IF l = level - 1 /\ Above(v, l) = Above(virt, l) THEN t ELSE Walk(v)[l]
        /\ Translate(v)' = Translate(v)
    BY <1>4, <1>5, WithTableWalks DEF Walk, Translate
<1>7. IsTree(entry)' /\ \A x \in Frame : IsTable(entry, x)' <=> IsTable(entry, x) \/ x = t
    <2>1. IsTree(entry') /\ \A x \in Frame : IsTable(entry', x) <=> IsTable(entry, x) \/ x = t
        BY <1>4, <1>5, WithTableTree
    <2> QED
        BY <2>1 DEF IsTree, IsTable
<1>8. GrantAll(entry)'
    <2>1. GrantAll(entry')
        BY <1>4, <1>5, WithTableTree DEF IInv
    <2> QED
        BY <2>1 DEF GrantAll
<1>9. entry' \in Tree
    BY <1>4, <1>5, WithTableEntries
<1>10. TypeOK'
    <2>1. /\ free' \subseteq free /\ table' = t /\ level' = level - 1
          /\ UNCHANGED <<owned, tlb, call, virt, phys, flags>>
        BY DEF AddTable
    <2>2. level - 1 \in 0 .. Levels
        BY <1>1 DEF Level
    <2> QED
        BY <1>9, <2>1, <2>2 DEF IInv, TypeOK, Tree
<1>11. EachFrameOnce'
    BY <1>7 DEF IInv, EachFrameOnce, AddTable
<1>12. CallOnItsWay'
    <2>1. level - 1 \in 0 .. Levels
        BY <1>1 DEF Level
    <2>2. virt' = virt /\ Walk(virt)'[level - 1] = t
        BY <1>1, <1>6, <2>1 DEF AddTable
    <2> QED
        BY <1>1, <2>2 DEF IInv, CallOnItsWay, AddTable, Walk
<1>13. TlbTracks'
    BY <1>6 DEF IInv, TlbTracks, AddTable
<1> QED
    BY <1>6, <1>7, <1>8, <1>10, <1>11, <1>12, <1>13 DEF IInv

LEMMA WriteEntryStep ==
    ASSUME IInv, WriteEntry
    PROVE  /\ IInv'
           /\ virt \in VirtPage /\ phys \in Frame /\ flags \in Requests
           /\ Translate(virt)' = [frame |-> phys, flags |-> EntryFlags(flags)]
           /\ \A v \in VirtPage \ {virt} : Translate(v)' = Translate(v)
<1> DEFINE x == [frame |-> phys, flags |-> EntryFlags(flags)]
<1>1. /\ virt \in Virts /\ virt \in VirtPage /\ level = 1 /\ level \in Level
      /\ table \in Frame /\ Walk(virt)[1] = table /\ entry \in Tree
      /\ phys \in Frame /\ flags \in Requests
    BY DEF IInv, CallOnItsWay, TypeOK, Tree, WriteEntry
<1>2. entry' = WithEntry(entry, virt, x)
    BY <1>1 DEF WithEntry, WriteEntry, Walk
<1>3. /\ entry' \in Tree
      /\ \A v \in VirtPage : \A l \in Level : WalkIn(entry', v)[l] = WalkIn(entry, v)[l]
      /\ \A v \in VirtPage \ {virt} : TranslateIn(entry', v) = TranslateIn(entry, v)
      /\ TranslateIn(entry', virt) = x
      /\ IsTree(entry') /\ GrantAll(entry')
      /\ \A y \in Frame : IsTable(entry', y) <=> IsTable(entry, y)
    <2>1. WalkIn(entry, virt)[1] # None /\ IsTree(entry) /\ GrantAll(entry)
        BY <1>1 DEF Walk, IInv
    <2> HIDE DEF IInv
    <2> QED
        BY <1>1, <1>2, <2>1, WithEntryWalks
<1>4. /\ Translate(virt)' = x /\ virt' = virt
      /\ \A v \in VirtPage \ {virt} : Translate(v)' = Translate(v)
    BY <1>3 DEF Translate, WriteEntry, walk
<1>5. TypeOK'
    BY <1>1, <1>3 DEF IInv, TypeOK, WriteEntry, walk, Tree
<1>6. EachFrameOnce' /\ IsTree(entry)' /\ GrantAll(entry)'
    <2>1. EachFrameOnce'
        <3>1. \A y \in Frame : IsTable(entry, y)' <=> IsTable(entry, y)
            BY <1>3 DEF IsTable
        <3> QED
            BY <3>1 DEF IInv, EachFrameOnce, WriteEntry
    <2> QED
        BY <1>3, <2>1 DEF IsTree, GrantAll
<1>7. CallOnItsWay'
    BY <1>1, <1>3 DEF IInv, CallOnItsWay, WriteEntry, walk, Walk
<1>8. TlbTracks'
    <2>1. Virts \subseteq VirtPage
        OBVIOUS
    <2> QED
        BY <1>4, <2>1 DEF IInv, TlbTracks, WriteEntry, walk
<1> QED
    BY <1>1, <1>4, <1>5, <1>6, <1>7, <1>8 DEF IInv

LEMMA AddTableFailsStep ==
    ASSUME IInv, AddTableFails
    PROVE  IInv'
<1>1. entry' = entry /\ \A w : Translate(w)' = Translate(w)
    BY DEF AddTableFails, Translate
<1>2. 0 \in VirtPage
    BY PagesAt DEF VirtPage
<1>3. TypeOK'
    BY <1>2 DEF IInv, TypeOK, AddTableFails, Return
<1>4. EachFrameOnce' /\ IsTree(entry)' /\ GrantAll(entry)'
    BY TablesUntouched DEF AddTableFails
<1>5. CallOnItsWay' /\ TlbTracks'
    BY <1>1 DEF IInv, CallOnItsWay, TlbTracks, AddTableFails, Return
<1> QED
    BY <1>3, <1>4, <1>5 DEF IInv

LEMMA FlushStep ==
    ASSUME IInv, Flush
    PROVE  IInv'
<1>1. entry' = entry /\ \A w : Translate(w)' = Translate(w)
    BY DEF Flush, Translate
<1>2. 0 \in VirtPage
    BY PagesAt DEF VirtPage
<1>3. TypeOK'
    <2>1. tlb' \in [Virts -> Entry \cup {None}]
        BY DEF IInv, TypeOK, Flush
    <2>2. UNCHANGED <<entry, free, owned>> /\ Return
        BY DEF Flush
    <2> QED
        BY <1>2, <2>1, <2>2 DEF IInv, TypeOK, Return
<1>4. EachFrameOnce' /\ IsTree(entry)' /\ GrantAll(entry)'
    BY TablesUntouched DEF Flush
<1>5. CallOnItsWay'
    BY DEF CallOnItsWay, Flush, Return
<1>6. TlbTracks'
    <2> SUFFICES ASSUME NEW v \in Virts
                 PROVE  tlb'[v] \in {None, Translate(v)'}
        BY DEF TlbTracks
    <2>1. tlb' = [tlb EXCEPT ![virt] = None] /\ tlb \in [Virts -> Entry \cup {None}]
        BY DEF IInv, TypeOK, Flush
    <2>2. v = virt \/ tlb[v] \in {None, Translate(v)}
        BY DEF IInv, TlbTracks
    <2> QED
        BY <1>1, <2>1, <2>2
<1> QED
    BY <1>3, <1>4, <1>5, <1>6 DEF IInv

LEMMA CacheStep ==
    ASSUME IInv, NEW v \in Virts, Cache(v)
    PROVE  IInv'
<1>1. entry' = entry /\ \A w : Translate(w)' = Translate(w) /\ Walk(w)' = Walk(w)
    BY DEF Cache, Translate, Walk
<1>2. Translate(v) \in Entry \cup {None}
    BY TranslateType DEF IInv, TypeOK, Tree, Translate
<1>3. TypeOK'
    BY <1>2 DEF IInv, TypeOK, Cache, walk
<1>4. EachFrameOnce' /\ IsTree(entry)' /\ GrantAll(entry)'
    BY TablesUntouched DEF Cache
<1>5. CallOnItsWay'
    BY <1>1 DEF IInv, CallOnItsWay, Cache, walk
<1>6. TlbTracks'
    <2> SUFFICES ASSUME NEW w \in Virts
                 PROVE  (call = "flush" /\ w = virt) \/ tlb'[w] \in {None, Translate(w)}
        BY <1>1 DEF TlbTracks, Cache, walk
    <2>1. tlb' = [tlb EXCEPT ![v] = Translate(v)] /\ tlb \in [Virts -> Entry \cup {None}]
        BY DEF IInv, TypeOK, Cache
    <2>2. (call = "flush" /\ w = virt) \/ tlb[w] \in {None, Translate(w)}
        BY DEF IInv, TlbTracks
    <2> QED
        BY <2>1, <2>2
<1> QED
    BY <1>3, <1>4, <1>5, <1>6 DEF IInv

LEMMA UnchangedStep ==
    ASSUME IInv, UNCHANGED vars
    PROVE  IInv'
<1>1. \A w : Translate(w)' = Translate(w) /\ Walk(w)' = Walk(w)
    BY DEF Translate, Walk, vars
<1>2. EachFrameOnce' /\ IsTree(entry)' /\ GrantAll(entry)'
    BY TablesUntouched DEF vars
<1> QED
    BY <1>1, <1>2 DEF IInv, TypeOK, CallOnItsWay, TlbTracks, vars, walk

LEMMA NextIInv == IInv /\ [Next]_vars => IInv'
<1> SUFFICES ASSUME IInv, [Next]_vars
             PROVE  IInv'
    OBVIOUS
<1>1. CASE Descend
    BY <1>1, DescendStep
<1>2. CASE \E t \in Frame : AddTable(t)
    BY <1>2, AddTableStep
<1>3. CASE AddTableFails
    BY <1>3, AddTableFailsStep
<1>4. CASE WriteEntry
    BY <1>4, WriteEntryStep
<1>5. CASE Flush
    BY <1>5, FlushStep
<1>6. CASE \E p \in Frame : TakePage(p)
    BY <1>6, TakePageStep
<1>7. CASE \E v \in Virts, p \in owned, f \in Requests : CallMap(v, p, f)
    BY <1>7, CallMapStep
<1>8. CASE \E v \in Virts : Cache(v)
    BY <1>8, CacheStep
<1>9. CASE UNCHANGED vars
    BY <1>9, UnchangedStep
<1> QED
    BY <1>1, <1>2, <1>3, <1>4, <1>5, <1>6, <1>7, <1>8, <1>9 DEF Next, Step

\* The inductive invariant holds throughout.
THEOREM InductiveInvariant == Spec => []IInv
<1> QED
    BY InitIInv, NextIInv, PTL DEF Spec

-----------------------------------------------------------------------------
(* The properties. *)

\* ensure_table and map_virtual: the page tables are a tree, a frame that serves as a table
\* is not also free or in a caller's hands, and no frame gets lost.
THEOREM TablesStayApart == Spec => []TablesApart
<1>1. IInv => TablesApart
    <2> SUFFICES ASSUME IInv
                 PROVE  FramesApart
        BY DEF IInv, TablesApart
    <2> DEFINE at == [v \in VirtPage |-> Walk(v)]
               Tables == {at[v][l] : v \in VirtPage, l \in Level} \ {None}
    <2>1. \A v \in VirtPage : at[v] = WalkIn(entry, v)
        BY DEF Walk
    <2>2. ASSUME NEW v \in VirtPage, NEW l \in Level
          PROVE  at[v][l] \in Frame \cup {None}
        <3> l \in 0 .. Levels /\ entry \in Tree
            BY DEF IInv, TypeOK, Tree, Level
        <3> QED
            BY <2>1, WalkAt
    <2> HIDE DEF at
    <2>3. Tables \subseteq Frame
        BY <2>2
    <2>4. \A x \in Frame : x \in Tables <=> IsTable(entry, x)
        BY <2>1 DEF IsTable
    <2>5. \A x \in Frame : x \notin free \cup owned <=> x \in Tables
        BY <2>4 DEF IInv, EachFrameOnce
    <2> HIDE DEF Tables
    <2>6. Frame = free \cup owned \cup Tables
        BY <2>3, <2>5 DEF IInv, TypeOK
    <2>7. free \cap owned = {} /\ Tables \cap (free \cup owned) = {}
        BY <2>3, <2>5 DEF IInv, TypeOK, EachFrameOnce
    <2>8. \A v, w \in VirtPage : \A l, m \in Level :
            at[v][l] # None /\ at[v][l] = at[w][m] =>
                l = m /\ v \div Pages[l] = w \div Pages[l]
        BY <2>1 DEF IInv, IsTree, Above
    <2> QED
        BY <2>6, <2>7, <2>8 DEF FramesApart, at, Tables
<1> QED
    BY <1>1, InductiveInvariant, PTL

\* invlpg in map_virtual: between calls the processor holds no translation that is not in
\* the tables.
THEOREM TlbFollows == Spec => []TlbFollowsTables
<1>1. IInv => TlbFollowsTables
    BY DEF IInv, TlbTracks, TlbFollowsTables
<1> QED
    BY <1>1, InductiveInvariant, PTL

\* map_virtual is one step to its callers: the step that writes the last entry.
THEOREM Implementation == Spec => ImplementsAddressSpace
<1> DEFINE space == [v \in VirtPage |-> Translate(v)]
<1>1. Init => Space!Init
    <2> SUFFICES ASSUME Init
                 PROVE  space = [v \in VirtPage |-> None]
        BY DEF Space!Init
    <2>1. \A v \in VirtPage : Translate(v) = None
        BY InitWalks
    <2> QED
        BY <2>1
<1>2. IInv /\ [Next]_vars => [Space!Next]_space
    <2> SUFFICES ASSUME IInv, [Next]_vars
                 PROVE  Space!Next \/ UNCHANGED space
        OBVIOUS
    <2>1. CASE WriteEntry
        <3> DEFINE x == [frame |-> phys, flags |-> EntryFlags(flags)]
        <3>1. /\ virt \in VirtPage /\ phys \in Frame /\ flags \in Requests
              /\ TranslateIn(entry', virt) = x
              /\ \A v \in VirtPage \ {virt} : TranslateIn(entry', v) = TranslateIn(entry, v)
            <4>1. virt' = virt
                BY <2>1 DEF WriteEntry, walk
            <4> QED
                BY <2>1, <4>1, WriteEntryStep DEF Translate
        <3>2. space' = [v \in VirtPage |-> TranslateIn(entry', v)]
            BY DEF Translate
        <3>3. space = [v \in VirtPage |-> TranslateIn(entry, v)]
            BY DEF Translate
        <3>4. x \in [frame : Frame, flags : {EntryFlags(f) : f \in Requests}]
            BY <3>1
        <3> HIDE DEF x
        <3>5. space'[virt] = x
            BY <3>1, <3>2
        <3>6. space' = [space EXCEPT ![virt] = x]
            BY <3>1, <3>2, <3>3
        <3> HIDE DEF space
        <3>7. Space!Map(virt)
            BY <3>4, <3>5, <3>6 DEF Space!Map, space
        <3> QED
            BY <3>1, <3>7 DEF Space!Next
    <2>2. CASE \E t \in Frame : AddTable(t)
        <3>1. \A v \in VirtPage : Translate(v)' = Translate(v)
            BY <2>2, AddTableStep
        <3> QED
            BY <3>1
    <2>3. CASE entry' = entry
        BY <2>3 DEF Translate
    <2>4. \/ WriteEntry \/ \E t \in Frame : AddTable(t)
          \/ entry' = entry
        BY DEF Next, Step, Descend, AddTableFails, Flush, TakePage, CallMap, Cache, vars
    <2> QED
        BY <2>1, <2>2, <2>3, <2>4
<1> QED
    BY <1>1, <1>2, InductiveInvariant, PTL DEF Spec, ImplementsAddressSpace, Space!Spec

==============================================================================
