----------------------- MODULE FreeListAllocatorProofs -----------------------
(***************************************************************************)
(* Safety of FreeListAllocator for every memory map, and every slide under *)
(* which free reaches no memory but its own.                               *)
(*                                                                         *)
(* The first part is about singly linked lists in general: a list is a     *)
(* chain, an injective sequence of addresses that the links follow.  The   *)
(* chain gives what surgery does to the set of blocks that the list holds, *)
(* and that Blocks is this set.                                            *)
(***************************************************************************)
EXTENDS FreeListAllocator, NumberTheorems, FiniteSetTheorems, TLAPS

\* The links nx lead from h through the n addresses of s, one after the other, to Null.
Chain(n, s, h, nx, B) ==
    /\ \A v \in B : \E i \in 1 .. n : s[i] = v
    /\ \A i, j \in 1 .. n : s[i] = s[j] => i = j
    /\ h = IF n = 0 THEN Null ELSE s[1]
    /\ \A i \in 1 .. n : nx[s[i]] = IF i = n THEN Null ELSE s[i + 1]

\* A list from h on that holds the blocks B.
IsList(h, nx, B) == \E n \in Nat : \E s \in [1 .. n -> B] : Chain(n, s, h, nx, B)

\* No two links lead to the same block, and none to the first one or to itself.
LEMMA Links ==
    ASSUME NEW h, NEW nx, NEW B, IsList(h, nx, B), Null \notin B
    PROVE  /\ h \in B \cup {Null} /\ (h = Null <=> B = {})
           /\ \A v \in B : nx[v] \in B \cup {Null} /\ nx[v] # v /\ nx[v] # h
           /\ \A v, w \in B : nx[v] = nx[w] /\ nx[v] # Null => v = w
           /\ \A v \in B : v = h \/ \E w \in B : nx[w] = v
<1>0. PICK n \in Nat : \E s \in [1 .. n -> B] : Chain(n, s, h, nx, B)
    BY DEF IsList
<1>1. PICK s \in [1 .. n -> B] : Chain(n, s, h, nx, B)
    BY <1>0
<1>2. /\ \A v \in B : \E i \in 1 .. n : s[i] = v
      /\ \A i, j \in 1 .. n : s[i] = s[j] => i = j
      /\ h = IF n = 0 THEN Null ELSE s[1]
      /\ \A i \in 1 .. n : nx[s[i]] = IF i = n THEN Null ELSE s[i + 1]
      /\ \A i \in 1 .. n : s[i] \in B
    BY <1>1 DEF Chain
<1>3. n # 0 => 1 \in 1 .. n
    OBVIOUS
<1>4. \A i \in 1 .. n : i # n => i + 1 \in 1 .. n /\ i + 1 # i /\ i + 1 # 1
    OBVIOUS
<1>5. h \in B \cup {Null} /\ (h = Null <=> B = {})
    <2>1. CASE n = 0
        BY <1>2, <2>1
    <2>2. CASE n # 0
        BY <1>2, <1>3, <2>2
    <2> QED
        BY <2>1, <2>2
<1>6. \A v \in B : nx[v] \in B \cup {Null} /\ nx[v] # v /\ nx[v] # h
    <2> TAKE v \in B
    <2>1. PICK i \in 1 .. n : s[i] = v
        BY <1>2
    <2>2. CASE i = n
        BY <1>2, <1>3, <2>1, <2>2
    <2>3. CASE i # n
        BY <1>2, <1>3, <1>4, <2>1, <2>3
    <2> QED
        BY <2>2, <2>3
<1>7. \A v, w \in B : nx[v] = nx[w] /\ nx[v] # Null => v = w
    <2> TAKE v \in B, w \in B
    <2>1. PICK i \in 1 .. n : s[i] = v
        BY <1>2
    <2>2. PICK j \in 1 .. n : s[j] = w
        BY <1>2
    <2>3. SUFFICES ASSUME nx[v] = nx[w], nx[v] # Null PROVE v = w
        OBVIOUS
    <2>4. i # n /\ j # n /\ s[i + 1] = s[j + 1]
        BY <1>2, <2>1, <2>2, <2>3
    <2>5. i + 1 = j + 1
        BY <1>2, <1>4, <2>4
    <2>6. i = j
        BY <2>5
    <2> QED
        BY <2>1, <2>2, <2>6
<1>8. \A v \in B : v = h \/ \E w \in B : nx[w] = v
    <2> TAKE v \in B
    <2>1. PICK i \in 1 .. n : s[i] = v
        BY <1>2
    <2>2. CASE i = 1
        BY <1>2, <2>1, <2>2
    <2>3. CASE i # 1
        <3>1. PICK j \in 1 .. n : j # n /\ j + 1 = i
            <4>1. i - 1 \in 1 .. n /\ i - 1 # n /\ (i - 1) + 1 = i
                BY <2>3
            <4> QED
                BY <4>1
        <3>2. s[j] \in B /\ nx[s[j]] = s[j + 1]
            BY <1>2, <3>1
        <3> QED
            BY <2>1, <3>1, <3>2
    <2> QED
        BY <2>2, <2>3
<1> QED
    BY <1>5, <1>6, <1>7, <1>8

\* The empty list.
LEMMA EmptyList == ASSUME NEW nx PROVE IsList(Null, nx, {})
<1> DEFINE s == [i \in 1 .. 0 |-> Null]
<1>1. s \in [1 .. 0 -> {}] /\ Chain(0, s, Null, nx, {})
    BY DEF Chain
<1> QED
    BY <1>1 DEF IsList

\* A block is put in front.
LEMMA PushOnList ==
    ASSUME NEW h, NEW nx, NEW B, IsList(h, nx, B), NEW v, v \notin B, NEW nx2,
           nx2[v] = h, \A w \in B : nx2[w] = nx[w]
    PROVE  IsList(v, nx2, B \cup {v})
<1>0. PICK n \in Nat : \E s \in [1 .. n -> B] : Chain(n, s, h, nx, B)
    BY DEF IsList
<1>1. PICK s \in [1 .. n -> B] : Chain(n, s, h, nx, B)
    BY <1>0
<1>2. /\ \A w \in B : \E i \in 1 .. n : s[i] = w
      /\ \A i, j \in 1 .. n : s[i] = s[j] => i = j
      /\ h = IF n = 0 THEN Null ELSE s[1]
      /\ \A i \in 1 .. n : nx[s[i]] = IF i = n THEN Null ELSE s[i + 1]
      /\ \A i \in 1 .. n : s[i] \in B
    BY <1>1 DEF Chain
<1> DEFINE m == n + 1
           t == [i \in 1 .. m |-> IF i = 1 THEN v ELSE s[i - 1]]
<1>3. \A i \in 1 .. m : i # 1 => i - 1 \in 1 .. n /\ (i - 1) + 1 = i /\ (i = m <=> i - 1 = n)
    OBVIOUS
<1>4. \A i \in 1 .. n : i + 1 \in 1 .. m /\ i + 1 # 1 /\ (i + 1) - 1 = i
    OBVIOUS
<1>5. m \in Nat /\ m # 0 /\ 1 \in 1 .. m /\ (m = 1 <=> n = 0)
    OBVIOUS
<1>6. /\ \A i \in 1 .. m : t[i] = IF i = 1 THEN v ELSE s[i - 1]
      /\ t \in [1 .. m -> B \cup {v}]
    BY <1>2, <1>3
<1>7. \A i \in 1 .. m : i # m => i + 1 \in 1 .. m /\ i + 1 # 1 /\ (i + 1) - 1 = i
    OBVIOUS
<1> HIDE DEF m, t
<1>8. \A w \in B \cup {v} : \E i \in 1 .. m : t[i] = w
    <2> TAKE w \in B \cup {v}
    <2>1. CASE w = v
        BY <1>5, <1>6, <2>1
    <2>2. CASE w \in B
        <3>1. PICK i \in 1 .. n : s[i] = w
            BY <1>2, <2>2
        <3>2. PICK j : j = i + 1
            OBVIOUS
        <3>3. j \in 1 .. m /\ j # 1 /\ j - 1 = i
            BY ONLY <1>4, <3>2
        <3>4. t[j] = s[i]
            BY ONLY <1>6, <3>3
        <3> QED
            BY ONLY <3>1, <3>3, <3>4
    <2> QED
        BY <2>1, <2>2
<1>9. \A i, j \in 1 .. m : t[i] = t[j] => i = j
    <2> TAKE i \in 1 .. m, j \in 1 .. m
    <2>1. CASE i = 1 \/ j = 1
        BY <1>2, <1>3, <1>6, <2>1
    <2>2. CASE i # 1 /\ j # 1
        <3>1. SUFFICES ASSUME t[i] = t[j] PROVE i = j
            OBVIOUS
        <3>2. i - 1 = j - 1
            BY <1>2, <1>3, <1>6, <2>2, <3>1
        <3> QED
            BY <1>3, <2>2, <3>2
    <2> QED
        BY <2>1, <2>2
<1>10. v = IF m = 0 THEN Null ELSE t[1]
    BY <1>5, <1>6
<1>11. \A i \in 1 .. m : nx2[t[i]] = IF i = m THEN Null ELSE t[i + 1]
    <2> TAKE i \in 1 .. m
    <2>1. CASE i = 1
        BY <1>2, <1>5, <1>6, <1>7, <2>1
    <2>2. CASE i # 1
        <3>1. nx2[t[i]] = nx[s[i - 1]] /\ nx[s[i - 1]] = IF i = m THEN Null ELSE s[i]
            BY <1>2, <1>3, <1>6, <2>2
        <3> QED
            BY <1>6, <1>7, <3>1
    <2> QED
        BY <2>1, <2>2
<1>12. Chain(m, t, v, nx2, B \cup {v})
    BY <1>8, <1>9, <1>10, <1>11 DEF Chain
<1> QED
    BY <1>5, <1>6, <1>12 DEF IsList

\* A block takes the place of another one.
LEMMA ReplaceOnList ==
    ASSUME NEW h, NEW nx, NEW B, IsList(h, nx, B), NEW c \in B, NEW v, v \notin B,
           Null \notin B, NEW h2, h2 = (IF h = c THEN v ELSE h), NEW nx2, nx2[v] = nx[c],
           \A w \in B \ {c} : nx2[w] = IF nx[w] = c THEN v ELSE nx[w]
    PROVE  IsList(h2, nx2, (B \ {c}) \cup {v})
<1>0. PICK n \in Nat : \E s \in [1 .. n -> B] : Chain(n, s, h, nx, B)
    BY DEF IsList
<1>1. PICK s \in [1 .. n -> B] : Chain(n, s, h, nx, B)
    BY <1>0
<1>2. /\ \A w \in B : \E i \in 1 .. n : s[i] = w
      /\ \A i, j \in 1 .. n : s[i] = s[j] => i = j
      /\ h = IF n = 0 THEN Null ELSE s[1]
      /\ \A i \in 1 .. n : nx[s[i]] = IF i = n THEN Null ELSE s[i + 1]
      /\ \A i \in 1 .. n : s[i] \in B
    BY <1>1 DEF Chain
<1>3. PICK k \in 1 .. n : s[k] = c
    BY <1>2
<1> DEFINE C == (B \ {c}) \cup {v}
           t == [i \in 1 .. n |-> IF i = k THEN v ELSE s[i]]
<1>4. \A i \in 1 .. n : i # k => s[i] \in B \ {c}
    BY <1>2, <1>3
<1>5. t \in [1 .. n -> C] /\ \A i \in 1 .. n : t[i] = IF i = k THEN v ELSE s[i]
    BY <1>4
<1>6. \A i \in 1 .. n : i # n => i + 1 \in 1 .. n
    OBVIOUS
<1>7. n # 0 /\ 1 \in 1 .. n
    BY <1>3
<1> HIDE DEF t
<1>8. \A w \in C : \E i \in 1 .. n : t[i] = w
    BY <1>2, <1>3, <1>5
<1>9. \A i, j \in 1 .. n : t[i] = t[j] => i = j
    BY <1>2, <1>3, <1>4, <1>5
<1>10. h2 = t[1]
    BY <1>2, <1>3, <1>5, <1>7
<1>11. \A i \in 1 .. n : nx2[t[i]] = IF i = n THEN Null ELSE t[i + 1]
    <2> TAKE i \in 1 .. n
    <2>1. CASE i = k
        BY <1>2, <1>3, <1>5, <1>6, <2>1
    <2>2. CASE i # k
        <3>1. t[i] = s[i] /\ s[i] \in B \ {c}
            BY <1>4, <1>5, <2>2
        <3>2. nx2[s[i]] = IF nx[s[i]] = c THEN v ELSE nx[s[i]]
            BY <3>1
        <3>3. CASE i = n
            BY <1>2, <3>1, <3>2, <3>3
        <3>4. CASE i # n
            <4>1. nx[s[i]] = s[i + 1] /\ i + 1 \in 1 .. n
                BY <1>2, <1>6, <3>4
            <4>2. s[i + 1] = c <=> i + 1 = k
                BY <1>2, <1>3, <4>1
            <4> QED
                BY <1>5, <3>1, <3>2, <3>4, <4>1, <4>2
        <3> QED
            BY <3>3, <3>4
    <2> QED
        BY <2>1, <2>2
<1>12. Chain(n, t, h2, nx2, C)
    BY <1>7, <1>8, <1>9, <1>10, <1>11 DEF Chain
<1> QED
    BY <1>5, <1>12 DEF IsList

\* A block is taken off.
LEMMA UnlinkFromList ==
    ASSUME NEW h, NEW nx, NEW B, IsList(h, nx, B), NEW c \in B, Null \notin B,
           NEW h2, h2 = (IF h = c THEN nx[c] ELSE h), NEW nx2,
           \A w \in B \ {c} : nx2[w] = IF nx[w] = c THEN nx[c] ELSE nx[w]
    PROVE  IsList(h2, nx2, B \ {c})
<1>0. PICK n \in Nat : \E s \in [1 .. n -> B] : Chain(n, s, h, nx, B)
    BY DEF IsList
<1>1. PICK s \in [1 .. n -> B] : Chain(n, s, h, nx, B)
    BY <1>0
<1>2. /\ \A w \in B : \E i \in 1 .. n : s[i] = w
      /\ \A i, j \in 1 .. n : s[i] = s[j] => i = j
      /\ h = IF n = 0 THEN Null ELSE s[1]
      /\ \A i \in 1 .. n : nx[s[i]] = IF i = n THEN Null ELSE s[i + 1]
      /\ \A i \in 1 .. n : s[i] \in B
    BY <1>1 DEF Chain
<1>3. PICK k \in 1 .. n : s[k] = c
    BY <1>2
<1> DEFINE C == B \ {c}
           m == n - 1
           t == [i \in 1 .. m |-> IF i < k THEN s[i] ELSE s[i + 1]]
<1>4. \A i \in 1 .. n : i # k => s[i] \in C
    BY <1>2, <1>3
<1>5. m \in Nat /\ n # 0 /\ 1 \in 1 .. n /\ (m # 0 => 1 \in 1 .. m)
    BY <1>3
<1>6. \A i \in 1 .. m : i \in 1 .. n /\ i + 1 \in 1 .. n /\ i # n /\ i \in Nat /\ (~ (i < k) => i + 1 # k)
    BY <1>3
<1>7. \A i \in 1 .. m : t[i] = IF i < k THEN s[i] ELSE s[i + 1]
    OBVIOUS
<1>8. t \in [1 .. m -> C]
    BY <1>4, <1>6
<1>9. \A i \in 1 .. n : i # k => \/ i < k /\ i \in 1 .. m
                                 \/ ~ (i - 1 < k) /\ i - 1 \in 1 .. m /\ (i - 1) + 1 = i
    BY <1>3
<1>10. \A i \in 1 .. m : (i = m \/ i + 1 \in 1 .. m) /\ (i # m => i + 1 # n /\ i + 2 \in 1 .. n /\ (i + 1) + 1 = i + 2)
    OBVIOUS
<1>11. m + 1 = n /\ (~ (m < k) <=> k # n) /\ k \in Nat /\ \A i \in 1 .. m : i + 1 < k <=> i < k /\ i + 1 # k
    BY <1>3
<1>12. \A w \in C : \E i \in 1 .. m : t[i] = w
    <2> TAKE w \in C
    <2>1. PICK i \in 1 .. n : s[i] = w /\ i # k
        BY <1>2, <1>3
    <2>2. CASE i < k /\ i \in 1 .. m
        BY <1>7, <2>1, <2>2
    <2>3. CASE ~ (i - 1 < k) /\ i - 1 \in 1 .. m /\ (i - 1) + 1 = i
        BY <1>7, <2>1, <2>3
    <2> QED
        BY <1>9, <2>1, <2>2, <2>3
<1> HIDE DEF t
<1>13. \A i, j \in 1 .. m : t[i] = t[j] => i = j
    <2> SUFFICES ASSUME NEW i \in 1 .. m, NEW j \in 1 .. m, t[i] = t[j] PROVE i = j
        OBVIOUS
    <2>1. CASE i < k /\ j < k
        BY <1>2, <1>6, <1>7, <2>1
    <2>2. CASE i < k /\ ~ (j < k)
        <3>0. t[i] = s[i] /\ t[j] = s[j + 1] /\ i \in 1 .. n /\ j + 1 \in 1 .. n
            BY <1>6, <1>7, <2>2
        <3>1. i = j + 1
            BY <1>2, <3>0
        <3> QED
            BY <1>3, <2>2, <3>1
    <2>3. CASE ~ (i < k) /\ j < k
        <3>0. t[i] = s[i + 1] /\ t[j] = s[j] /\ i + 1 \in 1 .. n /\ j \in 1 .. n
            BY <1>6, <1>7, <2>3
        <3>1. i + 1 = j
            BY <1>2, <3>0
        <3> QED
            BY <1>3, <2>3, <3>1
    <2>4. CASE ~ (i < k) /\ ~ (j < k)
        <3>0. t[i] = s[i + 1] /\ t[j] = s[j + 1] /\ i + 1 \in 1 .. n /\ j + 1 \in 1 .. n
            BY <1>6, <1>7, <2>4
        <3>1. i + 1 = j + 1
            BY <1>2, <3>0
        <3> QED
            BY <3>1
    <2> QED
        BY <2>1, <2>2, <2>3, <2>4
<1>14. h2 = IF m = 0 THEN Null ELSE t[1]
    <2>1. CASE k = 1
        <3>1. h = c /\ h2 = nx[c]
            BY <1>2, <1>3, <1>5, <2>1
        <3>2. nx[c] = IF n = 1 THEN Null ELSE s[2]
            BY <1>2, <1>3, <2>1
        <3>3. m # 0 => t[1] = s[2]
            BY <1>5, <1>7, <2>1
        <3> QED
            BY <1>11, <1>5, <3>1, <3>2, <3>3
    <2>2. CASE k # 1
        <3>1. m # 0 /\ 1 < k
            BY <1>3, <2>2
        <3>2. h = s[1] /\ s[1] # c
            BY <1>2, <1>3, <1>5, <2>2
        <3> QED
            BY <1>5, <1>7, <3>1, <3>2
    <2> QED
        BY <2>1, <2>2
<1>15. \A i \in 1 .. m : nx2[t[i]] = IF i = m THEN Null ELSE t[i + 1]
    <2> TAKE i \in 1 .. m
    <2>1. CASE i < k /\ i + 1 = k
        <3>1. t[i] = s[i] /\ s[i] \in C /\ nx[s[i]] = c
            BY <1>2, <1>3, <1>4, <1>6, <1>7, <2>1
        <3>2. nx2[t[i]] = nx[c]
            BY <3>1
        <3>3. nx[c] = IF k = n THEN Null ELSE s[k + 1]
            BY <1>2, <1>3
        <3>4. i = m <=> k = n
            BY <1>11, <2>1
        <3>5. i # m => t[i + 1] = s[k + 1]
            BY <1>7, <1>10, <2>1
        <3> QED
            BY <3>2, <3>3, <3>4, <3>5
    <2>2. CASE i < k /\ i + 1 # k
        <3>1. t[i] = s[i] /\ s[i] \in C /\ nx[s[i]] = s[i + 1] /\ s[i + 1] # c
            BY <1>2, <1>3, <1>4, <1>6, <1>7, <2>2
        <3>2. nx2[t[i]] = s[i + 1]
            BY <3>1
        <3>3. i # m /\ i + 1 \in 1 .. m /\ i + 1 < k
            BY <1>3, <2>2
        <3> QED
            BY <1>7, <3>2, <3>3
    <2>3. CASE ~ (i < k)
        <3>1. t[i] = s[i + 1] /\ s[i + 1] \in C
            BY <1>4, <1>6, <1>7, <2>3
        <3>2. nx[s[i + 1]] = IF i + 1 = n THEN Null ELSE s[(i + 1) + 1]
            BY <1>2, <1>6
        <3>3. i + 1 = n <=> i = m
            OBVIOUS
        <3>4. CASE i = m
            BY <1>4, <3>1, <3>2, <3>3, <3>4
        <3>5. CASE i # m
            <4>1. nx[s[i + 1]] = s[i + 2] /\ i + 2 \in 1 .. n /\ i + 2 # k
                BY <1>3, <1>10, <2>3, <3>2, <3>5
            <4>2. nx2[t[i]] = s[i + 2]
                BY <1>2, <1>3, <3>1, <4>1
            <4>3. i + 1 \in 1 .. m /\ ~ (i + 1 < k) /\ (i + 1) + 1 = i + 2
                BY <1>3, <1>10, <2>3, <3>5
            <4> QED
                BY <1>7, <3>5, <4>2, <4>3
        <3> QED
            BY <3>4, <3>5
    <2> QED
        BY <2>1, <2>2, <2>3
<1>16. Chain(m, t, h2, nx2, C)
    BY <1>12, <1>13, <1>14, <1>15 DEF Chain
<1> QED
    BY <1>5, <1>8, <1>16 DEF IsList

-----------------------------------------------------------------------------
(* Blocks is the set of the blocks on the list. *)

\* What Near is, of any first block and any links.
IsNear(f, h, nx) ==
    f = [n \in Nat |->
            IF n = 0 THEN {h} \ {Null} ELSE f[n - 1] \cup ({nx[v] : v \in f[n - 1]} \ {Null})]

LEMMA MappedIsFinite == IsFiniteSet(Mapped)
<1>1. Mapped \subseteq 0 .. VirtPages - 1
    <2>1. \A p \in PhysPages : p \in Int
        BY EntriesAssumption DEF EntriesAssumption, PhysPages, EntryPages, PagesOf
    <2>2. \A x \in Int : x % VirtPages \in 0 .. VirtPages - 1
        BY AddressesAssumption DEF AddressesAssumption
    <2>3. \A p \in PhysPages : Slide + p \in Int
        BY <2>1, AddressesAssumption DEF AddressesAssumption
    <2> QED
        BY <2>2, <2>3 DEF Mapped, ToVirt
<1>2. IsFiniteSet(0 .. VirtPages - 1)
    BY FS_Interval, AddressesAssumption DEF AddressesAssumption
<1> QED
    BY <1>1, <1>2, FS_Subset

\* A list in mapped memory is no longer than that is large: following so many links
\* from its head finds all of it.
LEMMA NearHoldsList ==
    ASSUME NEW h, NEW nx, NEW B \in SUBSET Mapped, IsList(h, nx, B), NEW f, IsNear(f, h, nx)
    PROVE  f[Cardinality(Mapped)] = B
<1>0. PICK n \in Nat : \E s \in [1 .. n -> B] : Chain(n, s, h, nx, B)
    BY DEF IsList
<1>1. PICK s \in [1 .. n -> B] : Chain(n, s, h, nx, B)
    BY <1>0
<1>2. /\ \A w \in B : \E i \in 1 .. n : s[i] = w
      /\ \A i, j \in 1 .. n : s[i] = s[j] => i = j
      /\ h = IF n = 0 THEN Null ELSE s[1]
      /\ \A i \in 1 .. n : nx[s[i]] = IF i = n THEN Null ELSE s[i + 1]
      /\ \A i \in 1 .. n : s[i] \in B
    BY <1>1 DEF Chain
<1>3. Null \notin B
    BY AddressesAssumption DEF AddressesAssumption
<1>4. /\ f[0] = {h} \ {Null}
      /\ \A k \in Nat : f[k + 1] = f[k] \cup ({nx[v] : v \in f[k]} \ {Null})
    <2>1. \A k \in Nat : f[k] = IF k = 0 THEN {h} \ {Null}
                                ELSE f[k - 1] \cup ({nx[v] : v \in f[k - 1]} \ {Null})
        BY DEF IsNear
    <2>2. \A k \in Nat : k + 1 \in Nat /\ k + 1 # 0 /\ (k + 1) - 1 = k
        OBVIOUS
    <2>3. f[0] = {h} \ {Null}
        BY <2>1
    <2>4. ASSUME NEW k \in Nat
          PROVE  f[k + 1] = f[k] \cup ({nx[v] : v \in f[k]} \ {Null})
        <3>1. PICK l \in Nat : l = k + 1 /\ l # 0 /\ l - 1 = k
            BY <2>2
        <3>2. f[l] = f[l - 1] \cup ({nx[v] : v \in f[l - 1]} \ {Null})
            BY <2>1, <3>1
        <3> QED
            BY <3>1, <3>2
    <2> QED
        BY <2>3, <2>4
<1> DEFINE First(k) == {s[i] : i \in {j \in 1 .. n : j <= k + 1}}
           S == {k \in Nat : f[k] = First(k)}
<1>5. 0 \in S
    <2>1. CASE n = 0
        <3>1. First(0) = {}
            BY <2>1
        <3> QED
            BY <1>2, <1>4, <2>1, <3>1
    <2>2. CASE n # 0
        <3>1. {j \in 1 .. n : j <= 0 + 1} = {1}
            BY <2>2
        <3>2. First(0) = {s[1]}
            BY <3>1
        <3>3. s[1] # Null
            BY <1>2, <1>3, <2>2
        <3> QED
            BY <1>2, <1>4, <2>2, <3>2, <3>3
    <2> QED
        BY <2>1, <2>2
<1>6. ASSUME NEW k \in Nat, k \in S PROVE k + 1 \in S
    <2>1. \A j \in 1 .. n : j <= (k + 1) + 1 <=> j <= k + 1 \/ j = (k + 1) + 1
        OBVIOUS
    <2>2. \A v \in f[k + 1] : v \in First(k + 1)
        <3> TAKE v \in f[k + 1]
        <3>1. CASE v \in f[k]
            BY <1>6, <2>1, <3>1
        <3>2. CASE v \notin f[k]
            <4>1. PICK u \in f[k] : v = nx[u] /\ v # Null
                BY <1>4, <3>2
            <4>2. PICK i \in 1 .. n : s[i] = u /\ i <= k + 1
                BY <1>6, <4>1
            <4>3. i # n /\ v = s[i + 1]
                BY <1>2, <4>1, <4>2
            <4>4. i + 1 \in 1 .. n /\ i + 1 <= (k + 1) + 1
                BY <4>2, <4>3
            <4> QED
                BY <4>3, <4>4
        <3> QED
            BY <3>1, <3>2
    <2>3. \A v \in First(k + 1) : v \in f[k + 1]
        <3> TAKE v \in First(k + 1)
        <3>1. PICK i \in 1 .. n : v = s[i] /\ i <= (k + 1) + 1
            OBVIOUS
        <3>2. CASE i <= k + 1
            BY <1>4, <1>6, <3>1, <3>2
        <3>3. CASE i = (k + 1) + 1
            <4>1. PICK j \in 1 .. n : j + 1 = i /\ j # n /\ j <= k + 1
                <5>1. i - 1 \in 1 .. n /\ (i - 1) + 1 = i /\ i - 1 # n /\ i - 1 <= k + 1
                    BY <3>3
                <5> QED
                    BY <5>1
            <4>2. s[j] \in f[k] /\ nx[s[j]] = v /\ v # Null
                BY <1>2, <1>3, <1>6, <3>1, <4>1
            <4> QED
                BY <1>4, <4>2
        <3> QED
            BY <2>1, <3>1, <3>2, <3>3
    <2>4. f[k + 1] = First(k + 1)
        BY <2>2, <2>3
    <2> QED
        BY <2>4
<1>7. \A k \in Nat : k \in S
    <2> HIDE DEF S
    <2> QED
        BY <1>5, <1>6, NumberInduction
<1>8. n <= Cardinality(Mapped) /\ Cardinality(Mapped) \in Nat
    <2>1. IsFiniteSet(B) /\ Cardinality(B) <= Cardinality(Mapped)
        BY MappedIsFinite, FS_Subset
    <2>2. Cardinality(B) \in Nat /\ Cardinality(Mapped) \in Nat
        BY <2>1, MappedIsFinite, FS_CardinalityType
    <2>3. IsFiniteSet(1 .. n) /\ Cardinality(1 .. n) = n
        BY FS_Interval
    <2>4. ~ (Cardinality(B) < Cardinality(1 .. n))
        BY <1>2, <2>1, <2>3, FS_PigeonHole
    <2> QED
        BY <2>1, <2>2, <2>3, <2>4
<1>9. First(Cardinality(Mapped)) = B
    <2>1. \A j \in 1 .. n : j <= Cardinality(Mapped) + 1
        BY <1>8
    <2> QED
        BY <1>2, <2>1
<1> QED
    BY <1>7, <1>8, <1>9

LEMMA NearExists ==
    ASSUME NEW h \in Mapped \cup {Null}, NEW nx \in [Mapped -> Mapped \cup {Null}]
    PROVE  \E f : IsNear(f, h, nx)
<1> DEFINE X == SUBSET Mapped
           x0 == {h} \ {Null}
           step == [n \in Nat |-> [A \in X |-> A \cup ({nx[v] : v \in A} \ {Null})]]
<1>1. x0 \in X /\ \A A \in X : A \cup ({nx[v] : v \in A} \ {Null}) \in X
    OBVIOUS
<1>2. step \in [Nat -> [X -> X]]
    BY <1>1
<1>3. \A n \in Nat : \A A \in X : step[n][A] = A \cup ({nx[v] : v \in A} \ {Null})
    OBVIOUS
<1> HIDE DEF X, x0, step
<1>4. PICK f : IsRecursion(f, X, x0, step)
    BY <1>1, <1>2, Recursion
<1>5. /\ f \in [Nat -> X] /\ f[0] = x0
      /\ \A n \in Nat : f[n + 1] = f[n] \cup ({nx[v] : v \in f[n]} \ {Null})
    BY <1>3, <1>4 DEF IsRecursion
<1>6. ASSUME NEW n \in Nat
      PROVE  f[n] = IF n = 0 THEN {h} \ {Null}
                    ELSE f[n - 1] \cup ({nx[v] : v \in f[n - 1]} \ {Null})
    <2>1. CASE n = 0
        BY <1>5, <2>1 DEF x0
    <2>2. CASE n # 0
        <3>1. n - 1 \in Nat /\ (n - 1) + 1 = n
            BY <2>2
        <3> QED
            BY <1>5, <2>2, <3>1
    <2> QED
        BY <2>1, <2>2
<1>7. f = [n \in Nat |-> f[n]]
    BY <1>5
<1>8. IsNear(f, h, nx)
    BY <1>6, <1>7, Zenon DEF IsNear
<1> QED
    BY <1>8

\* Blocks before and after a step.
LEMMA BlocksAre ==
    ASSUME next \in [Mapped -> Mapped \cup {Null}], m_head \in Mapped \cup {Null},
           NEW B \in SUBSET Mapped, IsList(m_head, next, B)
    PROVE  Blocks = B
<1>1. Near = CHOOSE f : IsNear(f, m_head, next)
    BY Zenon DEF Near, IsNear
<1>2. IsNear(Near, m_head, next)
    BY <1>1, NearExists
<1> QED
    BY <1>2, NearHoldsList DEF Blocks

LEMMA BlocksWillBe ==
    ASSUME next' \in [Mapped -> Mapped \cup {Null}], m_head' \in Mapped \cup {Null},
           NEW B \in SUBSET Mapped, IsList(m_head', next', B)
    PROVE  Blocks' = B
<1>1. Near' = CHOOSE f : IsNear(f, m_head', next')
    BY Zenon DEF Near, IsNear
<1>2. IsNear(Near', m_head', next')
    BY <1>1, NearExists
<1> QED
    BY <1>2, NearHoldsList DEF Blocks

-----------------------------------------------------------------------------
(* Addresses. *)

LEMMA EntriesAre ==
    /\ Len(Entries) \in Nat /\ DOMAIN Entries = 1 .. Len(Entries)
    /\ \A i \in DOMAIN Entries :
        /\ Entries[i].base \in Nat /\ Entries[i].length \in Nat /\ Entries[i].length > 0
        /\ EntryPages(Entries[i]) \subseteq PhysPages
        /\ Entries[i].base \in EntryPages(Entries[i])
        /\ Entries[i].usable => EntryPages(Entries[i]) \subseteq UsablePages
    /\ UsablePages \subseteq PhysPages /\ PhysPages \subseteq Nat
<1>1. /\ Len(Entries) \in Nat /\ DOMAIN Entries = 1 .. Len(Entries)
      /\ \A i \in DOMAIN Entries : Entries[i] \in [base : Nat, length : Nat \ {0}, usable : BOOLEAN]
    <2>1. PICK S : S = [base : Nat, length : Nat \ {0}, usable : BOOLEAN]
        OBVIOUS
    <2>2. Entries \in Seq(S)
        BY <2>1, EntriesAssumption DEF EntriesAssumption
    <2>3. Len(Entries) \in Nat /\ DOMAIN Entries = 1 .. Len(Entries)
          /\ \A i \in DOMAIN Entries : Entries[i] \in S
        BY <2>2
    <2> QED
        BY <2>1, <2>3
<1>2. \A i \in DOMAIN Entries : Entries[i].base \in Nat /\ Entries[i].length \in Nat \ {0}
    BY <1>1
<1>3. \A i \in DOMAIN Entries : Entries[i].base \in EntryPages(Entries[i])
                                /\ EntryPages(Entries[i]) \subseteq Nat
    BY <1>2 DEF EntryPages, PagesOf
<1> QED
    BY <1>1, <1>2, <1>3 DEF PhysPages, UsablePages

LEMMA SmallResidue ==
    ASSUME NEW d \in Nat \ {0}, NEW x \in Int, 0 <= x, x < d
    PROVE  x % d = x
OBVIOUS

\* The direct map adds the slide, and nothing wraps.
LEMMA DirectMap ==
    /\ \A p \in PhysPages : ToVirt(p) = Slide + p /\ ToVirt(p) \in Mapped
    /\ \A v \in Mapped : /\ v \in Nat /\ v < VirtPages /\ v # Null
                         /\ ToPhys(v) \in PhysPages /\ ToPhys(v) \in Nat /\ v = Slide + ToPhys(v)
    /\ Slide \in Nat /\ VirtPages \in Nat
<1>1. Slide \in Nat /\ VirtPages \in Nat \ {0} /\ Null \notin Mapped
      /\ \A p \in PhysPages : p \in Nat /\ Slide + p < VirtPages
    BY AddressesAssumption, EntriesAre DEF AddressesAssumption
<1>2. \A p \in PhysPages : ToVirt(p) = Slide + p /\ ToVirt(p) \in Mapped
    <2> TAKE p \in PhysPages
    <2>1. Slide + p \in Int /\ 0 <= Slide + p /\ Slide + p < VirtPages
        BY <1>1
    <2> QED
        BY <1>1, <2>1, SmallResidue DEF ToVirt, Mapped
<1>3. ASSUME NEW v \in Mapped
      PROVE  v \in Nat /\ v < VirtPages /\ ToPhys(v) \in PhysPages /\ v = Slide + ToPhys(v)
    <2>1. PICK p \in PhysPages : v = Slide + p
        BY <1>2 DEF Mapped
    <2>2. v - Slide = p /\ p \in Nat /\ v < VirtPages /\ v \in Nat /\ p < VirtPages
        BY <1>1, <2>1
    <2>3. p % VirtPages = p
        BY <1>1, <2>2, SmallResidue
    <2>4. ToPhys(v) = p
        BY <2>2, <2>3 DEF ToPhys
    <2> QED
        BY <2>1, <2>2, <2>4
<1> QED
    BY <1>1, <1>2, <1>3

\* A block that free writes into mapped memory is where the direct map has the page.
LEMMA FreeIsDirect ==
    ASSUME NEW p \in UsablePages, BlockAddress(p) \in Mapped
    PROVE  BlockAddress(p) = ToVirt(p)
<1>1. /\ p \in PhysPages /\ p \in Nat /\ Slide \in Nat /\ VirtPages \in Nat \ {0}
      /\ Slide + p < VirtPages /\ ToVirt(p) = Slide + p
    BY EntriesAre, DirectMap, AddressesAssumption DEF AddressesAssumption
<1>2. (2 * Slide) % VirtPages = 0
    BY FreeAssumption DEF FreeAssumption
<1>3. PICK k \in Nat : 2 * Slide = VirtPages * k
    <2>1. PICK s : s = 2 * Slide
        OBVIOUS
    <2>2. s \in Nat /\ s % VirtPages = 0
        BY <1>1, <1>2, <2>1
    <2>3. s \div VirtPages \in Nat /\ s = VirtPages * (s \div VirtPages) + (s % VirtPages)
        BY <1>1, <2>2, Quotient
    <2>4. s = VirtPages * (s \div VirtPages)
        BY <1>1, <2>2, <2>3
    <2> QED
        BY <2>1, <2>3, <2>4
<1>4. PICK q, r, x : q = -k /\ r = Slide + p /\ x = p - Slide
    OBVIOUS
<1>5. q \in Int /\ r \in 0 .. VirtPages - 1 /\ x \in Int /\ x = VirtPages * q + r
    <2>1. VirtPages * q = - (VirtPages * k)
        BY <1>1, <1>4
    <2> QED
        BY <1>1, <1>3, <1>4, <2>1
<1>6. x % VirtPages = r
    BY <1>1, <1>5, ResidueIs
<1> QED
    BY <1>1, <1>4, <1>6 DEF BlockAddress

-----------------------------------------------------------------------------
(* Accounts: which pages are in use, lost, or in which block. *)

\* The pages A are those of U, of L, and of the extents P[v] of the blocks v of B, and
\* none belongs twice.
Parts(A, U, L, B, P) ==
    /\ A = U \cup L \cup UNION {P[v] : v \in B}
    /\ U \cap L = {}
    /\ \A v \in B : P[v] \cap (U \cup L) = {}
    /\ \A v, w \in B : v = w \/ P[v] \cap P[w] = {}

LEMMA PartsGrow ==
    ASSUME NEW A, NEW U, NEW L, NEW B, NEW P, Parts(A, U, L, B, P),
           NEW E, E \cap A = {}, NEW v, v \notin B, NEW P2, P2[v] = E, \A w \in B : P2[w] = P[w]
    PROVE  Parts(A \cup E, U, L, B \cup {v}, P2)
<1>1. UNION {P2[w] : w \in B \cup {v}} = (UNION {P[w] : w \in B}) \cup E
    OBVIOUS
<1>2. \A w \in B : P[w] \subseteq A
    BY DEF Parts
<1> QED
    BY <1>1, <1>2 DEF Parts

LEMMA PartsReturned ==
    ASSUME NEW A, NEW U, NEW L, NEW B, NEW P, Parts(A, U, L, B, P),
           NEW E \in SUBSET U, NEW v, v \notin B, NEW P2, P2[v] = E, \A w \in B : P2[w] = P[w]
    PROVE  Parts(A, U \ E, L, B \cup {v}, P2)
<1>1. UNION {P2[w] : w \in B \cup {v}} = (UNION {P[w] : w \in B}) \cup E
    OBVIOUS
<1> QED
    BY <1>1 DEF Parts

LEMMA PartsTaken ==
    ASSUME NEW A, NEW U, NEW L, NEW B, NEW P, Parts(A, U, L, B, P), NEW c \in B,
           NEW X, NEW Y, P[c] = X \cup Y, X \cap Y = {},
           NEW P2, \A w \in B \ {c} : P2[w] = P[w]
    PROVE  Parts(A, U \cup X, L \cup Y, B \ {c}, P2)
<1>1. UNION {P[w] : w \in B} = (UNION {P2[w] : w \in B \ {c}}) \cup X \cup Y
    OBVIOUS
<1>2. \A w \in B \ {c} : P[w] \cap (X \cup Y) = {}
    BY DEF Parts
<1> QED
    BY <1>1, <1>2 DEF Parts

LEMMA PartsSplit ==
    ASSUME NEW A, NEW U, NEW L, NEW B, NEW P, Parts(A, U, L, B, P), NEW c \in B,
           NEW X, NEW Y, NEW Z, P[c] = X \cup Y \cup Z,
           X \cap Y = {}, X \cap Z = {}, Y \cap Z = {},
           NEW v, v \notin B, NEW P2, P2[v] = Z, \A w \in B \ {c} : P2[w] = P[w]
    PROVE  Parts(A, U \cup X, L \cup Y, (B \ {c}) \cup {v}, P2)
<1>1. UNION {P[w] : w \in B} = (UNION {P2[w] : w \in (B \ {c}) \cup {v}}) \cup X \cup Y
    OBVIOUS
<1>2. \A w \in B \ {c} : P[w] \cap (X \cup Y \cup Z) = {}
    BY DEF Parts
<1> QED
    BY <1>1, <1>2 DEF Parts

LEMMA PartsMerged ==
    ASSUME NEW A, NEW U, NEW L, NEW B, NEW P, Parts(A, U, L, B, P), NEW c \in B, NEW d \in B \ {c},
           NEW P2, P2[d] = P[d] \cup P[c], \A w \in B \ {c, d} : P2[w] = P[w]
    PROVE  Parts(A, U, L, B \ {c}, P2)
<1>1. UNION {P[w] : w \in B} = UNION {P2[w] : w \in B \ {c}}
    OBVIOUS
<1> QED
    BY <1>1 DEF Parts

-----------------------------------------------------------------------------
(* The inductive invariant. *)

\* The usable pages of the entries before the e-th.
Before(e) == UNION {EntryPages(Entries[i]) : i \in {j \in DOMAIN Entries : Entries[j].usable /\ j < e}}

LEMMA BeforeGrows ==
    /\ Before(1) = {} /\ Before(Len(Entries) + 1) = UsablePages
    /\ \A e \in Nat : Before(e) \subseteq UsablePages
    /\ \A e \in DOMAIN Entries :
        /\ Entries[e].usable =>
            /\ Before(e + 1) = Before(e) \cup EntryPages(Entries[e])
            /\ EntryPages(Entries[e]) \cap Before(e) = {}
        /\ ~Entries[e].usable => Before(e + 1) = Before(e)
<1>1. Len(Entries) \in Nat /\ DOMAIN Entries = 1 .. Len(Entries)
    BY EntriesAre
<1>2. {j \in DOMAIN Entries : Entries[j].usable /\ j < 1} = {}
    BY <1>1
<1>3. {j \in DOMAIN Entries : Entries[j].usable /\ j < Len(Entries) + 1}
        = {j \in DOMAIN Entries : Entries[j].usable}
    BY <1>1
<1>4. \A e \in Nat : Before(e) \subseteq UsablePages
    BY DEF Before, UsablePages
<1>5. \A e \in DOMAIN Entries : \A j \in DOMAIN Entries : j < e + 1 <=> j < e \/ j = e
    BY <1>1
<1>6. ASSUME NEW e \in DOMAIN Entries
      PROVE  {j \in DOMAIN Entries : Entries[j].usable /\ j < e + 1}
                = {j \in DOMAIN Entries : Entries[j].usable /\ j < e}
                    \cup (IF Entries[e].usable THEN {e} ELSE {})
    <2>1. ~ (e < e)
        BY <1>1
    <2> QED
        BY <1>5, <2>1
<1>7. ASSUME NEW e \in DOMAIN Entries, Entries[e].usable
      PROVE  Before(e + 1) = Before(e) \cup EntryPages(Entries[e])
    BY <1>6, <1>7 DEF Before
<1>8. ASSUME NEW e \in DOMAIN Entries, Entries[e].usable
      PROVE  EntryPages(Entries[e]) \cap Before(e) = {}
    <2>1. \A j \in DOMAIN Entries : j < e => j # e
        BY <1>1
    <2>2. \A j \in DOMAIN Entries : j < e => EntryPages(Entries[e]) \cap EntryPages(Entries[j]) = {}
        BY <1>8, <2>1, EntriesAssumption DEF EntriesAssumption
    <2> QED
        BY <2>2 DEF Before
<1>9. ASSUME NEW e \in DOMAIN Entries, ~Entries[e].usable
      PROVE  Before(e + 1) = Before(e)
    BY <1>6, <1>9 DEF Before
<1> QED
    BY <1>2, <1>3, <1>4, <1>7, <1>8, <1>9 DEF Before, UsablePages

Extents == [v \in Mapped |-> BlockPages(v)]

ListOK ==
    /\ Blocks \in SUBSET Mapped /\ IsList(m_head, next, Blocks)
    /\ \A v \in Blocks : size[v] > 0

AccountOK == Parts(Before(entry), used, lost, Blocks, Extents)

CursorsOK ==
    /\ call # "init" => entry = Len(Entries) + 1
    /\ pred # Null => call = "alloc" /\ pred \in Blocks
    /\ call = "coalesce" => a \in Blocks /\ b \in Blocks

IInv == TypeOK /\ ListOK /\ AccountOK /\ CursorsOK /\ ZeroMeansFailure

\* What a step has to show of the list it leaves, with the blocks B.
Leaves(B) ==
    /\ B \in SUBSET Mapped /\ IsList(m_head', next', B)
    /\ \A v \in B : size'[v] > 0
    /\ Parts(Before(entry'), used', lost', B, Extents')

LEMMA LeftIsThere ==
    ASSUME TypeOK', NEW B, Leaves(B)
    PROVE  Blocks' = B /\ ListOK' /\ AccountOK'
<1>1. Blocks' = B
    BY BlocksWillBe DEF TypeOK, Leaves
<1> QED
    BY <1>1 DEF Leaves, ListOK, AccountOK

\* A step that changes no block.
LEMMA SameBlocks ==
    ASSUME IInv, TypeOK', UNCHANGED <<fields, used, lost>>, Before(entry') = Before(entry)
    PROVE  Blocks' = Blocks /\ ListOK' /\ AccountOK'
<1>1. Extents' = Extents
    BY DEF Extents, BlockPages, fields
<1>2. Leaves(Blocks)
    BY <1>1 DEF Leaves, IInv, ListOK, AccountOK, fields
<1> QED
    BY <1>2, LeftIsThere

\* What is known of a block.
LEMMA BlockIs ==
    ASSUME IInv, NEW v \in Blocks
    PROVE  /\ v \in Mapped /\ v # Null /\ v \in Nat /\ v = Slide + ToPhys(v)
           /\ ToPhys(v) \in Nat /\ Slide \in Nat
           /\ size[v] \in Nat /\ size[v] > 0
           /\ ToPhys(v) \in BlockPages(v) /\ BlockPages(v) \subseteq UsablePages
           /\ Extents[v] = BlockPages(v)
           /\ next[v] \in Blocks \cup {Null}
<1>1. v \in Mapped /\ size[v] \in Nat /\ size[v] > 0 /\ Extents[v] = BlockPages(v)
    BY DEF IInv, ListOK, TypeOK, Extents
<1>2. v \in Nat /\ v = Slide + ToPhys(v) /\ ToPhys(v) \in Nat /\ Slide \in Nat /\ v # Null
    BY <1>1, DirectMap
<1>3. ToPhys(v) \in BlockPages(v)
    BY <1>1, <1>2 DEF BlockPages, PagesOf
<1>4. BlockPages(v) \subseteq UsablePages
    <2>1. BlockPages(v) \subseteq Before(entry)
        BY <1>1 DEF IInv, AccountOK, Parts
    <2>2. entry \in Nat
        BY EntriesAre DEF IInv, TypeOK
    <2> QED
        BY <2>1, <2>2, BeforeGrows
<1>5. Null \notin Blocks
    BY DirectMap DEF IInv, ListOK
<1>6. next[v] \in Blocks \cup {Null}
    BY <1>5, Links DEF IInv, ListOK
<1> QED
    BY <1>1, <1>2, <1>3, <1>4, <1>6

\* The block under the cursor of alloc.
LEMMA CursorIs ==
    ASSUME IInv, call = "alloc", cur # Null
    PROVE  cur \in Blocks
<1>1. Null \notin Blocks
    BY DirectMap DEF IInv, ListOK
<1>2. m_head \in Blocks \cup {Null}
    BY <1>1, Links DEF IInv, ListOK
<1>3. pred # Null => next[pred] \in Blocks \cup {Null}
    BY BlockIs DEF IInv, CursorsOK
<1> QED
    BY <1>2, <1>3 DEF cur

-----------------------------------------------------------------------------
(* Every step keeps the invariant. *)

LEMMA InitIInv == Init => IInv
<1> SUFFICES ASSUME Init PROVE IInv
    OBVIOUS
<1>1. TypeOK
    BY EntriesAre, AddressesAssumption DEF Init, TypeOK, AddressesAssumption
<1>2. IsList(m_head, next, {})
    BY EmptyList DEF Init
<1>3. Blocks = {}
    BY <1>1, <1>2, BlocksAre DEF TypeOK
<1>4. AccountOK
    BY <1>3, BeforeGrows DEF Init, AccountOK, Parts
<1> QED
    BY <1>1, <1>2, <1>3, <1>4 DEF Init, IInv, ListOK, CursorsOK, ZeroMeansFailure

LEMMA ToPhysOfToVirt == \A p \in PhysPages : ToPhys(ToVirt(p)) = p
<1> TAKE p \in PhysPages
<1>1. ToVirt(p) = Slide + p /\ ToVirt(p) \in Mapped
    BY DirectMap
<1>2. ToVirt(p) = Slide + ToPhys(ToVirt(p)) /\ ToPhys(ToVirt(p)) \in Nat
    BY <1>1, DirectMap
<1>3. p \in Nat /\ Slide \in Nat
    BY EntriesAre, DirectMap
<1> QED
    BY <1>1, <1>2, <1>3

LEMMA InitPushKeeps == IInv /\ InitPush => IInv'
<1> SUFFICES ASSUME IInv, InitPush PROVE IInv'
    OBVIOUS
<1>1. PICK e, v, n : e = entry /\ v = ToVirt(Entries[entry].base) /\ n = Entries[entry].length
    OBVIOUS
<1>2. /\ e \in DOMAIN Entries /\ Entries[e].usable
      /\ n \in Nat /\ n > 0 /\ Entries[e].base \in Nat /\ Entries[e].base \in EntryPages(Entries[e])
      /\ Entries[e].base \in PhysPages /\ e + 1 \in 1 .. Len(Entries) + 1
    <2>1. e \in DOMAIN Entries /\ Entries[e].usable
        BY <1>1, EntriesAre DEF InitPush, IInv, TypeOK
    <2> QED
        BY ONLY <1>1, <2>1, EntriesAre
<1>3. v \in Mapped /\ ToPhys(v) = Entries[e].base
    BY <1>1, <1>2, DirectMap, ToPhysOfToVirt
<1>4. /\ size' = [size EXCEPT ![v] = n] /\ next' = [next EXCEPT ![v] = m_head] /\ m_head' = v
      /\ entry' = e + 1 /\ used' = used /\ lost' = lost
    BY <1>1 DEF InitPush, Push
<1>5. EntryPages(Entries[e]) \cap Before(e) = {} /\ Before(e + 1) = Before(e) \cup EntryPages(Entries[e])
    BY <1>2, BeforeGrows
<1>6. v \notin Blocks
    <2>1. SUFFICES ASSUME v \in Blocks PROVE FALSE
        OBVIOUS
    <2>2. ToPhys(v) \in Before(e)
        BY <1>1, <2>1, BlockIs DEF IInv, AccountOK, Parts
    <2> QED
        BY <1>2, <1>3, <1>5, <2>2
<1>7. TypeOK'
    BY <1>2, <1>3, <1>4 DEF InitPush, IInv, TypeOK
<1>8. IsList(m_head', next', Blocks \cup {v})
    <2>1. next'[v] = m_head /\ \A w \in Blocks : next'[w] = next[w]
        BY <1>3, <1>4, <1>6 DEF IInv, ListOK, TypeOK
    <2> QED
        BY <1>4, <1>6, <2>1, PushOnList DEF IInv, ListOK
<1>9. size'[v] = n /\ \A w \in Blocks : size'[w] = size[w]
    BY <1>3, <1>4, <1>6 DEF IInv, ListOK, TypeOK
<1>10. Extents'[v] = EntryPages(Entries[e]) /\ \A w \in Blocks : Extents'[w] = Extents[w]
    BY <1>1, <1>3, <1>9, BlockIs DEF Extents, BlockPages, EntryPages, IInv, ListOK
<1>11. Parts(Before(entry'), used', lost', Blocks \cup {v}, Extents')
    <2>1. Parts(Before(e), used, lost, Blocks, Extents)
        BY <1>1 DEF IInv, AccountOK
    <2>2. Parts(Before(e) \cup EntryPages(Entries[e]), used, lost, Blocks \cup {v}, Extents')
        BY <1>5, <1>6, <1>10, <2>1, PartsGrow
    <2> QED
        BY <1>4, <1>5, <2>2
<1>12. Leaves(Blocks \cup {v})
    BY <1>2, <1>3, <1>8, <1>9, <1>11 DEF Leaves, IInv, ListOK
<1>13. ListOK' /\ AccountOK'
    BY <1>7, <1>12, LeftIsThere
<1>14. CursorsOK' /\ ZeroMeansFailure'
    BY <1>4 DEF InitPush, IInv, CursorsOK, ZeroMeansFailure
<1> QED
    BY <1>7, <1>13, <1>14 DEF IInv

\* The steps that leave the list alone.
LEMMA QuietKeeps ==
    IInv /\ (InitSkip \/ InitDone \/ AllocSkip \/ AllocFail \/ CoalesceSkip \/ CoalesceNext
                \/ CoalesceDone \/ \E n \in 0 .. MaxRequest : CallAlloc(n))
        => IInv' /\ Blocks' = Blocks
<1>1. ASSUME IInv, InitSkip PROVE IInv' /\ Blocks' = Blocks
    <2>1. TypeOK'
        BY <1>1, EntriesAre DEF InitSkip, fields, IInv, TypeOK
    <2>2. Before(entry') = Before(entry)
        BY <1>1, EntriesAre, BeforeGrows DEF InitSkip, IInv, TypeOK
    <2> QED
        BY <1>1, <2>1, <2>2, SameBlocks DEF InitSkip, IInv, CursorsOK, ZeroMeansFailure
<1>2. ASSUME IInv, InitDone PROVE IInv' /\ Blocks' = Blocks
    <2>1. TypeOK'
        BY <1>2 DEF InitDone, fields, locals, IInv, TypeOK
    <2>2. Blocks' = Blocks /\ ListOK' /\ AccountOK'
        BY <1>2, <2>1, SameBlocks DEF InitDone, locals
    <2>3. entry = Len(Entries) + 1
        BY <1>2, EntriesAre DEF InitDone, IInv, TypeOK
    <2> QED
        BY <1>2, <2>1, <2>2, <2>3 DEF InitDone, locals, IInv, CursorsOK, ZeroMeansFailure
<1>3. ASSUME IInv, AllocSkip PROVE IInv' /\ Blocks' = Blocks
    <2>1. cur \in Blocks
        BY <1>3, CursorIs DEF AllocSkip
    <2>2. TypeOK'
        BY <1>3, <2>1 DEF AllocSkip, fields, IInv, TypeOK, ListOK
    <2>3. Blocks' = Blocks /\ ListOK' /\ AccountOK'
        BY <1>3, <2>2, SameBlocks DEF AllocSkip
    <2> QED
        BY <1>3, <2>1, <2>2, <2>3 DEF AllocSkip, IInv, CursorsOK, ZeroMeansFailure
<1>4. ASSUME IInv, AllocFail \/ CoalesceDone PROVE IInv' /\ Blocks' = Blocks
    <2>1. TypeOK'
        BY <1>4, AddressesAssumption
           DEF AllocFail, CoalesceDone, Return, fields, IInv, TypeOK, AddressesAssumption
    <2>2. Blocks' = Blocks /\ ListOK' /\ AccountOK'
        BY <1>4, <2>1, SameBlocks DEF AllocFail, CoalesceDone, Return
    <2> QED
        BY <1>4, <2>1, <2>2 DEF AllocFail, CoalesceDone, Return, IInv, CursorsOK, ZeroMeansFailure
<1>5. ASSUME IInv, CoalesceSkip \/ CoalesceNext PROVE IInv' /\ Blocks' = Blocks
    <2>1. a \in Blocks /\ b \in Blocks
        BY <1>5 DEF CoalesceSkip, CoalesceNext, IInv, CursorsOK
    <2>2. next[b] \in Blocks \cup {Null} /\ next[a] \in Blocks \cup {Null} /\ Blocks \subseteq Mapped
        BY <1>5, <2>1, BlockIs DEF IInv, ListOK
    <2>3. TypeOK'
        BY <1>5, <2>1, <2>2 DEF CoalesceSkip, CoalesceNext, fields, IInv, TypeOK
    <2>4. Blocks' = Blocks /\ ListOK' /\ AccountOK'
        BY <1>5, <2>3, SameBlocks DEF CoalesceSkip, CoalesceNext
    <2> QED
        BY <1>5, <2>1, <2>2, <2>3, <2>4
           DEF CoalesceSkip, CoalesceNext, IInv, CursorsOK, ZeroMeansFailure
<1>6. ASSUME IInv, NEW n \in 0 .. MaxRequest, CallAlloc(n) PROVE IInv' /\ Blocks' = Blocks
    <2>1. TypeOK'
        BY <1>6 DEF CallAlloc, fields, IInv, TypeOK
    <2>2. Blocks' = Blocks /\ ListOK' /\ AccountOK'
        BY <1>6, <2>1, SameBlocks DEF CallAlloc
    <2> QED
        BY <1>6, <2>1, <2>2 DEF CallAlloc, IInv, CursorsOK, ZeroMeansFailure
<1> QED
    BY <1>1, <1>2, <1>3, <1>4, <1>5, <1>6

\* What *current = x does, in a list whose other links are nx.
LEMMA SetCurrentIs ==
    ASSUME IInv, call = "alloc", cur # Null, NEW nx \in [Mapped -> Mapped \cup {Null}],
           NEW x \in Mapped \cup {Null}, \A w \in Blocks \ {cur} : nx[w] = next[w], SetCurrent(nx, x)
    PROVE  /\ m_head' = (IF m_head = cur THEN x ELSE m_head)
           /\ m_head' \in Mapped \cup {Null} /\ next' \in [Mapped -> Mapped \cup {Null}]
           /\ \A w \in Blocks \ {cur} : next'[w] = IF next[w] = cur THEN x ELSE next[w]
           /\ \A w \in Mapped \ Blocks : next'[w] = nx[w]
<1>1. cur \in Blocks /\ Blocks \in SUBSET Mapped /\ Null \notin Blocks
    BY CursorIs, DirectMap DEF IInv, ListOK
<1>2. /\ \A w \in Blocks : next[w] # w /\ next[w] # m_head
      /\ \A v, w \in Blocks : next[v] = next[w] /\ next[v] # Null => v = w
    BY <1>1, Links DEF IInv, ListOK
<1>3. m_head \in Mapped \cup {Null}
    BY DEF IInv, TypeOK
<1>4. CASE pred = Null
    <2>1. cur = m_head /\ m_head' = x /\ next' = nx
        BY <1>4 DEF cur, SetCurrent
    <2> QED
        BY <1>2, <2>1
<1>5. CASE pred # Null
    <2>1. /\ pred \in Blocks /\ cur = next[pred] /\ m_head' = m_head
          /\ next' = [nx EXCEPT ![pred] = x]
        BY <1>5 DEF cur, SetCurrent, IInv, CursorsOK
    <2>2. m_head # cur /\ pred # cur
        BY <1>2, <2>1
    <2>3. next'[pred] = x /\ \A w \in Mapped \ {pred} : next'[w] = nx[w]
        BY <1>1, <2>1
    <2>4. next' \in [Mapped -> Mapped \cup {Null}]
        BY <1>1, <2>1
    <2>5. \A w \in Blocks \ {pred} : next[w] # cur
        BY <1>2, <2>1
    <2>6. \A w \in Blocks \ {cur} : next'[w] = IF next[w] = cur THEN x ELSE next[w]
        BY <1>1, <2>1, <2>3, <2>5
    <2> QED
        BY <1>3, <2>1, <2>2, <2>3, <2>4, <2>6
<1> QED
    BY <1>4, <1>5

\* What alloc hands out and gives up are the first pages of the block.
LEMMA HandOutIs ==
    ASSUME IInv, call = "alloc", cur # Null, size[cur] >= Needed, HandOut
    PROVE  /\ used' = used \cup PagesOf(ToPhys(cur) + 1, want)
           /\ lost' = lost \cup {ToPhys(cur)}
           /\ want \in Nat
           /\ PagesOf(ToPhys(cur) + 1, want) \subseteq BlockPages(cur)
<1>1. /\ cur \in Mapped /\ cur \in Nat /\ cur = Slide + ToPhys(cur) /\ ToPhys(cur) \in Nat
      /\ Slide \in Nat /\ size[cur] \in Nat /\ BlockPages(cur) \subseteq UsablePages
    BY CursorIs, BlockIs
<1>2. want \in Nat /\ Needed = want + 1
    BY AddressesAssumption DEF IInv, TypeOK, Needed, AddressesAssumption
<1>3. PICK p, n, v : p = ToPhys(cur) /\ n = Needed - want /\ v = cur + Needed - want
    OBVIOUS
<1>4. n = 1 /\ v = cur + 1 /\ p \in Nat /\ p + want < p + size[cur]
    BY <1>1, <1>2, <1>3
<1>5. lost' = lost \cup {p}
    <2>1. PagesOf(p, n) = {p}
        BY <1>4 DEF PagesOf
    <2> QED
        BY <1>3, <2>1 DEF HandOut
<1>6. PagesOf(p + 1, want) \subseteq BlockPages(cur)
    BY <1>1, <1>2, <1>3, <1>4 DEF BlockPages, PagesOf
<1>7. PagesOf(ToPhys(v), want) = PagesOf(p + 1, want)
    <2>1. CASE want = 0
        <3>1. ToPhys(v) \in Int
            BY <1>1, <1>4, AddressesAssumption DEF ToPhys, AddressesAssumption
        <3>2. \A x \in Int : PagesOf(x, 0) = {}
            BY DEF PagesOf
        <3>3. p + 1 \in Int
            BY <1>4
        <3> QED
            BY <2>1, <3>1, <3>2, <3>3
    <2>2. CASE want # 0
        <3>1. p + 1 \in PagesOf(p + 1, want)
            BY <1>2, <1>4, <2>2 DEF PagesOf
        <3>2. p + 1 \in PhysPages
            BY <1>1, <1>6, <3>1, EntriesAre
        <3>3. ToVirt(p + 1) = v
            <4>1. ToVirt(p + 1) = Slide + (p + 1)
                BY <3>2, DirectMap
            <4> QED
                BY <1>1, <1>3, <1>4, <4>1
        <3>4. ToPhys(v) = p + 1
            BY <3>2, <3>3, ToPhysOfToVirt
        <3> QED
            BY <3>4
    <2> QED
        BY <2>1, <2>2
<1>8. used' = used \cup PagesOf(p + 1, want)
    BY <1>3, <1>7 DEF HandOut
<1> QED
    BY <1>2, <1>3, <1>5, <1>6, <1>8

\* What does not concern the list, after alloc has handed out a block's pages.
LEMMA ReturnKeeps ==
    ASSUME IInv, call = "alloc", cur # Null, size[cur] >= Needed, HandOut, Return
    PROVE  /\ CursorsOK' /\ ZeroMeansFailure'
           /\ used' \subseteq PhysPages /\ lost' \subseteq PhysPages
           /\ entry' = entry
<1>1. /\ used' = used \cup PagesOf(ToPhys(cur) + 1, want)
      /\ lost' = lost \cup {ToPhys(cur)} /\ want \in Nat
      /\ PagesOf(ToPhys(cur) + 1, want) \subseteq BlockPages(cur)
    BY HandOutIs
<1>2. /\ BlockPages(cur) \subseteq PhysPages /\ ToPhys(cur) \in BlockPages(cur) /\ ToPhys(cur) \in Nat
    BY CursorIs, BlockIs, EntriesAre
<1>3. 0 \notin PagesOf(ToPhys(cur) + 1, want)
    BY <1>1, <1>2 DEF PagesOf
<1>4. used \subseteq PhysPages /\ lost \subseteq PhysPages
    BY DEF IInv, TypeOK
<1> QED
    BY <1>1, <1>2, <1>3, <1>4 DEF Return, IInv, CursorsOK, ZeroMeansFailure

LEMMA AllocWholeKeeps == IInv /\ AllocWhole => IInv'
<1> SUFFICES ASSUME IInv, AllocWhole PROVE IInv'
    OBVIOUS
<1>1. PICK c, p : c = cur /\ p = ToPhys(cur)
    OBVIOUS
<1>2. /\ call = "alloc" /\ cur # Null /\ size[c] = Needed /\ size' = [size EXCEPT ![c] = 0]
      /\ SetCurrent([next EXCEPT ![c] = Null], next[c]) /\ HandOut /\ Return
    BY <1>1 DEF AllocWhole
<1>3. /\ c \in Blocks /\ c \in Mapped /\ p \in Nat /\ size[c] \in Nat
      /\ next[c] \in Blocks \cup {Null} /\ Extents[c] = PagesOf(p, size[c])
    BY <1>1, <1>2, CursorIs, BlockIs DEF BlockPages
<1>4. Blocks \in SUBSET Mapped /\ Null \notin Blocks
    BY DirectMap DEF IInv, ListOK
<1>5. size[c] >= Needed /\ want \in Nat /\ size[c] = want + 1
    BY <1>2, <1>3, AddressesAssumption DEF Needed, IInv, TypeOK, AddressesAssumption
<1>6. /\ m_head' = (IF m_head = c THEN next[c] ELSE m_head)
      /\ m_head' \in Mapped \cup {Null} /\ next' \in [Mapped -> Mapped \cup {Null}]
      /\ \A w \in Blocks \ {c} : next'[w] = IF next[w] = c THEN next[c] ELSE next[w]
    <2>1. PICK nx : nx = [next EXCEPT ![c] = Null]
        OBVIOUS
    <2>2. nx \in [Mapped -> Mapped \cup {Null}] /\ \A w \in Blocks \ {c} : nx[w] = next[w]
        BY <1>4, <2>1 DEF IInv, TypeOK
    <2>3. PICK x : x = next[c]
        OBVIOUS
    <2>4. x \in Mapped \cup {Null} /\ SetCurrent(nx, x) /\ \A w \in Blocks \ {cur} : nx[w] = next[w]
        BY <1>1, <1>2, <1>3, <1>4, <2>1, <2>2, <2>3
    <2>5. /\ m_head' = (IF m_head = cur THEN x ELSE m_head)
          /\ m_head' \in Mapped \cup {Null} /\ next' \in [Mapped -> Mapped \cup {Null}]
          /\ \A w \in Blocks \ {cur} : next'[w] = IF next[w] = cur THEN x ELSE next[w]
        BY <1>2, <2>2, <2>4, SetCurrentIs
    <2> QED
        BY <1>1, <2>3, <2>5
<1>7. IsList(m_head', next', Blocks \ {c})
    BY <1>3, <1>4, <1>6, UnlinkFromList DEF IInv, ListOK
<1>8. \A w \in Blocks \ {c} : size'[w] = size[w]
    BY <1>2, <1>4 DEF IInv, TypeOK
<1>9. \A w \in Blocks \ {c} : Extents'[w] = Extents[w]
    BY <1>4, <1>8 DEF Extents, BlockPages
<1>10. /\ used' = used \cup PagesOf(p + 1, want) /\ lost' = lost \cup {p}
    BY <1>1, <1>2, <1>5, HandOutIs
<1>11. PagesOf(p, size[c]) = PagesOf(p + 1, want) \cup {p} /\ PagesOf(p + 1, want) \cap {p} = {}
    BY <1>3, <1>5 DEF PagesOf
<1>12. /\ CursorsOK' /\ ZeroMeansFailure' /\ used' \subseteq PhysPages /\ lost' \subseteq PhysPages
       /\ entry' = entry
    BY <1>1, <1>2, <1>5, ReturnKeeps
<1>13. Parts(Before(entry'), used', lost', Blocks \ {c}, Extents')
    <2>1. Parts(Before(entry), used, lost, Blocks, Extents)
        BY DEF IInv, AccountOK
    <2>2. Parts(Before(entry), used \cup PagesOf(p + 1, want), lost \cup {p}, Blocks \ {c}, Extents')
        BY <1>3, <1>9, <1>11, <2>1, PartsTaken
    <2> QED
        BY <1>10, <1>12, <2>2
<1>14. TypeOK'
    <2>1. size' \in [Mapped -> Nat]
        BY <1>2 DEF IInv, TypeOK
    <2>2. want' \in 0 .. MaxRequest
        BY <1>2, AddressesAssumption DEF Return, AddressesAssumption
    <2> QED
        BY <1>2, <1>6, <1>12, <2>1, <2>2 DEF Return, IInv, TypeOK
<1>15. Leaves(Blocks \ {c})
    BY <1>4, <1>7, <1>8, <1>13 DEF Leaves, IInv, ListOK
<1> QED
    BY <1>12, <1>14, <1>15, LeftIsThere DEF IInv

LEMMA AllocSplitKeeps == IInv /\ AllocSplit => IInv'
<1> SUFFICES ASSUME IInv, AllocSplit PROVE IInv'
    OBVIOUS
<1>1. PICK c, p, rest : c = cur /\ p = ToPhys(cur) /\ rest = cur + Needed
    OBVIOUS
<1>2. /\ call = "alloc" /\ cur # Null /\ size[c] > Needed
      /\ size' = [size EXCEPT ![rest] = size[c] - Needed, ![c] = 0]
      /\ SetCurrent([next EXCEPT ![rest] = next[c], ![c] = Null], rest) /\ HandOut /\ Return
    BY <1>1 DEF AllocSplit
<1>3. /\ c \in Blocks /\ c \in Mapped /\ p \in Nat /\ size[c] \in Nat /\ c = Slide + p
      /\ Slide \in Nat /\ c \in Nat
      /\ next[c] \in Blocks \cup {Null} /\ Extents[c] = PagesOf(p, size[c])
      /\ BlockPages(c) = PagesOf(p, size[c]) /\ PagesOf(p, size[c]) \subseteq PhysPages
    BY <1>1, <1>2, CursorIs, BlockIs, EntriesAre DEF BlockPages
<1>4. Blocks \in SUBSET Mapped /\ Null \notin Blocks
    BY DirectMap DEF IInv, ListOK
<1>5. /\ size[c] >= Needed /\ want \in Nat /\ Needed = want + 1 /\ size[c] - Needed \in Nat
      /\ size[c] - Needed > 0 /\ rest = c + want + 1
    <2>1. want \in Nat /\ Needed = want + 1
        BY AddressesAssumption DEF Needed, IInv, TypeOK, AddressesAssumption
    <2>2. PICK n, m : n = size[c] /\ m = Needed
        OBVIOUS
    <2>3. n \in Nat /\ n > m /\ m = want + 1 /\ want \in Nat /\ c \in Nat
        BY ONLY <1>2, <1>3, <2>1, <2>2
    <2>4. n >= m /\ n - m \in Nat /\ n - m > 0 /\ c + m = c + want + 1
        BY ONLY <2>3
    <2> QED
        BY ONLY <1>1, <2>1, <2>2, <2>4
<1>6. rest \in Mapped /\ ToPhys(rest) = p + want + 1 /\ p + want + 1 \in PagesOf(p, size[c])
    <2>1. p + want + 1 \in PagesOf(p, size[c])
        <3>1. PICK n : n = size[c]
            OBVIOUS
        <3>2. p \in Nat /\ n \in Nat /\ want \in Nat /\ n > want + 1
            BY ONLY <1>2, <1>3, <1>5, <3>1
        <3>3. p + want + 1 \in p .. p + n - 1
            BY ONLY <3>2
        <3> QED
            BY ONLY <3>1, <3>3 DEF PagesOf
    <2>2. PICK q : q = p + want + 1
        OBVIOUS
    <2>3. q \in PhysPages /\ rest = Slide + q
        BY <1>3, <1>5, <2>1, <2>2
    <2>4. ToVirt(q) = rest
        BY <2>3, DirectMap
    <2> QED
        BY <2>1, <2>2, <2>3, <2>4, DirectMap, ToPhysOfToVirt
<1>7. rest \notin Blocks
    <2>1. SUFFICES ASSUME rest \in Blocks PROVE FALSE
        OBVIOUS
    <2>2. rest # c
        BY <1>3, <1>5
    <2>3. Extents[rest] \cap Extents[c] = {}
        BY <1>3, <2>1, <2>2 DEF IInv, AccountOK, Parts
    <2>4. ToPhys(rest) \in Extents[rest]
        BY <2>1, BlockIs
    <2> QED
        BY <1>3, <1>6, <2>3, <2>4
<1>8. /\ m_head' = (IF m_head = c THEN rest ELSE m_head)
      /\ m_head' \in Mapped \cup {Null} /\ next' \in [Mapped -> Mapped \cup {Null}]
      /\ \A w \in Blocks \ {c} : next'[w] = IF next[w] = c THEN rest ELSE next[w]
      /\ next'[rest] = next[c]
    <2>1. PICK nx : nx = [next EXCEPT ![rest] = next[c], ![c] = Null]
        OBVIOUS
    <2>2. /\ nx \in [Mapped -> Mapped \cup {Null}] /\ nx[rest] = next[c]
          /\ \A w \in Blocks \ {cur} : nx[w] = next[w]
        BY <1>1, <1>3, <1>4, <1>6, <1>7, <2>1 DEF IInv, TypeOK
    <2>3. SetCurrent(nx, rest) /\ rest \in Mapped \cup {Null}
        BY <1>2, <1>6, <2>1
    <2>4. /\ m_head' = (IF m_head = cur THEN rest ELSE m_head)
          /\ m_head' \in Mapped \cup {Null} /\ next' \in [Mapped -> Mapped \cup {Null}]
          /\ \A w \in Blocks \ {cur} : next'[w] = IF next[w] = cur THEN rest ELSE next[w]
          /\ \A w \in Mapped \ Blocks : next'[w] = nx[w]
        BY <1>2, <2>2, <2>3, SetCurrentIs
    <2> QED
        BY <1>1, <1>6, <1>7, <2>2, <2>4
<1>9. IsList(m_head', next', (Blocks \ {c}) \cup {rest})
    <2>1. IsList(m_head, next, Blocks)
        BY DEF IInv, ListOK
    <2>2. PICK h2, nx2, B : h2 = m_head' /\ nx2 = next' /\ B = Blocks
        OBVIOUS
    <2>3. /\ h2 = (IF m_head = c THEN rest ELSE m_head) /\ nx2[rest] = next[c]
          /\ \A w \in B \ {c} : nx2[w] = IF next[w] = c THEN rest ELSE next[w]
          /\ c \in B /\ rest \notin B /\ Null \notin B /\ IsList(m_head, next, B)
        BY <1>3, <1>4, <1>7, <1>8, <2>1, <2>2
    <2>4. IsList(h2, nx2, (B \ {c}) \cup {rest})
        BY <2>3, ReplaceOnList
    <2> QED
        BY <2>2, <2>4
<1>10. size'[rest] = size[c] - Needed /\ \A w \in Blocks \ {c} : size'[w] = size[w]
    BY <1>2, <1>3, <1>4, <1>6, <1>7 DEF IInv, TypeOK
<1>11. /\ Extents'[rest] = PagesOf(p + want + 1, size[c] - Needed)
       /\ \A w \in Blocks \ {c} : Extents'[w] = Extents[w]
    BY <1>4, <1>6, <1>10 DEF Extents, BlockPages
<1>12. /\ used' = used \cup PagesOf(p + 1, want) /\ lost' = lost \cup {p}
    BY <1>1, <1>2, <1>5, HandOutIs
<1>13. /\ PagesOf(p, size[c]) = PagesOf(p + 1, want) \cup {p} \cup PagesOf(p + want + 1, size[c] - Needed)
       /\ PagesOf(p + 1, want) \cap {p} = {}
       /\ PagesOf(p + 1, want) \cap PagesOf(p + want + 1, size[c] - Needed) = {}
       /\ {p} \cap PagesOf(p + want + 1, size[c] - Needed) = {}
    <2>1. PICK n, m : n = size[c] /\ m = size[c] - Needed
        OBVIOUS
    <2>2. n \in Nat /\ m \in Nat /\ m = n - (want + 1) /\ want \in Nat /\ p \in Nat
        BY ONLY <1>3, <1>5, <2>1
    <2>3. PagesOf(p, n) = PagesOf(p + 1, want) \cup {p} \cup PagesOf(p + want + 1, m)
        BY ONLY <2>2 DEF PagesOf
    <2>4. /\ PagesOf(p + 1, want) \cap {p} = {}
          /\ PagesOf(p + 1, want) \cap PagesOf(p + want + 1, m) = {}
          /\ {p} \cap PagesOf(p + want + 1, m) = {}
        BY ONLY <2>2 DEF PagesOf
    <2> QED
        BY ONLY <2>1, <2>3, <2>4
<1>14. /\ CursorsOK' /\ ZeroMeansFailure' /\ used' \subseteq PhysPages /\ lost' \subseteq PhysPages
       /\ entry' = entry
    BY <1>1, <1>2, <1>5, ReturnKeeps
<1>15. Parts(Before(entry'), used', lost', (Blocks \ {c}) \cup {rest}, Extents')
    <2>1. Parts(Before(entry), used, lost, Blocks, Extents)
        BY DEF IInv, AccountOK
    <2>2. PICK X, Z : X = PagesOf(p + 1, want) /\ Z = PagesOf(p + want + 1, size[c] - Needed)
        OBVIOUS
    <2>3. /\ Extents[c] = X \cup {p} \cup Z /\ X \cap {p} = {} /\ X \cap Z = {} /\ {p} \cap Z = {}
          /\ Extents'[rest] = Z
        BY <1>3, <1>11, <1>13, <2>2
    <2>4. Parts(Before(entry), used \cup X, lost \cup {p}, (Blocks \ {c}) \cup {rest}, Extents')
        BY <1>3, <1>7, <1>11, <2>1, <2>3, PartsSplit
    <2> QED
        BY <1>12, <1>14, <2>2, <2>4
<1>16. TypeOK'
    <2>1. size' \in [Mapped -> Nat]
        BY <1>2, <1>5 DEF IInv, TypeOK
    <2>2. want' \in 0 .. MaxRequest
        BY <1>2, AddressesAssumption DEF Return, AddressesAssumption
    <2> QED
        BY <1>2, <1>8, <1>14, <2>1, <2>2 DEF Return, IInv, TypeOK
<1>17. \A v \in (Blocks \ {c}) \cup {rest} : size'[v] > 0
    BY <1>5, <1>10 DEF IInv, ListOK
<1>18. Leaves((Blocks \ {c}) \cup {rest})
    BY <1>4, <1>6, <1>9, <1>15, <1>17 DEF Leaves
<1> QED
    BY <1>14, <1>16, <1>18, LeftIsThere DEF IInv

\* free pushes the pages where the direct map has them, which is where no block was.
LEMMA FreeKeeps ==
    ASSUME IInv, NEW p \in UsablePages, NEW n \in 1 .. MaxRequest, Free(p, n)
    PROVE  IInv'
<1>1. CASE BlockAddress(p) \notin Mapped
    <2>1. call = "idle" /\ call' = "halted" /\ UNCHANGED <<fields, locals, used, lost>>
        BY <1>1 DEF Free
    <2>2. TypeOK'
        BY <2>1 DEF fields, locals, IInv, TypeOK
    <2>3. Blocks' = Blocks /\ ListOK' /\ AccountOK'
        BY <2>1, <2>2, SameBlocks DEF locals
    <2> QED
        BY <2>1, <2>2, <2>3 DEF locals, IInv, CursorsOK, ZeroMeansFailure
<1>2. CASE BlockAddress(p) \in Mapped
    <2>1. PICK v : v = BlockAddress(p)
        OBVIOUS
    <2>2. /\ call = "idle" /\ PagesOf(p, n) \subseteq used /\ call' = "coalesce"
          /\ size' = [size EXCEPT ![v] = n] /\ next' = [next EXCEPT ![v] = m_head] /\ m_head' = v
          /\ used' = used \ PagesOf(p, n) /\ a' = v /\ b' = v
          /\ entry' = entry /\ want' = want /\ pred' = pred /\ lost' = lost
        BY <1>2, <2>1 DEF Free, Push
    <2>3. v \in Mapped /\ ToPhys(v) = p /\ p \in Nat /\ n \in Nat /\ n > 0
        <3>1. p \in PhysPages /\ p \in Nat
            BY EntriesAre
        <3>2. v = ToVirt(p)
            BY <1>2, <2>1, FreeIsDirect
        <3>3. ToPhys(v) = p
            BY <3>1, <3>2, ToPhysOfToVirt
        <3>4. n \in Nat /\ n > 0
            BY AddressesAssumption DEF AddressesAssumption
        <3> QED
            BY <1>2, <2>1, <3>1, <3>3, <3>4
    <2>4. p \in PagesOf(p, n)
        BY <2>3 DEF PagesOf
    <2>5. v \notin Blocks
        <3>1. SUFFICES ASSUME v \in Blocks PROVE FALSE
            OBVIOUS
        <3>2. p \in Extents[v]
            BY <2>3, <3>1, BlockIs
        <3> QED
            BY <2>2, <2>4, <3>1, <3>2 DEF IInv, AccountOK, Parts
    <2>6. TypeOK'
        BY <2>2, <2>3 DEF IInv, TypeOK
    <2>7. IsList(m_head', next', Blocks \cup {v})
        <3>1. next'[v] = m_head /\ \A w \in Blocks : next'[w] = next[w]
            BY <2>2, <2>3, <2>5 DEF IInv, ListOK, TypeOK
        <3> QED
            BY <2>2, <2>5, <3>1, PushOnList DEF IInv, ListOK
    <2>8. size'[v] = n /\ \A w \in Blocks : size'[w] = size[w]
        BY <2>2, <2>3, <2>5 DEF IInv, ListOK, TypeOK
    <2>9. Extents'[v] = PagesOf(p, n) /\ \A w \in Blocks : Extents'[w] = Extents[w]
        BY <2>3, <2>8 DEF Extents, BlockPages, IInv, ListOK
    <2>10. Parts(Before(entry'), used', lost', Blocks \cup {v}, Extents')
        <3>1. Parts(Before(entry), used, lost, Blocks, Extents)
            BY DEF IInv, AccountOK
        <3>2. Parts(Before(entry), used \ PagesOf(p, n), lost, Blocks \cup {v}, Extents')
            BY <2>2, <2>5, <2>9, <3>1, PartsReturned
        <3> QED
            BY <2>2, <3>2
    <2>11. Leaves(Blocks \cup {v})
        BY <2>3, <2>7, <2>8, <2>10 DEF Leaves, IInv, ListOK
    <2>12. Blocks' = Blocks \cup {v} /\ ListOK' /\ AccountOK'
        BY <2>6, <2>11, LeftIsThere
    <2>13. CursorsOK' /\ ZeroMeansFailure'
        BY <2>2, <2>12 DEF IInv, CursorsOK, ZeroMeansFailure
    <2> QED
        BY <2>6, <2>12, <2>13 DEF IInv
<1> QED
    BY <1>1, <1>2

\* Merging takes a block off the list; the one before it in memory has its pages.
LEMMA MergeIs ==
    ASSUME IInv, CoalesceMerge
    PROVE  /\ IInv'
           /\ next[b] \in Blocks /\ a \in Blocks \ {next[b]} /\ Blocks' = Blocks \ {next[b]}
           /\ Extents'[a] = Extents[a] \cup Extents[next[b]]
           /\ \A w \in Blocks \ {a, next[b]} : Extents'[w] = Extents[w]
<1>1. PICK c : c = next[b]
    OBVIOUS
<1>2. /\ call = "coalesce" /\ c # Null /\ a + size[a] = c
      /\ size' = [size EXCEPT ![a] = size[a] + size[c], ![c] = 0]
      /\ next' = [next EXCEPT ![b] = next[c], ![c] = Null]
      /\ m_head' = m_head /\ call' = call /\ entry' = entry /\ want' = want /\ pred' = pred
      /\ a' = a /\ b' = b /\ used' = used /\ lost' = lost
    BY <1>1 DEF CoalesceMerge, locals
<1>3. a \in Blocks /\ b \in Blocks /\ c \in Blocks
    BY <1>1, <1>2, BlockIs DEF IInv, CursorsOK
<1>4. Blocks \in SUBSET Mapped /\ Null \notin Blocks
    BY DirectMap DEF IInv, ListOK
<1>5. /\ c # b /\ c # m_head
      /\ \A w \in Blocks : next[w] = c => w = b
    BY <1>1, <1>2, <1>3, <1>4, Links DEF IInv, ListOK
<1>6. /\ a \in Nat /\ size[a] \in Nat /\ size[a] > 0 /\ a = Slide + ToPhys(a) /\ ToPhys(a) \in Nat
      /\ Slide \in Nat /\ Extents[a] = PagesOf(ToPhys(a), size[a])
    BY <1>3, BlockIs DEF BlockPages
<1>7. /\ c \in Nat /\ size[c] \in Nat /\ size[c] > 0 /\ c = Slide + ToPhys(c) /\ ToPhys(c) \in Nat
      /\ Extents[c] = PagesOf(ToPhys(c), size[c]) /\ next[c] \in Blocks \cup {Null}
    BY <1>3, BlockIs DEF BlockPages
<1>8. a # c /\ ToPhys(c) = ToPhys(a) + size[a]
    BY <1>2, <1>6, <1>7
<1>9. a \in Mapped /\ b \in Mapped /\ c \in Mapped
    BY <1>3, <1>4
<1>10. \A w \in Blocks \ {c} : next'[w] = IF next[w] = c THEN next[c] ELSE next[w]
    BY <1>1, <1>2, <1>4, <1>5, <1>9 DEF IInv, TypeOK
<1>11. IsList(m_head', next', Blocks \ {c})
    <2>1. IsList(m_head, next, Blocks)
        BY DEF IInv, ListOK
    <2>2. PICK h2, nx2, B : h2 = m_head' /\ nx2 = next' /\ B = Blocks
        OBVIOUS
    <2>3. /\ h2 = (IF m_head = c THEN next[c] ELSE m_head)
          /\ \A w \in B \ {c} : nx2[w] = IF next[w] = c THEN next[c] ELSE next[w]
          /\ c \in B /\ Null \notin B /\ IsList(m_head, next, B)
        BY <1>2, <1>3, <1>4, <1>5, <1>10, <2>1, <2>2
    <2>4. IsList(h2, nx2, B \ {c})
        BY <2>3, UnlinkFromList
    <2> QED
        BY <2>2, <2>4
<1>12. size'[a] = size[a] + size[c] /\ \A w \in Blocks \ {a, c} : size'[w] = size[w]
    BY <1>2, <1>4, <1>8, <1>9 DEF IInv, TypeOK
<1>13. Extents'[a] = Extents[a] \cup Extents[c]
    <2>1. Extents'[a] = PagesOf(ToPhys(a), size[a] + size[c])
        BY <1>9, <1>12 DEF Extents, BlockPages
    <2>2. PICK p, m, n : p = ToPhys(a) /\ m = size[a] /\ n = size[c]
        OBVIOUS
    <2>3. PagesOf(p, m + n) = PagesOf(p, m) \cup PagesOf(p + m, n)
        <3>1. p \in Nat /\ m \in Nat /\ n \in Nat
            BY <1>6, <1>7, <2>2
        <3> QED
            BY <3>1 DEF PagesOf
    <2> QED
        BY <1>6, <1>7, <1>8, <2>1, <2>2, <2>3
<1>14. \A w \in Blocks \ {a, c} : Extents'[w] = Extents[w]
    BY <1>4, <1>12 DEF Extents, BlockPages
<1>15. Parts(Before(entry'), used', lost', Blocks \ {c}, Extents')
    <2>1. Parts(Before(entry), used, lost, Blocks, Extents)
        BY DEF IInv, AccountOK
    <2>2. a \in Blocks \ {c} /\ \A w \in Blocks \ {c, a} : Extents'[w] = Extents[w]
        BY <1>3, <1>8, <1>14
    <2>3. Parts(Before(entry), used, lost, Blocks \ {c}, Extents')
        BY <1>3, <1>13, <2>1, <2>2, PartsMerged
    <2> QED
        BY <1>2, <2>3
<1>16. TypeOK'
    <2>1. size' \in [Mapped -> Nat]
        <3>1. PICK n : n = size[a] + size[c]
            OBVIOUS
        <3>2. n \in Nat
            BY <1>6, <1>7, <3>1
        <3>3. size' = [size EXCEPT ![a] = n, ![c] = 0]
            BY <1>2, <3>1
        <3> QED
            BY <3>2, <3>3 DEF IInv, TypeOK
    <2>2. next' \in [Mapped -> Mapped \cup {Null}]
        BY <1>2, <1>4, <1>7 DEF IInv, TypeOK
    <2> QED
        BY <1>2, <2>1, <2>2 DEF IInv, TypeOK
<1>17. \A w \in Blocks \ {c} : size'[w] > 0
    BY <1>6, <1>7, <1>12 DEF IInv, ListOK
<1>18. Leaves(Blocks \ {c})
    BY <1>4, <1>11, <1>15, <1>17 DEF Leaves
<1>19. Blocks' = Blocks \ {c} /\ ListOK' /\ AccountOK'
    BY <1>16, <1>18, LeftIsThere
<1>20. CursorsOK' /\ ZeroMeansFailure'
    BY <1>2, <1>3, <1>5, <1>8, <1>19 DEF IInv, CursorsOK, ZeroMeansFailure
<1> QED
    BY <1>1, <1>3, <1>8, <1>13, <1>14, <1>16, <1>19, <1>20 DEF IInv

LEMMA NextIInv == IInv /\ [Next]_vars => IInv'
<1>1. ASSUME IInv, UNCHANGED vars PROVE IInv'
    <2>1. TypeOK'
        BY <1>1 DEF vars, fields, locals, IInv, TypeOK
    <2>2. Blocks' = Blocks /\ ListOK' /\ AccountOK'
        BY <1>1, <2>1, SameBlocks DEF vars, locals
    <2> QED
        BY <1>1, <2>1, <2>2 DEF vars, locals, IInv, CursorsOK, ZeroMeansFailure
<1>2. ASSUME IInv, Call PROVE IInv'
    BY <1>2, QuietKeeps, FreeKeeps DEF Call
<1>3. ASSUME IInv, Step PROVE IInv'
    BY <1>3, InitPushKeeps, QuietKeeps, AllocSplitKeeps, AllocWholeKeeps, MergeIs DEF Step
<1> QED
    BY <1>1, <1>2, <1>3 DEF Next

\* The list, the accounts and the cursors of init, alloc and coalesce are sound in every
\* state.
THEOREM Invariance == Spec => []IInv
<1> QED
    BY InitIInv, NextIInv, PTL DEF Spec

-----------------------------------------------------------------------------
(* What the allocator promises. *)

\* No page is lost, shared or mistaken for a failure: the accounts, read at the end of
\* init, speak of all usable pages.
THEOREM AccountsAreKept == Spec => []MemoryAccounted
<1>1. IInv => MemoryAccounted
    <2> SUFFICES ASSUME IInv PROVE MemoryAccounted
        OBVIOUS
    <2>1. \A v \in Blocks : Extents[v] = BlockPages(v)
        BY BlockIs
    <2>2. Parts(Before(entry), used, lost, Blocks, Extents)
        BY DEF IInv, AccountOK
    <2>3. PagesAccounted
        <3>1. SUFFICES ASSUME call # "init" PROVE PagesAccounted
            BY DEF PagesAccounted
        <3>2. Before(entry) = UsablePages
            BY <3>1, BeforeGrows DEF IInv, CursorsOK
        <3>3. UNION {Extents[v] : v \in Blocks} = UNION {BlockPages(v) : v \in Blocks}
            BY <2>1
        <3> QED
            BY <2>1, <2>2, <3>2, <3>3 DEF Parts, PagesAccounted
    <2> QED
        BY <2>3 DEF IInv, MemoryAccounted
<1> QED
    BY <1>1, Invariance, PTL

\* A step of coalesce that is no merge leaves every block as it is, and a merge leaves
\* the pages of the block it unlinks in another one.
THEOREM RunsAreKept == Spec => MergingKeepsRuns
<1> DEFINE Kept == call = "coalesce" =>
                    \A v \in Blocks : \E w \in Blocks' : BlockPages(v) \subseteq BlockPages(w)'
<1>1. ASSUME IInv, [Next]_vars PROVE [Kept]_vars
    <2> SUFFICES ASSUME call = "coalesce", Next,
                        NEW v \in Blocks
                 PROVE  \E w \in Blocks' : BlockPages(v) \subseteq BlockPages(w)'
        BY <1>1
    <2>1. \A w \in Blocks' : Extents'[w] = BlockPages(w)'
        <3>1. IInv'
            BY <1>1, NextIInv
        <3> QED
            BY <3>1 DEF IInv, ListOK, Extents
    <2>2. Extents[v] = BlockPages(v)
        BY <1>1, BlockIs
    <2>3. CASE CoalesceMerge
        <3>1. /\ next[b] \in Blocks /\ a \in Blocks \ {next[b]} /\ Blocks' = Blocks \ {next[b]}
              /\ Extents'[a] = Extents[a] \cup Extents[next[b]]
              /\ \A w \in Blocks \ {a, next[b]} : Extents'[w] = Extents[w]
            BY <1>1, <2>3, MergeIs
        <3>2. CASE v = a \/ v = next[b]
            BY <2>1, <2>2, <3>1, <3>2
        <3>3. CASE v # a /\ v # next[b]
            BY <2>1, <2>2, <3>1, <3>3
        <3> QED
            BY <3>2, <3>3
    <2>4. CASE CoalesceSkip \/ CoalesceNext \/ CoalesceDone
        <3>1. Blocks' = Blocks
            BY <1>1, <2>4, QuietKeeps
        <3>2. Extents' = Extents
            BY <2>4 DEF CoalesceSkip, CoalesceNext, CoalesceDone, fields, Extents, BlockPages
        <3> QED
            BY <2>1, <2>2, <3>1, <3>2
    <2>5. CoalesceMerge \/ CoalesceSkip \/ CoalesceNext \/ CoalesceDone
        BY DEF Next, Call, Step, CallAlloc, Free, InitPush, InitSkip, InitDone, AllocSkip,
               AllocSplit, AllocWhole, AllocFail
    <2> QED
        BY <2>3, <2>4, <2>5
<1> QED
    BY <1>1, Invariance, PTL DEF Spec, MergingKeepsRuns

\* alloc hands out pages that nobody holds, and free takes back no others than a caller
\* gives: the allocator implements PageReservation.
THEOREM Implementation == Spec => ImplementsReservation
<1>1. Init => Reservation!Init
    BY DEF Init, Reservation!Init
<1>2. ASSUME IInv, call = "alloc", cur # Null, size[cur] >= Needed, HandOut
      PROVE  [Reservation!Next]_used
    <2>1. PICK p, n : p = ToPhys(cur) /\ n = want
        OBVIOUS
    <2>2. /\ used' = used \cup PagesOf(p + 1, n) /\ n \in Nat
          /\ PagesOf(p + 1, n) \subseteq BlockPages(cur)
        BY <1>2, <2>1, HandOutIs
    <2>3. /\ p \in Nat /\ BlockPages(cur) \subseteq UsablePages
          /\ Extents[cur] = BlockPages(cur) /\ cur \in Blocks
        BY <1>2, <2>1, CursorIs, BlockIs
    <2>4. CASE n = 0
        BY <2>2, <2>3, <2>4 DEF PagesOf
    <2>5. CASE n # 0
        <3>1. PagesOf(p + 1, n) \cap used = {}
            BY <1>2, <2>2, <2>3 DEF IInv, AccountOK, Parts
        <3>2. p + n \in PhysPages
            <4>1. p + n \in PagesOf(p + 1, n)
                BY <2>2, <2>3, <2>5 DEF PagesOf
            <4> QED
                BY <2>2, <2>3, <4>1, EntriesAre
        <3>3. Slide + (p + n) < VirtPages /\ Slide \in Nat /\ VirtPages \in Nat
            BY <3>2, AddressesAssumption DEF AddressesAssumption
        <3>4. p + 1 \in Reservation!Page /\ n \in 1 .. VirtPages - (p + 1)
            BY <2>2, <2>3, <2>5, <3>3 DEF Reservation!Page
        <3>5. Reservation!Reserve(p + 1, n)
            BY <2>2, <3>1 DEF Reservation!Reserve, Reservation!PagesOf, PagesOf
        <3> QED
            BY <3>4, <3>5 DEF Reservation!Next
    <2> QED
        BY <2>4, <2>5
<1>3. ASSUME IInv, NEW p \in UsablePages, NEW n \in 1 .. MaxRequest, Free(p, n)
      PROVE  [Reservation!Next]_used
    <2>1. CASE used' = used
        BY <2>1
    <2>2. CASE used' = used \ PagesOf(p, n) /\ PagesOf(p, n) \subseteq used
        <3>1. p \in Nat /\ n \in Nat /\ n > 0
            <4>1. p \in Nat
                BY EntriesAre
            <4>2. n \in Nat /\ n > 0
                BY AddressesAssumption DEF AddressesAssumption
            <4> QED
                BY <4>1, <4>2
        <3>2. p + n - 1 \in PagesOf(p, n)
            BY <3>1 DEF PagesOf
        <3>3. p + n - 1 \in PhysPages
            BY <1>3, <2>2, <3>2 DEF IInv, TypeOK
        <3>4. Slide + (p + n - 1) < VirtPages /\ Slide \in Nat /\ VirtPages \in Nat
            BY <3>3, AddressesAssumption DEF AddressesAssumption
        <3>5. p \in Reservation!Page /\ n \in 1 .. VirtPages - p
            BY <3>1, <3>4 DEF Reservation!Page
        <3>6. Reservation!Release(p, n)
            BY <2>2 DEF Reservation!Release, Reservation!PagesOf, PagesOf
        <3> QED
            BY <3>5, <3>6 DEF Reservation!Next
    <2> QED
        BY <1>3, <2>1, <2>2 DEF Free
<1>4. ASSUME IInv, [Next]_vars PROVE [Reservation!Next]_used
    <2>1. ASSUME AllocSplit \/ AllocWhole PROVE [Reservation!Next]_used
        <3>1. call = "alloc" /\ cur # Null /\ HandOut /\ (size[cur] > Needed \/ size[cur] = Needed)
            BY <2>1 DEF AllocSplit, AllocWhole
        <3>2. size[cur] \in Nat /\ Needed \in Nat
            BY <1>4, <3>1, CursorIs, BlockIs, AddressesAssumption
               DEF Needed, IInv, TypeOK, AddressesAssumption
        <3> QED
            BY <1>2, <1>4, <3>1, <3>2
    <2>2. ASSUME NEW p \in UsablePages, NEW n \in 1 .. MaxRequest, Free(p, n)
          PROVE  [Reservation!Next]_used
        BY <1>3, <1>4, <2>2
    <2>3. ASSUME NEW n \in 0 .. MaxRequest, CallAlloc(n) PROVE used' = used
        BY <2>3 DEF CallAlloc
    <2>4. ASSUME \/ InitPush \/ InitSkip \/ InitDone \/ AllocSkip \/ AllocFail \/ CoalesceMerge
                 \/ CoalesceSkip \/ CoalesceNext \/ CoalesceDone \/ UNCHANGED vars
          PROVE  used' = used
        BY <2>4 DEF InitPush, InitSkip, InitDone, AllocSkip, AllocFail, CoalesceMerge, CoalesceSkip,
                    CoalesceNext, CoalesceDone, vars
    <2> QED
        BY <1>4, <2>1, <2>2, <2>3, <2>4 DEF Next, Call, Step
<1> QED
    BY <1>1, <1>4, Invariance, PTL DEF Spec, ImplementsReservation, Reservation!Spec

==============================================================================
