-------------------------- MODULE ContainersProofs ---------------------------
(***************************************************************************)
(* Ownership in Containers, for any number of vectors, elements, buffers   *)
(* and texts, and that vectors do what lists do.                           *)
(*                                                                         *)
(* Sound(h, d, E) says of a heap h and of the vectors' fields d that every *)
(* buffer has one owner: a vector, a String in one, or the hand of the     *)
(* running operation, which holds those of E.  Each step of an operation   *)
(* passes a buffer from one to the other.                                  *)
(***************************************************************************)
EXTENDS Containers, NumberTheorems, FiniteSetTheorems, SequenceTheorems, TLAPS

V == Vectors \cup {Temp}

VectorFields == [data : Nat, size : 0 .. MaxSize, capacity : Nat]

\* The i-th pointer that a vector owns: its buffer, then the buffers of its Strings.
Ref(h, d, v, i) == IF i = 0 THEN d[v].data ELSE h[d[v].data][i]

BufferOK(h, d, v) ==
    /\ d[v].size \in Nat /\ d[v].capacity \in Nat
    /\ IF d[v].data = Null THEN d[v].size = 0
       ELSE /\ d[v].data \in DOMAIN h /\ d[v].size <= d[v].capacity
            /\ h[d[v].data] \in [1 .. d[v].capacity -> Nat \cup {Raw}]
            /\ \A i \in 1 .. d[v].capacity : h[d[v].data][i] = Raw <=> i > d[v].size

\* A String has no buffer, or one that holds a text.
StringOK(h, p) == p = Null \/ (p \in DOMAIN h /\ h[p] \in Texts)

StringsOK(h, d, v) == \A i \in 1 .. d[v].size : StringOK(h, Ref(h, d, v, i))

\* No two owners have a buffer in common, and none has one of E.
Apart(h, d, E) ==
    /\ \A v, w \in V : \A i \in 0 .. d[v].size, j \in 0 .. d[w].size :
            Ref(h, d, v, i) = Ref(h, d, w, j) /\ Ref(h, d, v, i) # Null => v = w /\ i = j
    /\ \A v \in V : \A i \in 0 .. d[v].size : Ref(h, d, v, i) \notin E

\* Every buffer of the heap has an owner, or is one of E.
Covered(h, d, E) ==
    \A b \in DOMAIN h : b \in E \/ \E v \in V : \E i \in 0 .. d[v].size : Ref(h, d, v, i) = b

Sound(h, d, E) ==
    /\ DOMAIN h \subseteq 1 .. NBufs /\ E \subseteq DOMAIN h
    /\ d \in [V -> VectorFields]
    /\ \A v \in V : BufferOK(h, d, v) /\ StringsOK(h, d, v)
    /\ Apart(h, d, E) /\ Covered(h, d, E)

\* The texts of a vector.
Says(h, d, v) == [i \in 1 .. d[v].size |-> TextIn(h, Ref(h, d, v, i))]

-----------------------------------------------------------------------------
(* Steps that change the heap and leave the vectors alone. *)

LEMMA RefIs ==
    ASSUME NEW h, NEW d, NEW E, Sound(h, d, E), NEW v \in V, NEW i \in 0 .. d[v].size
    PROVE  /\ Ref(h, d, v, i) \in {Null} \cup DOMAIN h /\ Ref(h, d, v, i) \notin E
           /\ i # 0 => d[v].data # Null /\ d[v].data \in DOMAIN h /\ i \in 1 .. d[v].capacity
                       /\ i \in 1 .. d[v].size /\ StringOK(h, Ref(h, d, v, i))
                       /\ Ref(h, d, v, i) = h[d[v].data][i]
<1>1. /\ BufferOK(h, d, v) /\ StringsOK(h, d, v) /\ Ref(h, d, v, i) \notin E
    BY DEF Sound, Apart
<1>2. CASE i = 0
    BY <1>1, <1>2 DEF Ref, BufferOK
<1>3. CASE i # 0
    <2>1. i \in 1 .. d[v].size /\ d[v].size \in Nat /\ d[v].capacity \in Nat
        BY <1>1, <1>3 DEF BufferOK
    <2>2. d[v].data # Null /\ d[v].data \in DOMAIN h /\ d[v].size <= d[v].capacity
        BY <1>1, <2>1 DEF BufferOK
    <2>3. StringOK(h, Ref(h, d, v, i))
        BY <1>1, <2>1 DEF StringsOK
    <2> QED
        BY <1>1, <1>3, <2>1, <2>2, <2>3 DEF Ref, StringOK
<1> QED
    BY <1>2, <1>3

\* The operation takes the buffer b from the heap.
LEMMA Allocated ==
    ASSUME NEW h, NEW d, NEW E, Sound(h, d, E), NEW b \in 1 .. NBufs, b \notin DOMAIN h,
           NEW h2, DOMAIN h2 = DOMAIN h \cup {b}, \A c \in DOMAIN h : h2[c] = h[c]
    PROVE  /\ Sound(h2, d, E \cup {b})
           /\ \A v \in V : Says(h2, d, v) = Says(h, d, v)
<1>1. \A v \in V : BufferOK(h2, d, v)
    BY DEF Sound, BufferOK
<1>2. \A v \in V : \A i \in 0 .. d[v].size : Ref(h2, d, v, i) = Ref(h, d, v, i)
    BY RefIs DEF Ref
<1>3. b # Null
    BY DEF Null
<1>4. \A v \in V : \A i \in 0 .. d[v].size : Ref(h, d, v, i) # b
    BY <1>3, RefIs
<1>5. \A v \in V : StringsOK(h2, d, v)
    <2> TAKE v \in V
    <2>1. \A i \in 1 .. d[v].size : i \in 0 .. d[v].size /\ i # 0
        OBVIOUS
    <2> QED
        BY <1>2, <2>1, RefIs DEF StringsOK, StringOK
<1>6. Apart(h2, d, E \cup {b})
    BY <1>2, <1>4 DEF Sound, Apart
<1>7. Covered(h2, d, E \cup {b})
    BY <1>2 DEF Sound, Covered
<1>8. ASSUME NEW v \in V PROVE Says(h2, d, v) = Says(h, d, v)
    <2>1. \A i \in 1 .. d[v].size : TextIn(h2, Ref(h2, d, v, i)) = TextIn(h, Ref(h, d, v, i))
        <3> TAKE i \in 1 .. d[v].size
        <3>1. i \in 0 .. d[v].size
            OBVIOUS
        <3> QED
            BY <1>2, <3>1, RefIs DEF TextIn
    <2> QED
        BY <2>1 DEF Says
<1> QED
    BY <1>1, <1>5, <1>6, <1>7, <1>8 DEF Sound

\* It gives the buffer b, which nobody else has, back.
LEMMA Disposed ==
    ASSUME NEW h, NEW d, NEW E, Sound(h, d, E), NEW b \in E,
           NEW h2, DOMAIN h2 = DOMAIN h \ {b}, \A c \in DOMAIN h2 : h2[c] = h[c]
    PROVE  /\ Sound(h2, d, E \ {b})
           /\ \A v \in V : Says(h2, d, v) = Says(h, d, v)
<1>1. \A v \in V : \A i \in 0 .. d[v].size : Ref(h, d, v, i) # b
    BY RefIs
<1>2. \A v \in V : d[v].data # b
    <2> TAKE v \in V
    <2>1. 0 \in 0 .. d[v].size
        BY DEF Sound, BufferOK
    <2> QED
        BY <1>1, <2>1 DEF Ref
<1>3. \A v \in V : BufferOK(h2, d, v)
    BY <1>2 DEF Sound, BufferOK
<1>4. \A v \in V : \A i \in 0 .. d[v].size : Ref(h2, d, v, i) = Ref(h, d, v, i)
    BY <1>2, RefIs DEF Ref
<1>5. \A v \in V : StringsOK(h2, d, v)
    <2> TAKE v \in V
    <2>1. \A i \in 1 .. d[v].size : i \in 0 .. d[v].size /\ i # 0
        OBVIOUS
    <2> QED
        BY <1>1, <1>4, <2>1, RefIs DEF StringsOK, StringOK
<1>6. Apart(h2, d, E \ {b})
    BY <1>4 DEF Sound, Apart
<1>7. Covered(h2, d, E \ {b})
    BY <1>4 DEF Sound, Covered
<1>8. ASSUME NEW v \in V PROVE Says(h2, d, v) = Says(h, d, v)
    <2>1. \A i \in 1 .. d[v].size : TextIn(h2, Ref(h2, d, v, i)) = TextIn(h, Ref(h, d, v, i))
        <3> TAKE i \in 1 .. d[v].size
        <3>1. i \in 0 .. d[v].size
            OBVIOUS
        <3> QED
            BY <1>1, <1>4, <3>1, RefIs DEF TextIn
    <2> QED
        BY <2>1 DEF Says
<1> QED
    BY <1>3, <1>5, <1>6, <1>7, <1>8 DEF Sound

-----------------------------------------------------------------------------
(* Steps that change a slot. *)

SlotWritten(h, h2, d, v, i, p) ==
    /\ DOMAIN h2 = DOMAIN h /\ \A c \in DOMAIN h \ {d[v].data} : h2[c] = h[c]
    /\ h2[d[v].data] = [h[d[v].data] EXCEPT ![i] = p]

Resized(d, v, n) == [d EXCEPT ![v].size = n]

\* What the operation holds of E when it has given p, and taken old.
Held(E, p, old) == (E \ {p}) \cup ({old} \ {Null})

\* A list of n texts with t at its end, and without its last one.
Longer(q, n, t) == [j \in 1 .. n + 1 |-> IF j = n + 1 THEN t ELSE q[j]]

Shorter(q, n) == [j \in 1 .. n - 1 |-> q[j]]

\* A vector's buffer is no other vector's, and no String's.
LEMMA BufferIsOwn ==
    ASSUME NEW h, NEW d, NEW E, Sound(h, d, E), NEW v \in V, d[v].data # Null
    PROVE  /\ d[v].data \in DOMAIN h /\ d[v].data \notin E
           /\ \A w \in V \ {v} : d[w].data # d[v].data
           /\ \A w \in V : \A j \in 1 .. d[w].size : Ref(h, d, w, j) # d[v].data
<1>1. \A w \in V : 0 \in 0 .. d[w].size /\ Ref(h, d, w, 0) = d[w].data /\ d[w].size \in Nat
    BY DEF Sound, BufferOK, Ref
<1>2. \A w \in V : \A j \in 1 .. d[w].size : j \in 0 .. d[w].size /\ j # 0
    BY <1>1
<1>3. d[v].data \in DOMAIN h
    BY DEF Sound, BufferOK
<1> QED
    BY <1>1, <1>2, <1>3 DEF Sound, Apart

\* The pointer p, which the operation holds, goes to a slot of v, and the pointer that
\* was there to the operation.
LEMMA SlotSet ==
    ASSUME NEW h, NEW d, NEW E, Sound(h, d, E), NEW v \in V, NEW i \in 1 .. d[v].size,
           NEW p, p = Null \/ p \in E, StringOK(h, p), NEW old, old = Ref(h, d, v, i),
           NEW h2, SlotWritten(h, h2, d, v, i, p)
    PROVE  /\ Sound(h2, d, Held(E, p, old))
           /\ Says(h2, d, v) = [Says(h, d, v) EXCEPT ![i] = TextIn(h, p)]
           /\ \A w \in V \ {v} : Says(h2, d, w) = Says(h, d, w)
           /\ StringOK(h2, old) /\ TextIn(h2, old) = TextIn(h, old)
<1> USE DEF SlotWritten, Resized, Longer, Shorter, Held
<1> DEFINE D == d[v].data
<1>1. /\ \A w \in V : d[w].size \in Nat /\ d[w].capacity \in Nat /\ d[w].data \in Nat
      /\ E \subseteq DOMAIN h
    BY DEF Sound, VectorFields
<1>2. i \in 0 .. d[v].size /\ i # 0
    BY <1>1
<1>3. /\ D # Null /\ D \in DOMAIN h /\ i \in 1 .. d[v].capacity /\ StringOK(h, old)
      /\ old = h[D][i] /\ old \notin E
    BY <1>2, RefIs
<1>4. /\ D \notin E /\ \A w \in V \ {v} : d[w].data # D
      /\ \A w \in V : \A j \in 1 .. d[w].size : Ref(h, d, w, j) # D
    BY <1>3, BufferIsOwn
<1>5. p # D /\ p \in Nat /\ p # Raw /\ p \in {Null} \cup DOMAIN h
    <2>1. DOMAIN h \subseteq Nat
        BY DEF Sound
    <2>2. Raw \notin Nat
        BY NamesAssumption DEF NamesAssumption
    <2> QED
        BY <1>1, <1>3, <1>4, <2>1, <2>2 DEF Null
<1>6. /\ h[D] \in [1 .. d[v].capacity -> Nat \cup {Raw}]
      /\ \A j \in 1 .. d[v].capacity : h[D][j] = Raw <=> j > d[v].size
      /\ d[v].size <= d[v].capacity
    BY <1>3 DEF Sound, BufferOK
<1>7. /\ h2[D] \in [1 .. d[v].capacity -> Nat \cup {Raw}]
      /\ h2[D][i] = p /\ \A j \in 1 .. d[v].capacity \ {i} : h2[D][j] = h[D][j]
    BY <1>3, <1>5, <1>6
<1>8. \A w \in V : \A j \in 0 .. d[w].size :
        Ref(h2, d, w, j) = IF w = v /\ j = i THEN p ELSE Ref(h, d, w, j)
    <2> TAKE w \in V
    <2> TAKE j \in 0 .. d[w].size
    <2>1. CASE w = v /\ j # 0
        <3>1. j \in 1 .. d[v].capacity
            BY <1>1, <1>6, <2>1
        <3> QED
            BY <1>7, <2>1, <3>1 DEF Ref
    <2>2. CASE w # v /\ j # 0
        <3>1. d[w].data # D /\ d[w].data \in DOMAIN h
            BY <1>4, <2>2, RefIs
        <3> QED
            BY <2>2, <3>1 DEF Ref
    <2>3. CASE j = 0
        BY <1>2, <2>3 DEF Ref
    <2> QED
        BY <2>1, <2>2, <2>3
<1>9. \A w \in V : BufferOK(h2, d, w)
    <2> TAKE w \in V
    <2>1. BufferOK(h, d, w)
        BY DEF Sound
    <2>2. CASE w = v
        <3>1. \A j \in 1 .. d[v].capacity : h2[D][j] = Raw <=> j > d[v].size
            BY <1>1, <1>5, <1>6, <1>7
        <3> QED
            BY <1>3, <1>7, <2>1, <2>2, <3>1 DEF BufferOK
    <2>3. CASE w # v
        BY <1>4, <2>1, <2>3 DEF BufferOK
    <2> QED
        BY <2>2, <2>3
<1>10. \A q : StringOK(h, q) /\ q # D => StringOK(h2, q) /\ TextIn(h2, q) = TextIn(h, q)
    BY DEF StringOK, TextIn
<1>11. \A w \in V : \A j \in 1 .. d[w].size :
        /\ StringOK(h, Ref(h, d, w, j)) /\ Ref(h, d, w, j) # D /\ j \in 0 .. d[w].size
    BY <1>4 DEF Sound, StringsOK
<1>12. \A w \in V : StringsOK(h2, d, w)
    BY <1>5, <1>8, <1>10, <1>11 DEF StringsOK
<1>13. StringOK(h2, old) /\ TextIn(h2, old) = TextIn(h, old)
    BY <1>3, <1>4, <1>10, <1>11
<1>14. Apart(h2, d, Held(E, p, old))
    <2>1. \A w \in V : \A j \in 0 .. d[w].size :
            /\ Ref(h, d, w, j) # p \/ p = Null
            /\ (w = v /\ j = i) \/ Ref(h, d, w, j) # old \/ old = Null
            /\ Ref(h, d, w, j) \notin E
        BY <1>2 DEF Sound, Apart
    <2>2. \A w, x \in V : \A j \in 0 .. d[w].size, k \in 0 .. d[x].size :
            Ref(h2, d, w, j) = Ref(h2, d, x, k) /\ Ref(h2, d, w, j) # Null => w = x /\ j = k
        BY <1>8, <2>1 DEF Sound, Apart
    <2>3. \A w \in V : \A j \in 0 .. d[w].size : Ref(h2, d, w, j) \notin Held(E, p, old)
        <3> TAKE w \in V
        <3> TAKE j \in 0 .. d[w].size
        <3>1. CASE w = v /\ j = i
            BY <1>3, <1>8, <3>1
        <3>2. CASE ~ (w = v /\ j = i)
            BY <1>8, <2>1, <3>2
        <3> QED
            BY <3>1, <3>2
    <2> QED
        BY <2>2, <2>3 DEF Apart
<1>15. Covered(h2, d, Held(E, p, old))
    <2> SUFFICES ASSUME NEW b \in DOMAIN h, b \notin Held(E, p, old)
                 PROVE  \E w \in V : \E j \in 0 .. d[w].size : Ref(h2, d, w, j) = b
        BY DEF Covered
    <2>1. CASE b = p
        BY <1>2, <1>8, <2>1
    <2>2. CASE b # p
        <3>1. b # Null
            BY DEF Sound, Null
        <3>2. b \notin E /\ b # old
            BY <2>2, <3>1
        <3>3. PICK w \in V : \E j \in 0 .. d[w].size : Ref(h, d, w, j) = b
            BY <3>2 DEF Sound, Covered
        <3>4. PICK j \in 0 .. d[w].size : Ref(h, d, w, j) = b
            BY <3>3
        <3>5. ~ (w = v /\ j = i)
            BY <3>2, <3>4
        <3> QED
            BY <1>8, <3>4, <3>5
    <2> QED
        BY <2>1, <2>2
<1>16. Held(E, p, old) \subseteq DOMAIN h2
    BY <1>1, <1>3 DEF StringOK
<1>17. \A w \in V : \A j \in 1 .. d[w].size :
        TextIn(h2, Ref(h2, d, w, j)) =
            IF w = v /\ j = i THEN TextIn(h, p) ELSE TextIn(h, Ref(h, d, w, j))
    BY <1>5, <1>8, <1>10, <1>11
<1>18. Says(h2, d, v) = [Says(h, d, v) EXCEPT ![i] = TextIn(h, p)]
    BY <1>17 DEF Says
<1>19. \A w \in V \ {v} : Says(h2, d, w) = Says(h, d, w)
    BY <1>17 DEF Says
<1>20. Sound(h2, d, Held(E, p, old))
    BY <1>9, <1>12, <1>14, <1>15, <1>16 DEF Sound
<1> QED
    BY <1>13, <1>18, <1>19, <1>20

-----------------------------------------------------------------------------
(* Steps that change the fields of a vector. *)

\* There is room after the n elements of v.
HasRoom(d, v, n) == d[v].data # Null /\ n = d[v].size /\ n < d[v].capacity /\ n < MaxSize

\* An element without a buffer is appended, where there is room for it.
LEMMA Grown ==
    ASSUME NEW h, NEW d, NEW E, Sound(h, d, E), NEW v \in V,
           NEW n \in Nat, HasRoom(d, v, n),
           NEW h2, SlotWritten(h, h2, d, v, n + 1, Null),
           NEW d2, d2 = Resized(d, v, n + 1)
    PROVE  /\ Sound(h2, d2, E)
           /\ Says(h2, d2, v) = Longer(Says(h, d, v), n, Empty)
           /\ \A w \in V \ {v} : Says(h2, d2, w) = Says(h, d, w)
<1> USE DEF SlotWritten, Resized, Longer, Shorter, Held, HasRoom
<1> DEFINE D == d[v].data
<1>0. d \in [V -> VectorFields] /\ MaxSize \in Nat
    BY SizesAssumption DEF Sound, SizesAssumption
<1>1. /\ \A w \in V : d[w].size \in Nat /\ d[w].capacity \in Nat /\ d[w].data \in Nat
      /\ n \in Nat /\ n + 1 \in 0 .. MaxSize
    BY <1>0 DEF VectorFields
<1>2. /\ d2 \in [V -> VectorFields] /\ \A w \in V \ {v} : d2[w] = d[w]
      /\ d2[v].size = n + 1 /\ d2[v].data = D /\ d2[v].capacity = d[v].capacity
    BY <1>0, <1>1 DEF VectorFields
<1>3. /\ D \in DOMAIN h /\ D \notin E /\ \A w \in V \ {v} : d[w].data # D
      /\ \A w \in V : \A j \in 1 .. d[w].size : Ref(h, d, w, j) # D
    BY BufferIsOwn
<1>4. /\ h[D] \in [1 .. d[v].capacity -> Nat \cup {Raw}]
      /\ \A j \in 1 .. d[v].capacity : h[D][j] = Raw <=> j > n
    BY <1>3 DEF Sound, BufferOK
<1>5. /\ h2[D] \in [1 .. d[v].capacity -> Nat \cup {Raw}]
      /\ h2[D][n + 1] = Null /\ \A j \in 1 .. d[v].capacity \ {n + 1} : h2[D][j] = h[D][j]
    BY <1>1, <1>3, <1>4 DEF Null
<1>6. Null # Raw
    BY NamesAssumption DEF NamesAssumption, Null
<1>7. \A w \in V : \A j \in 0 .. d2[w].size :
        /\ w = v /\ j = n + 1 => Ref(h2, d2, w, j) = Null
        /\ ~ (w = v /\ j = n + 1) =>
                j \in 0 .. d[w].size /\ Ref(h2, d2, w, j) = Ref(h, d, w, j)
    <2> TAKE w \in V
    <2> TAKE j \in 0 .. d2[w].size
    <2>1. CASE w = v /\ j # 0
        <3>1. j \in 1 .. d[v].capacity /\ (j # n + 1 => j \in 0 .. d[v].size)
            BY <1>1, <1>2, <2>1
        <3>2. d2[w].data = D /\ d[w].data = D /\ j # 0
            BY <1>2, <2>1
        <3>3. Ref(h2, d2, w, j) = h2[D][j] /\ Ref(h, d, w, j) = h[D][j]
            BY ONLY <3>2 DEF Ref
        <3> QED
            BY ONLY <1>5, <2>1, <3>1, <3>3
    <2>2. CASE w # v /\ j # 0
        <3>1. j \in 0 .. d[w].size
            BY <1>2, <2>2
        <3>2. d[w].data # D /\ d[w].data \in DOMAIN h
            BY <1>3, <2>2, <3>1, RefIs
        <3> QED
            BY <1>2, <2>2, <3>1, <3>2 DEF Ref
    <2>3. CASE j = 0
        <3>1. d2[w].data = d[w].data /\ 0 \in 0 .. d[w].size /\ j # n + 1
            BY <1>1, <1>2, <2>3
        <3> QED
            BY <2>3, <3>1 DEF Ref
    <2> QED
        BY <2>1, <2>2, <2>3
<1>8. \A w \in V : \A j \in 0 .. d[w].size : j \in 0 .. d2[w].size /\ ~ (w = v /\ j = n + 1)
    BY <1>1, <1>2
<1>9. \A w \in V : BufferOK(h2, d2, w)
    <2> TAKE w \in V
    <2>1. BufferOK(h, d, w)
        BY DEF Sound
    <2>2. CASE w = v
        <3>1. \A j \in 1 .. d[v].capacity : h2[D][j] = Raw <=> j > n + 1
            BY <1>1, <1>4, <1>5, <1>6
        <3>2. n + 1 <= d[v].capacity
            BY <1>1
        <3>3. /\ d2[v].size = n + 1 /\ d2[v].data = D /\ d2[v].capacity = d[v].capacity
              /\ n + 1 \in Nat /\ d[v].capacity \in Nat /\ D \in DOMAIN h2
            BY <1>1, <1>2, <1>3
        <3>4. D # Null
            OBVIOUS
        <3> HIDE DEF D
        <3> QED
            BY <1>5, <2>2, <3>1, <3>2, <3>3, <3>4 DEF BufferOK
    <2>3. CASE w # v
        BY <1>2, <1>3, <2>1, <2>3 DEF BufferOK
    <2> QED
        BY <2>2, <2>3
<1>10. \A q : StringOK(h, q) /\ q # D => StringOK(h2, q) /\ TextIn(h2, q) = TextIn(h, q)
    BY DEF StringOK, TextIn
<1>11. \A w \in V : \A j \in 1 .. d2[w].size :
        /\ j \in 0 .. d2[w].size
        /\ ~ (w = v /\ j = n + 1) =>
            /\ j \in 1 .. d[w].size /\ StringOK(h, Ref(h, d, w, j)) /\ Ref(h, d, w, j) # D
    <2> TAKE w \in V
    <2> TAKE j \in 1 .. d2[w].size
    <2>1. j \in 0 .. d2[w].size /\ (~ (w = v /\ j = n + 1) => j \in 1 .. d[w].size)
        BY <1>1, <1>2
    <2> QED
        BY <1>3, <2>1 DEF Sound, StringsOK
<1>12. \A w \in V : StringsOK(h2, d2, w)
    <2> SUFFICES ASSUME NEW w \in V, NEW j \in 1 .. d2[w].size
                 PROVE  StringOK(h2, Ref(h2, d2, w, j))
        BY DEF StringsOK
    <2>1. CASE w = v /\ j = n + 1
        <3>1. Ref(h2, d2, w, j) = Null
            BY <1>7, <1>11, <2>1
        <3> QED
            BY <3>1 DEF StringOK
    <2>2. CASE ~ (w = v /\ j = n + 1)
        <3>1. /\ Ref(h2, d2, w, j) = Ref(h, d, w, j)
              /\ StringOK(h, Ref(h, d, w, j)) /\ Ref(h, d, w, j) # D
            BY <1>7, <1>11, <2>2
        <3> QED
            BY <1>10, <3>1
    <2> QED
        BY <2>1, <2>2
<1>13. Apart(h2, d2, E)
    <2>1. Null \notin E
        BY DEF Sound, Null
    <2>2. \A w, x \in V : \A j \in 0 .. d2[w].size, k \in 0 .. d2[x].size :
            Ref(h2, d2, w, j) = Ref(h2, d2, x, k) /\ Ref(h2, d2, w, j) # Null => w = x /\ j = k
        BY <1>7 DEF Sound, Apart
    <2>3. \A w \in V : \A j \in 0 .. d2[w].size : Ref(h2, d2, w, j) \notin E
        <3>1. \A w \in V : \A j \in 0 .. d[w].size : Ref(h, d, w, j) \notin E
            BY DEF Sound, Apart
        <3> QED
            BY ONLY <1>7, <2>1, <3>1
    <2> QED
        BY <2>2, <2>3 DEF Apart
<1>14. Covered(h2, d2, E)
    <2> SUFFICES ASSUME NEW b \in DOMAIN h, b \notin E
                 PROVE  \E w \in V : \E j \in 0 .. d2[w].size : Ref(h2, d2, w, j) = b
        BY DEF Covered
    <2>1. PICK w \in V : \E j \in 0 .. d[w].size : Ref(h, d, w, j) = b
        BY DEF Sound, Covered
    <2>2. PICK j \in 0 .. d[w].size : Ref(h, d, w, j) = b
        BY <2>1
    <2>3. j \in 0 .. d2[w].size /\ Ref(h2, d2, w, j) = b
        BY <1>7, <1>8, <2>2
    <2> QED
        BY <2>3
<1>15. Says(h2, d2, v) = Longer(Says(h, d, v), n, Empty)
    <2>1. \A j \in 1 .. n + 1 : TextIn(h2, Ref(h2, d2, v, j)) =
                IF j = n + 1 THEN Empty ELSE Says(h, d, v)[j]
        <3> TAKE j \in 1 .. n + 1
        <3>1. CASE j = n + 1
            <4>1. j \in 0 .. d2[v].size
                BY <1>1, <1>2
            <4>2. Ref(h2, d2, v, j) = Null
                BY <1>7, <3>1, <4>1
            <4>3. TextIn(h2, Null) = Empty
                BY DEF TextIn
            <4> QED
                BY <3>1, <4>2, <4>3
        <3>2. CASE j # n + 1
            <4>1. PICK q : q = Ref(h, d, v, j)
                OBVIOUS
            <4>2. j \in 0 .. d2[v].size /\ j \in 1 .. d[v].size /\ StringOK(h, q) /\ q # D
                BY <1>2, <1>11, <3>2, <4>1
            <4>3. Ref(h2, d2, v, j) = q
                BY <1>7, <3>2, <4>1, <4>2
            <4>4. TextIn(h2, q) = TextIn(h, q)
                BY ONLY <1>10, <4>2
            <4>5. Says(h, d, v)[j] = TextIn(h, q)
                BY ONLY <4>1, <4>2 DEF Says
            <4> QED
                BY ONLY <3>2, <4>3, <4>4, <4>5
        <3> QED
            BY <3>1, <3>2
    <2> QED
        BY <1>2, <2>1 DEF Says
<1>16. \A w \in V \ {v} : Says(h2, d2, w) = Says(h, d, w)
    <2> TAKE w \in V \ {v}
    <2>1. d2[w].size = d[w].size
        BY <1>2
    <2>2. \A j \in 1 .. d[w].size : TextIn(h2, Ref(h2, d2, w, j)) = TextIn(h, Ref(h, d, w, j))
        <3> TAKE j \in 1 .. d[w].size
        <3>1. PICK q : q = Ref(h, d, w, j)
            OBVIOUS
        <3>2. j \in 0 .. d2[w].size /\ StringOK(h, q) /\ q # D
            BY <1>11, <2>1, <3>1
        <3>3. Ref(h2, d2, w, j) = q
            BY <1>7, <3>1, <3>2
        <3>4. TextIn(h2, q) = TextIn(h, q)
            BY ONLY <1>10, <3>2
        <3> QED
            BY ONLY <3>1, <3>3, <3>4
    <2> QED
        BY <2>1, <2>2 DEF Says
<1> QED
    BY <1>2, <1>9, <1>12, <1>13, <1>14, <1>15, <1>16 DEF Sound

\* The pointer p, which the operation holds, is appended.
LEMMA Attached ==
    ASSUME NEW h, NEW d, NEW E, Sound(h, d, E), NEW v \in V,
           NEW n \in Nat, HasRoom(d, v, n),
           NEW p, p = Null \/ p \in E, StringOK(h, p),
           NEW h2, SlotWritten(h, h2, d, v, n + 1, p),
           NEW d2, d2 = Resized(d, v, n + 1)
    PROVE  /\ Sound(h2, d2, E \ {p})
           /\ Says(h2, d2, v) = Longer(Says(h, d, v), n, TextIn(h, p))
           /\ \A w \in V \ {v} : Says(h2, d2, w) = Says(h, d, w)
<1> DEFINE D == d[v].data
           g == [c \in DOMAIN h |-> IF c = D THEN [h[D] EXCEPT ![n + 1] = Null] ELSE h[c]]
<1>1. D \in DOMAIN h /\ D # Null /\ D \notin E
    BY BufferIsOwn DEF HasRoom
<1>2. /\ DOMAIN g = DOMAIN h /\ \A c \in DOMAIN h \ {D} : g[c] = h[c]
      /\ g[D] = [h[D] EXCEPT ![n + 1] = Null]
    BY <1>1
<1>3. d \in [V -> VectorFields] /\ MaxSize \in Nat /\ n \in Nat
      /\ n = d[v].size /\ n < d[v].capacity
    BY SizesAssumption DEF Sound, SizesAssumption, VectorFields, HasRoom
<1>4. /\ d2 \in [V -> [data : Nat, size : Nat, capacity : Nat]]
      /\ d2[v].size = n + 1 /\ d2[v].data = D
    BY <1>3 DEF VectorFields, Resized
<1>5. h[D] \in [1 .. d[v].capacity -> Nat \cup {Raw}] /\ d[v].capacity \in Nat
    BY <1>1 DEF Sound, BufferOK
<1> HIDE DEF g, D
<1>6. /\ Sound(g, d2, E)
      /\ Says(g, d2, v) = Longer(Says(h, d, v), n, Empty)
      /\ \A w \in V \ {v} : Says(g, d2, w) = Says(h, d, w)
    <2>1. SlotWritten(h, g, d, v, n + 1, Null)
        BY <1>2 DEF D, SlotWritten
    <2> QED
        BY ONLY <2>1, Grown, Sound(h, d, E), v \in V, HasRoom(d, v, n), n \in Nat,
           d2 = Resized(d, v, n + 1)
<1>7. StringOK(g, p) /\ TextIn(g, p) = TextIn(h, p)
    <2>1. p # D
        BY <1>1
    <2> QED
        BY <1>2, <2>1 DEF StringOK, TextIn
<1>8. Ref(g, d2, v, n + 1) = Null
    <2>1. n + 1 \in 1 .. d[v].capacity /\ n + 1 # 0
        BY <1>3, <1>5
    <2>2. g[D][n + 1] = Null
        BY <1>2, <1>5, <2>1
    <2> QED
        BY <1>4, <2>1, <2>2 DEF Ref
<1>9. /\ DOMAIN h2 = DOMAIN g /\ \A c \in DOMAIN g \ {D} : h2[c] = g[c]
      /\ h2[D] = [g[D] EXCEPT ![n + 1] = p]
    <2>1. [h[D] EXCEPT ![n + 1] = p] = [[h[D] EXCEPT ![n + 1] = Null] EXCEPT ![n + 1] = p]
        BY <1>5
    <2>2. h2[D] = [h[D] EXCEPT ![n + 1] = p]
        BY DEF D, SlotWritten
    <2>3. DOMAIN h2 = DOMAIN h /\ \A c \in DOMAIN h \ {D} : h2[c] = h[c]
        BY DEF D, SlotWritten
    <2> QED
        BY <1>2, <2>1, <2>2, <2>3
<1>10. n + 1 \in 1 .. d2[v].size
    BY <1>3, <1>4
<1> DEFINE F == Held(E, p, Null)
           s == Says(g, d2, v)
<1>11. /\ Sound(h2, d2, F)
       /\ Says(h2, d2, v) = [Says(g, d2, v) EXCEPT ![n + 1] = TextIn(g, p)]
       /\ \A w \in V \ {v} : Says(h2, d2, w) = Says(g, d2, w)
    <2>1. SlotWritten(g, h2, d2, v, n + 1, p)
        BY <1>4, <1>9 DEF SlotWritten
    <2>2. Sound(g, d2, E) /\ StringOK(g, p) /\ Null = Ref(g, d2, v, n + 1)
        BY <1>6, <1>7, <1>8
    <2> QED
        BY ONLY <1>10, <2>1, <2>2, SlotSet, v \in V, p = Null \/ p \in E
<1>12. F = E \ {p}
    BY DEF Held
<1>13. Says(h2, d2, v) = Longer(Says(h, d, v), n, TextIn(h, p))
    BY <1>3, <1>6, <1>7, <1>11 DEF Longer
<1> QED
    BY <1>6, <1>11, <1>12, <1>13

\* The last element, which has no buffer, is destroyed.
LEMMA Shrunk ==
    ASSUME NEW h, NEW d, NEW E, Sound(h, d, E), NEW v \in V,
           NEW n \in Nat, n = d[v].size, n # 0, Ref(h, d, v, n) = Null,
           NEW h2, SlotWritten(h, h2, d, v, n, Raw),
           NEW d2, d2 = Resized(d, v, n - 1)
    PROVE  /\ Sound(h2, d2, E)
           /\ Says(h2, d2, v) = Shorter(Says(h, d, v), n)
           /\ \A w \in V \ {v} : Says(h2, d2, w) = Says(h, d, w)
<1> USE DEF SlotWritten, Resized, Longer, Shorter, Held, HasRoom
<1> DEFINE D == d[v].data
<1>0. d \in [V -> VectorFields] /\ MaxSize \in Nat
    BY SizesAssumption DEF Sound, SizesAssumption
<1>1. /\ \A w \in V : d[w].size \in Nat /\ d[w].capacity \in Nat /\ d[w].data \in Nat
      /\ n \in Nat /\ n - 1 \in 0 .. MaxSize
    BY <1>0 DEF VectorFields
<1>2. /\ d2 \in [V -> VectorFields] /\ \A w \in V \ {v} : d2[w] = d[w]
      /\ d2[v].size = n - 1 /\ d2[v].data = D /\ d2[v].capacity = d[v].capacity
    BY <1>0, <1>1 DEF VectorFields
<1>3. D # Null
    <2>1. n \in 0 .. d[v].size
        BY <1>1
    <2> QED
        BY <2>1, RefIs
<1>4. /\ D \in DOMAIN h /\ D \notin E /\ \A w \in V \ {v} : d[w].data # D
      /\ \A w \in V : \A j \in 1 .. d[w].size : Ref(h, d, w, j) # D
    BY <1>3, BufferIsOwn
<1>5. /\ h[D] \in [1 .. d[v].capacity -> Nat \cup {Raw}] /\ n <= d[v].capacity
      /\ \A j \in 1 .. d[v].capacity : h[D][j] = Raw <=> j > n
    BY <1>3 DEF Sound, BufferOK
<1>6. /\ h2[D] \in [1 .. d[v].capacity -> Nat \cup {Raw}]
      /\ h2[D][n] = Raw /\ \A j \in 1 .. d[v].capacity \ {n} : h2[D][j] = h[D][j]
    BY <1>1, <1>4, <1>5
<1>7. \A w \in V : \A j \in 0 .. d2[w].size :
        j \in 0 .. d[w].size /\ Ref(h2, d2, w, j) = Ref(h, d, w, j)
    <2> TAKE w \in V
    <2> TAKE j \in 0 .. d2[w].size
    <2>1. CASE w = v /\ j # 0
        <3>1. j \in 1 .. d[v].capacity /\ j # n /\ j \in 0 .. d[v].size
            BY <1>1, <1>2, <1>5, <2>1
        <3> QED
            BY <1>2, <1>6, <2>1, <3>1 DEF Ref
    <2>2. CASE w # v /\ j # 0
        <3>1. j \in 0 .. d[w].size
            BY <1>2, <2>2
        <3>2. d[w].data # D /\ d[w].data \in DOMAIN h
            BY <1>4, <2>2, <3>1, RefIs
        <3> QED
            BY <1>2, <2>2, <3>1, <3>2 DEF Ref
    <2>3. CASE j = 0
        <3>1. d2[w].data = d[w].data /\ 0 \in 0 .. d[w].size
            BY <1>1, <1>2
        <3> QED
            BY <2>3, <3>1 DEF Ref
    <2> QED
        BY <2>1, <2>2, <2>3
<1>8. \A w \in V : \A j \in 0 .. d[w].size : ~ (w = v /\ j = n) => j \in 0 .. d2[w].size
    BY <1>1, <1>2
<1>9. \A w \in V : BufferOK(h2, d2, w)
    <2> TAKE w \in V
    <2>1. BufferOK(h, d, w)
        BY DEF Sound
    <2>2. CASE w = v
        <3>1. \A j \in 1 .. d[v].capacity : h2[D][j] = Raw <=> j > n - 1
            BY <1>1, <1>5, <1>6
        <3>2. n - 1 <= d[v].capacity
            BY <1>1, <1>5
        <3>3. /\ d2[v].size = n - 1 /\ d2[v].data = D /\ d2[v].capacity = d[v].capacity
              /\ n - 1 \in Nat /\ d[v].capacity \in Nat /\ D \in DOMAIN h2
            BY <1>1, <1>2, <1>4
        <3> HIDE DEF D
        <3> QED
            BY <1>3, <1>6, <2>2, <3>1, <3>2, <3>3 DEF BufferOK
    <2>3. CASE w # v
        BY <1>2, <1>4, <2>1, <2>3 DEF BufferOK
    <2> QED
        BY <2>2, <2>3
<1>10. \A q : StringOK(h, q) /\ q # D => StringOK(h2, q) /\ TextIn(h2, q) = TextIn(h, q)
    BY DEF StringOK, TextIn
<1>11. \A w \in V : \A j \in 1 .. d2[w].size :
        /\ j \in 0 .. d2[w].size /\ j \in 1 .. d[w].size
        /\ StringOK(h, Ref(h, d, w, j)) /\ Ref(h, d, w, j) # D
    <2> TAKE w \in V
    <2> TAKE j \in 1 .. d2[w].size
    <2>1. j \in 0 .. d2[w].size /\ j \in 1 .. d[w].size
        BY <1>1, <1>2
    <2> QED
        BY <1>4, <2>1 DEF Sound, StringsOK
<1>12. \A w \in V : StringsOK(h2, d2, w)
    <2> SUFFICES ASSUME NEW w \in V, NEW j \in 1 .. d2[w].size
                 PROVE  StringOK(h2, Ref(h2, d2, w, j))
        BY DEF StringsOK
    <2>1. PICK q : q = Ref(h, d, w, j)
        OBVIOUS
    <2>2. j \in 0 .. d2[w].size /\ StringOK(h, q) /\ q # D
        BY <1>11, <2>1
    <2>3. Ref(h2, d2, w, j) = q
        BY ONLY <1>7, <2>1, <2>2, w \in V
    <2>4. StringOK(h2, q)
        BY ONLY <1>10, <2>2
    <2> QED
        BY ONLY <2>3, <2>4
<1>13. Apart(h2, d2, E)
    <2>1. \A w, x \in V : \A j \in 0 .. d2[w].size, k \in 0 .. d2[x].size :
            Ref(h2, d2, w, j) = Ref(h2, d2, x, k) /\ Ref(h2, d2, w, j) # Null => w = x /\ j = k
        BY <1>7 DEF Sound, Apart
    <2>2. \A w \in V : \A j \in 0 .. d2[w].size : Ref(h2, d2, w, j) \notin E
        <3>1. \A w \in V : \A j \in 0 .. d[w].size : Ref(h, d, w, j) \notin E
            BY DEF Sound, Apart
        <3> QED
            BY ONLY <1>7, <3>1
    <2> QED
        BY <2>1, <2>2 DEF Apart
<1>14. Covered(h2, d2, E)
    <2> SUFFICES ASSUME NEW b \in DOMAIN h, b \notin E
                 PROVE  \E w \in V : \E j \in 0 .. d2[w].size : Ref(h2, d2, w, j) = b
        BY DEF Covered
    <2>1. PICK w \in V : \E j \in 0 .. d[w].size : Ref(h, d, w, j) = b
        BY DEF Sound, Covered
    <2>2. PICK j \in 0 .. d[w].size : Ref(h, d, w, j) = b
        BY <2>1
    <2>3. ~ (w = v /\ j = n)
        BY <2>2 DEF Sound, Null
    <2>4. j \in 0 .. d2[w].size /\ Ref(h2, d2, w, j) = b
        BY <1>7, <1>8, <2>2, <2>3
    <2> QED
        BY <2>4
<1>15. Says(h2, d2, v) = Shorter(Says(h, d, v), n)
    <2>1. \A j \in 1 .. n - 1 : TextIn(h2, Ref(h2, d2, v, j)) = Says(h, d, v)[j]
        <3> TAKE j \in 1 .. n - 1
        <3>1. PICK q : q = Ref(h, d, v, j)
            OBVIOUS
        <3>2. j \in 0 .. d2[v].size /\ j \in 1 .. d[v].size /\ StringOK(h, q) /\ q # D
            BY <1>2, <1>11, <3>1
        <3>3. Ref(h2, d2, v, j) = q
            BY <1>7, <3>1, <3>2
        <3>4. TextIn(h2, q) = TextIn(h, q)
            BY ONLY <1>10, <3>2
        <3>5. Says(h, d, v)[j] = TextIn(h, q)
            BY ONLY <3>1, <3>2 DEF Says
        <3> QED
            BY ONLY <3>3, <3>4, <3>5
    <2> QED
        BY <1>2, <2>1 DEF Says
<1>16. \A w \in V \ {v} : Says(h2, d2, w) = Says(h, d, w)
    <2> TAKE w \in V \ {v}
    <2>1. d2[w].size = d[w].size
        BY <1>2
    <2>2. \A j \in 1 .. d[w].size : TextIn(h2, Ref(h2, d2, w, j)) = TextIn(h, Ref(h, d, w, j))
        <3> TAKE j \in 1 .. d[w].size
        <3>1. PICK q : q = Ref(h, d, w, j)
            OBVIOUS
        <3>2. j \in 0 .. d2[w].size /\ StringOK(h, q) /\ q # D
            BY <1>11, <2>1, <3>1
        <3>3. Ref(h2, d2, w, j) = q
            BY <1>7, <3>1, <3>2
        <3>4. TextIn(h2, q) = TextIn(h, q)
            BY ONLY <1>10, <3>2
        <3> QED
            BY ONLY <3>1, <3>3, <3>4
    <2> QED
        BY <2>1, <2>2 DEF Says
<1> QED
    BY <1>2, <1>9, <1>12, <1>13, <1>14, <1>15, <1>16 DEF Sound

\* The last element is destroyed, and the operation holds its pointer.
LEMMA Detached ==
    ASSUME NEW h, NEW d, NEW E, Sound(h, d, E), NEW v \in V,
           NEW n \in Nat, n = d[v].size, n # 0, NEW old, old = Ref(h, d, v, n),
           NEW h2, SlotWritten(h, h2, d, v, n, Raw),
           NEW d2, d2 = Resized(d, v, n - 1)
    PROVE  /\ Sound(h2, d2, E \cup ({old} \ {Null}))
           /\ Says(h2, d2, v) = Shorter(Says(h, d, v), n)
           /\ \A w \in V \ {v} : Says(h2, d2, w) = Says(h, d, w)
<1> DEFINE D == d[v].data
           g == [c \in DOMAIN h |-> IF c = D THEN [h[D] EXCEPT ![n] = Null] ELSE h[c]]
<1>1. d \in [V -> VectorFields] /\ MaxSize \in Nat /\ n \in Nat /\ n \in 1 .. d[v].size
    BY SizesAssumption DEF Sound, SizesAssumption, VectorFields
<1>2. D \in DOMAIN h /\ D # Null /\ D \notin E
    <2>1. n \in 0 .. d[v].size
        BY <1>1
    <2>2. D # Null
        BY <2>1, RefIs
    <2> QED
        BY <2>2, BufferIsOwn
<1>3. /\ DOMAIN g = DOMAIN h /\ \A c \in DOMAIN h \ {D} : g[c] = h[c]
      /\ g[D] = [h[D] EXCEPT ![n] = Null]
    BY <1>2
<1>4. /\ h[D] \in [1 .. d[v].capacity -> Nat \cup {Raw}] /\ d[v].capacity \in Nat
      /\ n <= d[v].capacity
    BY <1>2 DEF Sound, BufferOK
<1> HIDE DEF g, D
<1> DEFINE F == Held(E, Null, old)
<1>5. StringOK(h, Null)
    BY DEF StringOK
<1>6. /\ Sound(g, d, F)
      /\ Says(g, d, v) = [Says(h, d, v) EXCEPT ![n] = TextIn(h, Null)]
      /\ \A w \in V \ {v} : Says(g, d, w) = Says(h, d, w)
    <2>1. SlotWritten(h, g, d, v, n, Null)
        BY <1>3 DEF D, SlotWritten
    <2> QED
        BY <1>1, <1>5, <2>1, SlotSet
<1>7. Ref(g, d, v, n) = Null
    <2>1. g[D][n] = Null
        BY <1>1, <1>3, <1>4
    <2> QED
        BY <1>1, <2>1 DEF Ref, D
<1>8. /\ DOMAIN h2 = DOMAIN g /\ \A c \in DOMAIN g \ {D} : h2[c] = g[c]
      /\ h2[D] = [g[D] EXCEPT ![n] = Raw]
    <2>1. [h[D] EXCEPT ![n] = Raw] = [[h[D] EXCEPT ![n] = Null] EXCEPT ![n] = Raw]
        BY <1>4
    <2>2. h2[D] = [h[D] EXCEPT ![n] = Raw]
        BY DEF D, SlotWritten
    <2>3. DOMAIN h2 = DOMAIN h /\ \A c \in DOMAIN h \ {D} : h2[c] = h[c]
        BY DEF D, SlotWritten
    <2> QED
        BY <1>3, <2>1, <2>2, <2>3
<1> HIDE DEF F
<1>9. /\ Sound(h2, d2, F)
      /\ Says(h2, d2, v) = Shorter(Says(g, d, v), n)
      /\ \A w \in V \ {v} : Says(h2, d2, w) = Says(g, d, w)
    <2>1. SlotWritten(g, h2, d, v, n, Raw)
        BY <1>8 DEF D, SlotWritten
    <2>2. Sound(g, d, F) /\ Ref(g, d, v, n) = Null /\ d2 = Resized(d, v, n - 1)
        BY <1>6, <1>7
    <2>3. ASSUME NEW k, NEW P, Sound(k, d, P), Ref(k, d, v, n) = Null,
                 SlotWritten(k, h2, d, v, n, Raw)
          PROVE  /\ Sound(h2, d2, P)
                 /\ Says(h2, d2, v) = Shorter(Says(k, d, v), n)
                 /\ \A w \in V \ {v} : Says(h2, d2, w) = Says(k, d, w)
        BY <2>3, Shrunk
    <2> QED
        BY <2>1, <2>2, <2>3
<1>10. F = E \cup ({old} \ {Null})
    BY DEF F, Held, Sound, Null
<1>11. \A j \in 1 .. n - 1 : Says(g, d, v)[j] = Says(h, d, v)[j]
    <2>1. \A j \in 1 .. n - 1 : j \in 1 .. d[v].size /\ j # n
        BY <1>1
    <2>2. DOMAIN Says(h, d, v) = 1 .. d[v].size
        BY DEF Says
    <2> QED
        BY <1>6, <2>1, <2>2
<1>12. Shorter(Says(g, d, v), n) = Shorter(Says(h, d, v), n)
    BY <1>11 DEF Shorter
<1> QED
    BY <1>6, <1>9, <1>10, <1>12

\* The elements of v, as they move to a buffer of m slots.
Moved(h, d, v, m) == [i \in 1 .. m |-> IF i <= d[v].size THEN h[d[v].data][i] ELSE Raw]

Rebuffer(d, v, b, m) == [d EXCEPT ![v].data = b, ![v].capacity = m]

\* The elements move to the buffer b, or there are none: the operation holds the old one.
LEMMA Rebuffered ==
    ASSUME NEW h, NEW d, NEW E, Sound(h, d, E), NEW v \in V, NEW b, NEW m \in Nat,
           \/ b = Null /\ d[v].size = 0
           \/ b \in E /\ d[v].size <= m /\ h[b] = Moved(h, d, v, m),
           NEW d2, d2 = Rebuffer(d, v, b, m)
    PROVE  /\ Sound(h, d2, Held(E, b, d[v].data))
           /\ \A w \in V : Says(h, d2, w) = Says(h, d, w)
<1> DEFINE D == d[v].data
           F == Held(E, b, D)
<1>0. d \in [V -> VectorFields] /\ MaxSize \in Nat /\ DOMAIN h \subseteq 1 .. NBufs /\ E \subseteq DOMAIN h
    BY SizesAssumption DEF Sound, SizesAssumption
<1>1. /\ \A w \in V : d[w].size \in Nat /\ d[w].capacity \in Nat /\ d[w].data \in Nat
      /\ b \in Nat /\ Null = 0
    BY <1>0 DEF VectorFields, Null
<1>2. /\ d2 \in [V -> VectorFields] /\ \A w \in V \ {v} : d2[w] = d[w]
      /\ d2[v].size = d[v].size /\ d2[v].data = b /\ d2[v].capacity = m
    BY <1>0, <1>1 DEF VectorFields, Rebuffer
<1>3. \A w \in V : d2[w].size = d[w].size /\ 0 \in 0 .. d[w].size
    BY <1>1, <1>2
<1>4. \A j \in 1 .. d[v].size : b \in E /\ j \in 1 .. m /\ h[b][j] = h[D][j]
    BY <1>1 DEF Moved
<1>5. \A w \in V : \A j \in 0 .. d[w].size :
        /\ w = v /\ j = 0 => Ref(h, d2, w, j) = b
        /\ ~ (w = v /\ j = 0) => Ref(h, d2, w, j) = Ref(h, d, w, j)
    <2> TAKE w \in V
    <2> TAKE j \in 0 .. d[w].size
    <2>1. CASE w = v /\ j # 0
        <3>1. j \in 1 .. d[v].size
            BY <1>1, <2>1
        <3> QED
            BY <1>2, <1>4, <2>1, <3>1 DEF Ref
    <2>2. CASE w = v /\ j = 0
        BY <1>2, <2>2 DEF Ref
    <2>3. CASE w # v
        BY <1>2, <2>3 DEF Ref
    <2> QED
        BY <2>1, <2>2, <2>3
<1>6. \A w \in V : \A j \in 1 .. d[w].size : Ref(h, d2, w, j) = Ref(h, d, w, j)
    BY <1>1, <1>5
<1>7. Ref(h, d2, v, 0) = b /\ Ref(h, d, v, 0) = D
    BY <1>2 DEF Ref
<1>8. \A w \in V : BufferOK(h, d2, w)
    <2> TAKE w \in V
    <2>1. BufferOK(h, d, w)
        BY DEF Sound
    <2>2. CASE w # v
        BY <1>2, <2>1, <2>2 DEF BufferOK
    <2>3. CASE w = v /\ b = Null
        BY <1>0, <1>1, <1>2, <2>3 DEF BufferOK
    <2>4. CASE w = v /\ b # Null
        <3>1. b \in E /\ d[v].size <= m /\ h[b] = Moved(h, d, v, m) /\ b \in DOMAIN h
            BY <1>0, <2>4
        <3>2. \A j \in 1 .. d[v].size :
                j \in 1 .. d[v].capacity /\ h[D][j] \in Nat \cup {Raw} /\ h[D][j] # Raw
            <4> TAKE j \in 1 .. d[v].size
            <4>1. j \in 0 .. d[v].size /\ j # 0
                BY <1>1
            <4>2. D # Null /\ j \in 1 .. d[v].capacity
                BY <4>1, RefIs
            <4> QED
                BY <1>1, <2>1, <2>4, <4>2 DEF BufferOK
        <3>3. /\ h[b] \in [1 .. m -> Nat \cup {Raw}]
              /\ \A j \in 1 .. m : h[b][j] = Raw <=> j > d[v].size
            BY <1>1, <3>1, <3>2 DEF Moved
        <3>4. d2[v].size = d[v].size /\ d2[v].data = b /\ d2[v].capacity = m /\ d[v].size \in Nat
            BY <1>1, <1>2
        <3> QED
            BY <2>4, <3>1, <3>3, <3>4 DEF BufferOK
    <2> QED
        BY <2>2, <2>3, <2>4
<1>9. \A w \in V : StringsOK(h, d2, w)
    BY <1>2, <1>3, <1>6 DEF Sound, StringsOK
<1>10. b \notin F \/ b = Null
    <2>1. 0 \in 0 .. d[v].size
        BY <1>1
    <2>2. D \notin E
        BY <1>7, <2>1 DEF Sound, Apart
    <2> QED
        BY <2>2 DEF Held
<1>11. Apart(h, d2, F)
    <2>1. \A w \in V : \A j \in 0 .. d[w].size : Ref(h, d, w, j) \notin E
        BY DEF Sound, Apart
    <2>2. \A w \in V : \A j \in 0 .. d[w].size : Ref(h, d, w, j) = b => b = Null
        BY <2>1
    <2>3. \A w \in V : \A j \in 0 .. d[w].size :
            (w = v /\ j = 0) \/ Ref(h, d, w, j) # D \/ D = Null
        BY <1>3, <1>7 DEF Sound, Apart
    <2>4. \A w, x \in V : \A j \in 0 .. d2[w].size, k \in 0 .. d2[x].size :
            Ref(h, d2, w, j) = Ref(h, d2, x, k) /\ Ref(h, d2, w, j) # Null => w = x /\ j = k
        <3> TAKE w, x \in V
        <3> TAKE j \in 0 .. d2[w].size, k \in 0 .. d2[x].size
        <3>1. j \in 0 .. d[w].size /\ k \in 0 .. d[x].size
            BY <1>3
        <3>2. Ref(h, d, w, j) = Ref(h, d, x, k) /\ Ref(h, d, w, j) # Null => w = x /\ j = k
            BY <3>1 DEF Sound, Apart
        <3> QED
            BY <1>5, <2>2, <3>1, <3>2
    <2>5. \A w \in V : \A j \in 0 .. d2[w].size : Ref(h, d2, w, j) \notin F
        <3> TAKE w \in V
        <3> TAKE j \in 0 .. d2[w].size
        <3>1. j \in 0 .. d[w].size
            BY <1>3
        <3>2. Null \notin F
            BY <1>0, <1>1 DEF Held
        <3>3. CASE w = v /\ j = 0
            BY <1>5, <1>10, <3>1, <3>2, <3>3
        <3>4. CASE ~ (w = v /\ j = 0)
            BY <1>5, <2>1, <2>3, <3>1, <3>2, <3>4 DEF Held
        <3> QED
            BY <3>3, <3>4
    <2> QED
        BY <2>4, <2>5 DEF Apart
<1>12. Covered(h, d2, F)
    <2> SUFFICES ASSUME NEW c \in DOMAIN h, c \notin F
                 PROVE  \E w \in V : \E j \in 0 .. d2[w].size : Ref(h, d2, w, j) = c
        BY DEF Covered
    <2>1. CASE c = b
        BY <1>3, <1>7, <2>1
    <2>2. CASE c # b
        <3>1. c # D /\ c \notin E
            BY <1>0, <1>1, <2>2 DEF Held
        <3>2. PICK w \in V : \E j \in 0 .. d[w].size : Ref(h, d, w, j) = c
            BY <3>1 DEF Sound, Covered
        <3>3. PICK j \in 0 .. d[w].size : Ref(h, d, w, j) = c
            BY <3>2
        <3>4. ~ (w = v /\ j = 0)
            BY <1>7, <3>1, <3>3
        <3> QED
            BY <1>3, <1>5, <3>3, <3>4
    <2> QED
        BY <2>1, <2>2
<1>13. F \subseteq DOMAIN h
    BY <1>0, <1>1 DEF Sound, BufferOK, Held
<1>14. ASSUME NEW w \in V PROVE Says(h, d2, w) = Says(h, d, w)
    BY <1>3, <1>6 DEF Says
<1> QED
    BY <1>0, <1>2, <1>8, <1>9, <1>11, <1>12, <1>13, <1>14 DEF Sound

Exchanges(d, v, w) == [d EXCEPT ![v] = d[w], ![w] = d[v]]

\* Two vectors exchange all they have.
LEMMA Exchanged ==
    ASSUME NEW h, NEW d, NEW E, Sound(h, d, E), NEW v \in V, NEW w \in V,
           NEW d2, d2 = Exchanges(d, v, w)
    PROVE  /\ Sound(h, d2, E)
           /\ Says(h, d2, v) = Says(h, d, w) /\ Says(h, d2, w) = Says(h, d, v)
           /\ \A x \in V \ {v, w} : Says(h, d2, x) = Says(h, d, x)
<1> DEFINE Other(x) == IF x = v THEN w ELSE IF x = w THEN v ELSE x
<1>1. d \in [V -> VectorFields] /\ \A x \in V : 0 \in 0 .. d[x].size
    BY DEF Sound, VectorFields
<1>2. d2 \in [V -> VectorFields] /\ \A x \in V : d2[x] = d[Other(x)]
    BY <1>1 DEF Exchanges
<1>3. /\ \A x \in V : Other(x) \in V /\ Other(Other(x)) = x
      /\ Other(v) = w /\ Other(w) = v /\ \A x \in V \ {v, w} : Other(x) = x
    OBVIOUS
<1> HIDE DEF Other
<1>4. \A x \in V : \A i : Ref(h, d2, x, i) = Ref(h, d, Other(x), i)
    BY <1>2 DEF Ref
<1>5. \A x \in V : BufferOK(h, d2, x) /\ StringsOK(h, d2, x)
    <2> TAKE x \in V
    <2>1. Other(x) \in V /\ d2[x] = d[Other(x)]
        BY <1>2, <1>3
    <2>2. BufferOK(h, d, Other(x)) /\ StringsOK(h, d, Other(x))
        BY <2>1 DEF Sound
    <2>3. BufferOK(h, d2, x)
        BY <2>1, <2>2 DEF BufferOK
    <2>4. StringsOK(h, d2, x)
        BY <1>4, <2>1, <2>2 DEF StringsOK
    <2> QED
        BY <2>3, <2>4
<1>6. Apart(h, d2, E)
    <2>1. \A x, y \in V : \A i \in 0 .. d2[x].size, j \in 0 .. d2[y].size :
            Ref(h, d2, x, i) = Ref(h, d2, y, j) /\ Ref(h, d2, x, i) # Null => x = y /\ i = j
        <3> TAKE x, y \in V
        <3> TAKE i \in 0 .. d2[x].size, j \in 0 .. d2[y].size
        <3>1. /\ Other(x) \in V /\ Other(y) \in V
              /\ i \in 0 .. d[Other(x)].size /\ j \in 0 .. d[Other(y)].size
            BY <1>2, <1>3
        <3>2. (Ref(h, d, Other(x), i) = Ref(h, d, Other(y), j) /\ Ref(h, d, Other(x), i) # Null)
                => Other(x) = Other(y) /\ i = j
            BY <3>1 DEF Sound, Apart
        <3> QED
            BY <1>3, <1>4, <3>2
    <2>2. \A x \in V : \A i \in 0 .. d2[x].size : Ref(h, d2, x, i) \notin E
        BY <1>2, <1>3, <1>4 DEF Sound, Apart
    <2> QED
        BY <2>1, <2>2 DEF Apart
<1>7. Covered(h, d2, E)
    <2> SUFFICES ASSUME NEW b \in DOMAIN h, b \notin E
                 PROVE  \E x \in V : \E j \in 0 .. d2[x].size : Ref(h, d2, x, j) = b
        BY DEF Covered
    <2>1. PICK x \in V : \E j \in 0 .. d[x].size : Ref(h, d, x, j) = b
        BY DEF Sound, Covered
    <2>2. PICK j \in 0 .. d[x].size : Ref(h, d, x, j) = b
        BY <2>1
    <2>3. PICK y \in V : y = Other(x)
        BY <1>3
    <2>4. Other(y) = x
        BY <1>3, <2>3
    <2>5. j \in 0 .. d2[y].size /\ Ref(h, d2, y, j) = b
        BY <1>2, <1>4, <2>2, <2>4
    <2> QED
        BY <2>5
<1>8. \A x \in V : Says(h, d2, x) = Says(h, d, Other(x))
    BY <1>2, <1>4 DEF Says
<1> QED
    BY <1>2, <1>3, <1>5, <1>6, <1>7, <1>8 DEF Sound

-----------------------------------------------------------------------------
(* The steps of the operations, on the state they give to each other. *)

IsState(s) ==
    s = [heap |-> s.heap, vec |-> s.vec, halted |-> s.halted, misused |-> s.misused, made |-> s.made]

\* Nothing was misused, and the operation holds the buffers of E.
Good(s, E) == IsState(s) /\ s.misused = FALSE /\ s.halted \in BOOLEAN /\ Sound(s.heap, s.vec, E)

Reads(s, v) == Says(s.heap, s.vec, v)

\* All vectors say what they said.
Alike(s, r) == \A w \in V : Reads(r, w) = Reads(s, w)

\* The other vectors are what they were.
Others(s, r, v) == \A w \in V \ {v} : r.vec[w] = s.vec[w] /\ Reads(r, w) = Reads(s, w)

\* Two states differ in the heap alone, and there in what b is.
Kept(s, r) == r.vec = s.vec /\ r.halted = s.halted /\ r.made = s.made

Agree(s, r, b) == \A c \in DOMAIN s.heap : c # b => c \in DOMAIN r.heap /\ r.heap[c] = s.heap[c]

LEMMA Typed ==
    ASSUME NEW s, NEW E, Good(s, E), NEW v \in V
    PROVE  /\ s.vec[v].size \in 0 .. MaxSize /\ s.vec[v].size \in Nat
           /\ s.vec[v].capacity \in Nat /\ s.vec[v].data \in Nat
           /\ s.vec \in [V -> VectorFields] /\ Null \notin E /\ E \subseteq DOMAIN s.heap
           /\ s.vec[v].data # Null => s.vec[v].size <= s.vec[v].capacity
           /\ s.vec[v].data = Null => s.vec[v].size = 0
           /\ s.vec[v].data \in {Null} \cup DOMAIN s.heap
           /\ MaxSize \in Nat
<1>1. MaxSize \in Nat
    BY SizesAssumption DEF SizesAssumption
<1>2. s.vec \in [V -> VectorFields] /\ BufferOK(s.heap, s.vec, v) /\ E \subseteq DOMAIN s.heap
    BY DEF Good, Sound
<1>3. Null \notin E
    BY DEF Good, Sound, Null
<1> QED
    BY <1>1, <1>2, <1>3 DEF VectorFields, BufferOK

LEMMA FreshIs ==
    ASSUME NEW s
    PROVE  Fresh(s) = Null \/ (Fresh(s) \in 1 .. NBufs /\ Fresh(s) \notin DOMAIN s.heap)
<1> DEFINE free == (1 .. NBufs) \ DOMAIN s.heap
<1>1. CASE free = {}
    BY <1>1 DEF Fresh
<1>2. CASE free # {}
    <2>1. free \in SUBSET Nat
        BY SizesAssumption DEF SizesAssumption
    <2>2. \E b \in free : \A c \in free : b <= c
        <3> HIDE DEF free
        <3> QED
            BY <1>2, <2>1, LeastNumber
    <2> QED
        BY <1>2, <2>2 DEF Fresh
<1> QED
    BY <1>1, <1>2

LEMMA PutDone ==
    ASSUME NEW s, NEW E, Good(s, E), NEW b \in 1 .. NBufs, b \notin DOMAIN s.heap, NEW what,
           NEW r, r = Put(s, b, what)
    PROVE  /\ Good(r, E \cup {b}) /\ Alike(s, r)
           /\ r.vec = s.vec /\ r.halted = s.halted /\ r.made = s.made
           /\ DOMAIN r.heap = DOMAIN s.heap \cup {b} /\ r.heap[b] = what
           /\ \A c \in DOMAIN s.heap : r.heap[c] = s.heap[c]
<1>1. /\ IsState(r) /\ r.misused = s.misused
      /\ r.vec = s.vec /\ r.halted = s.halted /\ r.made = s.made
      /\ DOMAIN r.heap = DOMAIN s.heap \cup {b} /\ r.heap[b] = what
      /\ \A c \in DOMAIN s.heap : r.heap[c] = s.heap[c]
    BY DEF Put, IsState, Good
<1>2. Sound(s.heap, s.vec, E)
    BY DEF Good
<1>3. /\ Sound(r.heap, s.vec, E \cup {b})
      /\ \A v \in V : Says(r.heap, s.vec, v) = Says(s.heap, s.vec, v)
    BY <1>1, <1>2, Allocated
<1> QED
    BY <1>1, <1>3 DEF Good, Alike, Reads

LEMMA DeleteDone ==
    ASSUME NEW s, NEW E, Good(s, E), NEW b, b = Null \/ b \in E, NEW r, r = Delete(s, b)
    PROVE  Good(r, E \ {b}) /\ Alike(s, r) /\ Kept(s, r) /\ Agree(s, r, b)
<1>1. Null \notin E /\ E \subseteq DOMAIN s.heap /\ Null \notin DOMAIN s.heap
    BY DEF Good, Sound, Null
<1>2. CASE b = Null
    BY <1>1, <1>2 DEF Delete, Alike, Kept, Agree
<1>3. CASE b # Null
    <2>1. b \in E /\ b \in DOMAIN s.heap
        BY <1>1, <1>3
    <2>2. r = [s EXCEPT !.heap = Restrict(s.heap, DOMAIN s.heap \ {b})]
        BY <1>3, <2>1 DEF Delete, Good, IsState
    <2>3. /\ IsState(r) /\ r.misused = s.misused
          /\ r.vec = s.vec /\ r.halted = s.halted /\ r.made = s.made
          /\ DOMAIN r.heap = DOMAIN s.heap \ {b}
          /\ \A c \in DOMAIN r.heap : r.heap[c] = s.heap[c]
        BY <2>2 DEF IsState, Good, Restrict
    <2>4. Sound(s.heap, s.vec, E)
        BY DEF Good
    <2>5. /\ Sound(r.heap, s.vec, E \ {b})
          /\ \A v \in V : Says(r.heap, s.vec, v) = Says(s.heap, s.vec, v)
        <3>1. ASSUME NEW h, NEW d, NEW h2, Sound(h, d, E), DOMAIN h2 = DOMAIN h \ {b},
                     \A c \in DOMAIN h2 : h2[c] = h[c]
              PROVE  Sound(h2, d, E \ {b}) /\ \A v \in V : Says(h2, d, v) = Says(h, d, v)
            BY <2>1, <3>1, Disposed
        <3>2. PICK h, d, h2 : h = s.heap /\ d = s.vec /\ h2 = r.heap
            OBVIOUS
        <3>3. Sound(h, d, E) /\ DOMAIN h2 = DOMAIN h \ {b} /\ \A c \in DOMAIN h2 : h2[c] = h[c]
            BY ONLY <2>3, <2>4, <3>2
        <3>4. Sound(h2, d, E \ {b}) /\ \A v \in V : Says(h2, d, v) = Says(h, d, v)
            BY ONLY <3>1, <3>3
        <3> QED
            BY ONLY <3>2, <3>4
    <2> QED
        BY <2>3, <2>5 DEF Good, Alike, Reads, Kept, Agree
<1> QED
    BY <1>2, <1>3

LEMMA SetSlotDone ==
    ASSUME NEW s, IsState(s), NEW v, NEW i, NEW p, s.vec[v].data \in DOMAIN s.heap,
           NEW r, r = SetSlot(s, v, i, p)
    PROVE  /\ IsState(r) /\ r.vec = s.vec /\ r.halted = s.halted /\ r.made = s.made
           /\ r.misused = s.misused /\ SlotWritten(s.heap, r.heap, s.vec, v, i, p)
<1>1. r = [s EXCEPT !.heap = [s.heap EXCEPT ![s.vec[v].data] = [s.heap[s.vec[v].data] EXCEPT ![i] = p]]]
    BY DEF SetSlot, IsState
<1> QED
    BY <1>1 DEF IsState, SlotWritten

LEMMA MakeStringDone ==
    ASSUME NEW s, Good(s, {}), ~s.halted, NEW t \in Texts, NEW r, r = MakeString(s, t)
    PROVE  /\ Alike(s, r) /\ r.vec = s.vec
           /\ r.halted => Good(r, {})
           /\ ~r.halted => /\ Good(r, {r.made} \ {Null}) /\ StringOK(r.heap, r.made)
                           /\ TextIn(r.heap, r.made) = t
<1>1. CASE t = Empty
    <2>1. r = [s EXCEPT !.made = Null]
        BY <1>1 DEF MakeString
    <2>2. /\ IsState(r) /\ r.heap = s.heap /\ r.vec = s.vec /\ r.halted = s.halted
          /\ r.misused = s.misused /\ r.made = Null
        BY <2>1 DEF Good, IsState
    <2>3. {r.made} \ {Null} = {}
        BY <2>2
    <2>4. Good(r, {})
        BY <2>2 DEF Good
    <2> QED
        BY <1>1, <2>2, <2>3, <2>4 DEF Alike, Reads, StringOK, TextIn
<1>2. CASE t # Empty /\ Fresh(s) = Null
    <2>1. r = [s EXCEPT !.halted = TRUE]
        BY <1>2 DEF MakeString, Halt
    <2>2. /\ IsState(r) /\ r.heap = s.heap /\ r.vec = s.vec /\ r.halted = TRUE
          /\ r.misused = s.misused
        BY <2>1 DEF Good, IsState
    <2> QED
        BY <2>2 DEF Good, Alike, Reads
<1>3. CASE t # Empty /\ Fresh(s) # Null
    <2> DEFINE b == Fresh(s)
               x == Put(s, b, t)
    <2>1. b \in 1 .. NBufs /\ b \notin DOMAIN s.heap
        BY <1>3, FreshIs
    <2>2. r = [x EXCEPT !.made = b]
        BY <1>3 DEF MakeString
    <2> HIDE DEF x
    <2>3. /\ Good(x, {} \cup {b}) /\ Alike(s, x) /\ x.vec = s.vec /\ x.halted = s.halted
          /\ DOMAIN x.heap = DOMAIN s.heap \cup {b} /\ x.heap[b] = t
        <3>1. PICK F : F = {}
            OBVIOUS
        <3>2. x = Put(s, b, t) /\ Good(s, F) /\ b \in 1 .. NBufs /\ b \notin DOMAIN s.heap
            BY <2>1, <3>1 DEF x
        <3>3. PICK c, y : c = b /\ y = x
            OBVIOUS
        <3>4. y = Put(s, c, t) /\ c \in 1 .. NBufs /\ c \notin DOMAIN s.heap /\ Good(s, F)
            BY ONLY <3>2, <3>3
        <3>5. /\ Good(y, F \cup {c}) /\ Alike(s, y) /\ y.vec = s.vec /\ y.halted = s.halted
              /\ DOMAIN y.heap = DOMAIN s.heap \cup {c} /\ y.heap[c] = t
            BY ONLY <3>4, PutDone
        <3> QED
            BY ONLY <3>1, <3>3, <3>5
    <2>4. /\ IsState(r) /\ r.heap = x.heap /\ r.vec = x.vec /\ r.halted = x.halted
          /\ r.misused = x.misused /\ r.made = b
        BY <2>2, <2>3 DEF Good, IsState
    <2>5. {r.made} \ {Null} = {} \cup {b}
        BY <1>3, <2>4
    <2>6. Good(r, {} \cup {b})
        BY <2>3, <2>4 DEF Good
    <2> QED
        BY <1>3, <2>3, <2>4, <2>5, <2>6 DEF Alike, Reads, StringOK, TextIn
<1> QED
    BY <1>1, <1>2, <1>3

\* A vector takes another buffer, or none, and the old one is deleted.
LEMMA RebufferDone ==
    ASSUME NEW y, NEW E, Good(y, E), NEW v \in V, NEW b, NEW m \in Nat,
           \/ b = Null /\ y.vec[v].size = 0
           \/ b \in E /\ y.vec[v].size <= m /\ y.heap[b] = Moved(y.heap, y.vec, v, m),
           NEW x, IsState(x), x.heap = y.heap, x.vec = Rebuffer(y.vec, v, b, m),
           x.halted = y.halted, x.misused = y.misused,
           NEW r, r = Delete(x, y.vec[v].data)
    PROVE  /\ Good(r, E \ {b}) /\ Alike(y, r) /\ r.vec = x.vec
           /\ r.halted = y.halted /\ r.made = x.made
           /\ \A c \in E \ {b} : c \in DOMAIN r.heap /\ r.heap[c] = y.heap[c]
<1> DEFINE D == y.vec[v].data
           F == Held(E, b, D)
<1>1. Sound(y.heap, y.vec, E) /\ Null \notin E /\ E \subseteq DOMAIN y.heap
    BY Typed DEF Good
<1>2. Sound(y.heap, x.vec, F) /\ \A w \in V : Says(y.heap, x.vec, w) = Says(y.heap, y.vec, w)
    BY <1>1, Rebuffered
<1>3. Good(x, F) /\ Alike(y, x)
    BY <1>2 DEF Good, Alike, Reads
<1>4. D \notin E
    <2>1. CASE D = Null
        BY <1>1, <2>1
    <2>2. CASE D # Null
        BY <1>1, <2>2, BufferIsOwn
    <2> QED
        BY <2>1, <2>2
<1>5. (D = Null \/ D \in F) /\ F \ {D} = E \ {b}
    BY <1>1, <1>4 DEF Held
<1> HIDE DEF F, D
<1>6. Good(r, F \ {D}) /\ Alike(x, r) /\ Kept(x, r) /\ Agree(x, r, D)
    <2>1. r = Delete(x, D)
        BY DEF D
    <2> QED
        BY ONLY <1>3, <1>5, <2>1, DeleteDone
<1>7. Alike(y, r)
    BY <1>3, <1>6 DEF Alike
<1> QED
    BY <1>1, <1>4, <1>5, <1>6, <1>7 DEF Kept, Agree

LEMMA ReserveDone ==
    ASSUME NEW s, NEW E, Good(s, E), ~s.halted, NEW v \in V, NEW n \in Nat,
           NEW r, r = Reserve(s, v, n)
    PROVE  /\ Alike(s, r) /\ Good(r, E)
           /\ \A c \in E : c \in DOMAIN r.heap /\ r.heap[c] = s.heap[c]
           /\ ~r.halted => /\ \A w \in V : r.vec[w].size = s.vec[w].size
                           /\ \A w \in V \ {v} : r.vec[w] = s.vec[w]
                           /\ r.vec[v].capacity >= n
<1> DEFINE b == Fresh(s)
           D == s.vec[v].data
           grown == [s EXCEPT !.vec[v].data = b, !.vec[v].capacity = n]
<1>1. Sound(s.heap, s.vec, E) /\ IsState(s) /\ s.halted = FALSE
    BY DEF Good
<1>2. /\ s.vec[v].size \in Nat /\ s.vec[v].capacity \in Nat /\ s.vec \in [V -> VectorFields]
      /\ Null \notin E /\ E \subseteq DOMAIN s.heap
      /\ D # Null => s.vec[v].size <= s.vec[v].capacity
      /\ D = Null => s.vec[v].size = 0
      /\ D \in {Null} \cup DOMAIN s.heap
    BY Typed
<1>3. /\ IsState(grown) /\ grown.heap = s.heap /\ grown.halted = s.halted
      /\ grown.misused = s.misused /\ grown.made = s.made
      /\ grown.vec = Rebuffer(s.vec, v, b, n)
    <2> DEFINE half == [s EXCEPT !.vec[v].data = b]
    <2>1. /\ IsState(half) /\ half.heap = s.heap /\ half.halted = s.halted
          /\ half.misused = s.misused /\ half.made = s.made
          /\ half.vec = [s.vec EXCEPT ![v].data = b]
        BY <1>1, <1>2 DEF IsState
    <2>2. grown = [half EXCEPT !.vec[v].capacity = n]
        OBVIOUS
    <2> HIDE DEF half, grown
    <2>3. /\ IsState(grown) /\ grown.heap = half.heap /\ grown.halted = half.halted
          /\ grown.misused = half.misused /\ grown.made = half.made
          /\ grown.vec = [half.vec EXCEPT ![v].capacity = n]
        BY <2>1, <2>2 DEF IsState
    <2>4. Rebuffer(s.vec, v, b, n) = [[s.vec EXCEPT ![v].data = b] EXCEPT ![v].capacity = n]
        BY DEF Rebuffer
    <2> QED
        BY <2>1, <2>3, <2>4
<1>4. ASSUME NEW d2, d2 = Rebuffer(s.vec, v, b, n)
      PROVE  /\ \A w \in V : d2[w].size = s.vec[w].size
             /\ \A w \in V \ {v} : d2[w] = s.vec[w]
             /\ d2[v].capacity = n
    BY <1>2, <1>4 DEF Rebuffer, VectorFields
<1> HIDE DEF grown
<1>5. CASE n <= s.vec[v].capacity
    BY <1>1, <1>2, <1>5 DEF Reserve, Alike
<1>6. CASE ~ (n <= s.vec[v].capacity) /\ b # Null
    <2> DEFINE y == Put(s, b, Slots(s, v, n))
               x == Put(grown, b, Slots(s, v, n))
    <2>1. b \in 1 .. NBufs /\ b \notin DOMAIN s.heap
        BY <1>6, FreshIs
    <2>2. r = Delete(x, D)
        BY <1>6 DEF Reserve, grown
    <2>3. /\ IsState(x) /\ x.heap = y.heap /\ x.vec = Rebuffer(s.vec, v, b, n)
          /\ x.halted = s.halted /\ x.misused = s.misused /\ y.misused = s.misused
        BY <1>1, <1>3 DEF Put, IsState
    <2> HIDE DEF x, y
    <2>4. /\ Good(y, E \cup {b}) /\ Alike(s, y)
          /\ y.vec = s.vec /\ y.halted = s.halted
          /\ DOMAIN y.heap = DOMAIN s.heap \cup {b} /\ y.heap[b] = Slots(s, v, n)
          /\ \A c \in DOMAIN s.heap : y.heap[c] = s.heap[c]
        BY <2>1, PutDone DEF y
    <2>5. b \in E \cup {b} /\ y.vec[v].size <= n /\ y.heap[b] = Moved(y.heap, y.vec, v, n)
        <3>1. s.vec[v].size <= n
            BY <1>2, <1>6
        <3>2. \A i \in 1 .. n : i <= s.vec[v].size => s.heap[D] = y.heap[D]
            BY <1>2, <2>4
        <3>3. Slots(s, v, n) = Moved(y.heap, s.vec, v, n)
            BY <3>2 DEF Slots, Slot, Moved
        <3> QED
            BY <2>4, <3>1, <3>3
    <2>6. r = Delete(x, y.vec[v].data) /\ x.vec = Rebuffer(y.vec, v, b, n)
        BY <2>2, <2>3, <2>4
    <2>7. /\ Good(r, (E \cup {b}) \ {b}) /\ Alike(y, r) /\ r.vec = x.vec
          /\ r.halted = y.halted
          /\ \A c \in (E \cup {b}) \ {b} : c \in DOMAIN r.heap /\ r.heap[c] = y.heap[c]
        BY <2>3, <2>4, <2>5, <2>6, RebufferDone
    <2>8. (E \cup {b}) \ {b} = E
        BY <1>2, <2>1
    <2>9. Alike(s, r) /\ Good(r, E)
        BY <2>4, <2>7, <2>8 DEF Alike
    <2>10. \A c \in E : c \in DOMAIN r.heap /\ r.heap[c] = s.heap[c]
        BY <1>2, <2>4, <2>7, <2>8
    <2>11. r.vec = Rebuffer(s.vec, v, b, n)
        BY <2>3, <2>7
    <2> QED
        BY <1>4, <2>9, <2>10, <2>11
<1>7. CASE ~ (n <= s.vec[v].capacity) /\ b = Null /\ s.vec[v].size > 0
    <2>1. r = [s EXCEPT !.halted = TRUE]
        BY <1>7 DEF Reserve, Halt
    <2>2. /\ IsState(r) /\ r.heap = s.heap /\ r.vec = s.vec /\ r.halted = TRUE
          /\ r.misused = s.misused
        BY <1>1, <2>1 DEF IsState
    <2> QED
        BY <1>2, <2>2 DEF Good, Alike, Reads
<1>8. CASE ~ (n <= s.vec[v].capacity) /\ b = Null /\ ~ (s.vec[v].size > 0)
    <2>1. r = Delete(grown, D) /\ s.vec[v].size = 0
        BY <1>2, <1>8 DEF Reserve, grown
    <2>2. /\ Good(r, E \ {b}) /\ Alike(s, r) /\ r.vec = grown.vec /\ r.halted = s.halted
          /\ \A c \in E \ {b} : c \in DOMAIN r.heap /\ r.heap[c] = s.heap[c]
        BY <1>3, <1>8, <2>1, RebufferDone
    <2>3. E \ {b} = E
        BY <1>2, <1>8
    <2>4. r.vec = Rebuffer(s.vec, v, b, n)
        BY <1>3, <2>2
    <2>5. Good(r, E) /\ \A c \in E : c \in DOMAIN r.heap /\ r.heap[c] = s.heap[c]
        BY <2>2, <2>3
    <2>6. /\ \A w \in V : r.vec[w].size = s.vec[w].size
          /\ \A w \in V \ {v} : r.vec[w] = s.vec[w]
          /\ r.vec[v].capacity = n
        BY <1>4, <2>4
    <2> QED
        BY <2>2, <2>5, <2>6
<1> QED
    BY <1>5, <1>6, <1>7, <1>8

\* The pointer p, which the operation holds, becomes the new last element.
LEMMA ConstructDone ==
    ASSUME NEW s, NEW v \in V, NEW p, Good(s, {p} \ {Null}), ~s.halted, StringOK(s.heap, p),
           s.vec[v].size < s.vec[v].capacity, s.vec[v].size < MaxSize,
           NEW r, r = Construct(s, v, p)
    PROVE  /\ r.halted => Good(r, {p} \ {Null}) /\ Alike(s, r)
           /\ ~r.halted => /\ Good(r, {}) /\ Others(s, r, v)
                           /\ r.vec[v].size = s.vec[v].size + 1
                           /\ Reads(r, v) = Longer(Reads(s, v), s.vec[v].size, TextIn(s.heap, p))
<1> DEFINE n == s.vec[v].size
           E == {p} \ {Null}
           x == SetSlot(s, v, n + 1, p)
<1>1. /\ n \in Nat /\ s.vec[v].capacity \in Nat /\ s.vec \in [V -> VectorFields]
      /\ s.vec[v].data \in {Null} \cup DOMAIN s.heap
    BY Typed
<1>2. IsState(s) /\ s.halted = FALSE /\ s.misused = FALSE /\ Sound(s.heap, s.vec, E)
    BY DEF Good
<1>3. CASE s.vec[v].data = Null
    <2>1. r = [s EXCEPT !.halted = TRUE]
        BY <1>3 DEF Construct, Halt
    <2>2. /\ IsState(r) /\ r.heap = s.heap /\ r.vec = s.vec /\ r.halted = TRUE
          /\ r.misused = s.misused
        BY <1>2, <2>1 DEF IsState
    <2> QED
        BY <1>2, <2>2 DEF Good, Alike, Reads
<1>4. CASE s.vec[v].data # Null
    <2>1. /\ IsState(x) /\ x.vec = s.vec /\ x.halted = s.halted /\ x.made = s.made
          /\ x.misused = s.misused /\ SlotWritten(s.heap, x.heap, s.vec, v, n + 1, p)
        BY <1>1, <1>2, <1>4, SetSlotDone
    <2>2. r = [x EXCEPT !.vec[v].size = @ + 1]
        BY <1>4 DEF Construct
    <2> HIDE DEF x
    <2>3. /\ IsState(r) /\ r.heap = x.heap /\ r.halted = s.halted /\ r.misused = s.misused
          /\ r.vec = Resized(s.vec, v, n + 1)
        BY <1>1, <2>1, <2>2 DEF IsState, Resized
    <2>4. (p = Null \/ p \in E) /\ E \ {p} = {}
        OBVIOUS
    <2>5. \A w \in V \ {v} : r.vec[w] = s.vec[w]
        BY <1>1, <2>3 DEF Resized
    <2>6. r.vec[v].size = n + 1
        BY <1>1, <2>3 DEF Resized, VectorFields
    <2>7. SlotWritten(s.heap, r.heap, s.vec, v, n + 1, p) /\ n < s.vec[v].capacity /\ n < MaxSize
        BY <2>1, <2>3
    <2> HIDE DEF n, E
    <2>8. PICK h, d, h2, d2 : h = s.heap /\ d = s.vec /\ h2 = r.heap /\ d2 = r.vec
        OBVIOUS
    <2>9. /\ Sound(h2, d2, E \ {p})
          /\ Says(h2, d2, v) = Longer(Says(h, d, v), n, TextIn(h, p))
          /\ \A w \in V \ {v} : Says(h2, d2, w) = Says(h, d, w)
        <3>1. /\ Sound(h, d, E) /\ HasRoom(d, v, n) /\ n \in Nat /\ StringOK(h, p)
              /\ SlotWritten(h, h2, d, v, n + 1, p) /\ d2 = Resized(d, v, n + 1)
            BY <1>1, <1>2, <1>4, <2>3, <2>7, <2>8 DEF n, HasRoom
        <3> QED
            BY ONLY <2>4, <3>1, v \in V, Attached
    <2>10. Good(r, {})
        BY <1>2, <2>3, <2>4, <2>8, <2>9 DEF Good
    <2> QED
        BY <1>2, <2>3, <2>5, <2>6, <2>8, <2>9, <2>10 DEF Others, Reads, n
<1> QED
    BY <1>3, <1>4

-----------------------------------------------------------------------------
(* The operations on one vector. *)

Has(s, v, n) == s.vec[v].size = n

\* The operation is over, and v has the n texts of q.
Done(s, r, v, n, q) ==
    ~r.halted /\ Good(r, {}) /\ Others(s, r, v) /\ Has(r, v, n) /\ Reads(r, v) = q

\* It has halted, and nothing is said that was not said.
Stuck(s, r) == r.halted /\ Alike(s, r) /\ \E E : Good(r, E)

LEMMA PushBackDone ==
    ASSUME NEW s, NEW v \in V, NEW p, Good(s, {p} \ {Null}), ~s.halted, StringOK(s.heap, p),
           NEW n \in Nat, Has(s, v, n), n < MaxSize, NEW r, r = PushBack(s, v, p)
    PROVE  Stuck(s, r) \/ Done(s, r, v, n + 1, Longer(Reads(s, v), n, TextIn(s.heap, p)))
<1> DEFINE E == {p} \ {Null}
           m == IF s.vec[v].capacity = 0 THEN FirstCapacity ELSE 2 * s.vec[v].capacity
           x == IF n = s.vec[v].capacity THEN Reserve(s, v, m) ELSE s
<1>1. /\ s.vec[v].capacity \in Nat /\ s.vec[v].size = n
      /\ s.vec[v].data # Null => n <= s.vec[v].capacity
      /\ s.vec[v].data = Null => n = 0
      /\ Null \notin E /\ E \subseteq DOMAIN s.heap
    BY Typed DEF Has
<1>2. m \in Nat /\ (n = s.vec[v].capacity => n < m)
    BY <1>1, SizesAssumption DEF SizesAssumption
<1>3. r = IF x.halted THEN x ELSE Construct(x, v, p)
    BY <1>1 DEF PushBack, Then
<1> HIDE DEF m, E
<1>4. /\ Alike(s, x) /\ Good(x, E) /\ \A c \in E : c \in DOMAIN x.heap /\ x.heap[c] = s.heap[c]
      /\ ~x.halted => /\ x.vec[v].size = n /\ n < x.vec[v].capacity
                      /\ \A w \in V \ {v} : x.vec[w] = s.vec[w]
    <2>1. CASE n = s.vec[v].capacity
        <3> DEFINE y == Reserve(s, v, m)
        <3>1. y = x
            BY <2>1
        <3> HIDE DEF y, x
        <3>2. /\ Alike(s, y) /\ Good(y, E)
              /\ \A c \in E : c \in DOMAIN y.heap /\ y.heap[c] = s.heap[c]
              /\ ~y.halted => /\ \A w \in V : y.vec[w].size = s.vec[w].size
                              /\ \A w \in V \ {v} : y.vec[w] = s.vec[w]
                              /\ y.vec[v].capacity >= m
            BY <1>2, ReserveDone DEF E, y
        <3>3. y.vec[v].capacity \in Nat
            BY <3>2, Typed
        <3>4. ~y.halted => y.vec[v].size = n /\ n < y.vec[v].capacity
            BY <1>1, <1>2, <2>1, <3>2, <3>3
        <3> QED
            BY <3>1, <3>2, <3>4
    <2>2. CASE n # s.vec[v].capacity
        <3>1. x = s
            BY <2>2
        <3>2. n < s.vec[v].capacity
            BY <1>1, <2>2
        <3> HIDE DEF x
        <3> QED
            BY <1>1, <3>1, <3>2 DEF Alike, E
    <2> QED
        BY <2>1, <2>2
<1> HIDE DEF x
<1>5. StringOK(x.heap, p) /\ TextIn(x.heap, p) = TextIn(s.heap, p)
    BY <1>4 DEF StringOK, TextIn, E
<1>6. CASE x.halted
    BY <1>3, <1>4, <1>6 DEF Stuck
<1>7. CASE ~x.halted
    <2>1. r = Construct(x, v, p)
        BY <1>3, <1>7
    <2>2. Good(x, {p} \ {Null}) /\ x.vec[v].size = n /\ n < x.vec[v].capacity
        BY <1>4, <1>7 DEF E
    <2>3. /\ r.halted => Good(r, {p} \ {Null}) /\ Alike(x, r)
          /\ ~r.halted => /\ Good(r, {}) /\ Others(x, r, v) /\ r.vec[v].size = n + 1
                          /\ Reads(r, v) = Longer(Reads(x, v), n, TextIn(x.heap, p))
        BY <1>5, <1>7, <2>1, <2>2, ConstructDone
    <2>4. CASE r.halted
        BY <1>4, <2>3, <2>4 DEF Stuck, Alike
    <2>5. CASE ~r.halted
        <3>1. Others(s, r, v) /\ Reads(x, v) = Reads(s, v)
            BY <1>4, <1>7, <2>3, <2>5 DEF Others, Alike
        <3> QED
            BY <1>5, <2>3, <2>5, <3>1 DEF Done, Has
    <2> QED
        BY <2>4, <2>5
<1> QED
    BY <1>6, <1>7

LEMMA PushNewDone ==
    ASSUME NEW s, NEW v \in V, NEW t \in Texts, Good(s, {}), ~s.halted,
           NEW n \in Nat, Has(s, v, n), n < MaxSize, NEW r, r = PushNew(s, v, t)
    PROVE  Stuck(s, r) \/ Done(s, r, v, n + 1, Longer(Reads(s, v), n, t))
<1> DEFINE x == MakeString(s, t)
<1>1. r = IF x.halted THEN x ELSE PushBack(x, v, x.made)
    BY DEF PushNew, Then
<1> HIDE DEF x
<1>2. /\ Alike(s, x) /\ x.vec = s.vec
      /\ x.halted => Good(x, {})
      /\ ~x.halted => /\ Good(x, {x.made} \ {Null}) /\ StringOK(x.heap, x.made)
                      /\ TextIn(x.heap, x.made) = t
    BY MakeStringDone DEF x
<1>3. CASE x.halted
    BY <1>1, <1>2, <1>3 DEF Stuck
<1>4. CASE ~x.halted
    <2>1. PICK p : p = x.made
        OBVIOUS
    <2>2. Good(x, {p} \ {Null}) /\ StringOK(x.heap, p) /\ TextIn(x.heap, p) = t /\ Has(x, v, n)
        BY <1>2, <1>4, <2>1 DEF Has
    <2>3. r = PushBack(x, v, p)
        BY <1>1, <1>4, <2>1
    <2>4. Stuck(x, r) \/ Done(x, r, v, n + 1, Longer(Reads(x, v), n, TextIn(x.heap, p)))
        BY <1>4, <2>2, <2>3, PushBackDone
    <2>5. Reads(x, v) = Reads(s, v) /\ TextIn(x.heap, p) = t
        BY <1>2, <2>2 DEF Alike
    <2>6. CASE Stuck(x, r)
        BY <1>2, <2>6 DEF Stuck, Alike
    <2>7. CASE Done(x, r, v, n + 1, Longer(Reads(s, v), n, t))
        BY <1>2, <2>7 DEF Done, Others, Alike
    <2> QED
        BY <2>4, <2>5, <2>6, <2>7
<1> QED
    BY <1>3, <1>4

LEMMA PopBackDone ==
    ASSUME NEW s, NEW v \in V, Good(s, {}), ~s.halted, NEW n \in Nat, Has(s, v, n), n # 0,
           NEW r, r = PopBack(s, v)
    PROVE  Done(s, r, v, n - 1, Shorter(Reads(s, v), n))
<1> DEFINE old == Slot(s, v, n)
           x == SetSlot(s, v, n, Raw)
           y == [x EXCEPT !.vec[v].size = n - 1]
<1>1. r = Delete(y, old) /\ s.vec[v].size = n
    BY DEF PopBack, Has
<1>2. IsState(s) /\ s.misused = FALSE /\ s.halted = FALSE /\ Sound(s.heap, s.vec, {})
    BY DEF Good
<1>3. /\ s.vec \in [V -> VectorFields] /\ s.vec[v].data \in DOMAIN s.heap
      /\ old = Ref(s.heap, s.vec, v, n)
    <2>1. n \in 0 .. s.vec[v].size
        BY <1>1
    <2>2. s.vec \in [V -> VectorFields]
        BY Typed
    <2> QED
        BY <1>2, <2>1, <2>2, RefIs DEF Slot, Ref
<1>4. /\ IsState(x) /\ x.vec = s.vec /\ x.halted = s.halted /\ x.misused = s.misused
      /\ SlotWritten(s.heap, x.heap, s.vec, v, n, Raw)
    BY <1>2, <1>3, SetSlotDone
<1> HIDE DEF x
<1>5. /\ IsState(y) /\ y.heap = x.heap /\ y.halted = FALSE /\ y.misused = FALSE
      /\ y.vec = Resized(s.vec, v, n - 1)
    BY <1>2, <1>3, <1>4 DEF IsState, Resized
<1> HIDE DEF y, old
<1>6. PICK h, d, h2, d2 : h = s.heap /\ d = s.vec /\ h2 = y.heap /\ d2 = y.vec
    OBVIOUS
<1>0. PICK E : E = {}
    OBVIOUS
<1> DEFINE F == E \cup ({old} \ {Null})
<1>7. /\ Sound(h2, d2, F)
      /\ Says(h2, d2, v) = Shorter(Says(h, d, v), n)
      /\ \A w \in V \ {v} : Says(h2, d2, w) = Says(h, d, w)
    <2>1. /\ Sound(h, d, E) /\ n = d[v].size /\ old = Ref(h, d, v, n)
          /\ SlotWritten(h, h2, d, v, n, Raw) /\ d2 = Resized(d, v, n - 1)
        BY <1>0, <1>1, <1>2, <1>3, <1>4, <1>5, <1>6
    <2> QED
        BY ONLY <2>1, v \in V, n \in Nat, n # 0, Detached, SMTT(60)
<1>8. Good(y, F) /\ (old = Null \/ old \in F) /\ F \ {old} = {}
    BY <1>0, <1>5, <1>6, <1>7 DEF Good
<1> HIDE DEF F
<1>9. Good(r, F \ {old}) /\ Alike(y, r) /\ Kept(y, r)
    BY ONLY <1>1, <1>8, DeleteDone
<1>10. \A w \in V \ {v} : r.vec[w] = s.vec[w]
    BY <1>3, <1>5, <1>9 DEF Resized, Kept
<1>11. r.vec[v].size = n - 1
    BY <1>3, <1>5, <1>9 DEF Resized, Kept, VectorFields
<1>12. /\ Reads(r, v) = Shorter(Reads(s, v), n)
       /\ \A w \in V \ {v} : Reads(r, w) = Reads(s, w)
    BY <1>6, <1>7, <1>9 DEF Alike, Reads
<1> QED
    BY <1>5, <1>8, <1>9, <1>10, <1>11, <1>12 DEF Done, Others, Has, Kept

Runs(s) == ~s.halted

IsString(s, p) == StringOK(s.heap, p)

TextOf(s, p) == TextIn(s.heap, p)

TextAt(s, v, i) == Reads(s, v)[i]

Replaced(q, i, t) == [q EXCEPT ![i] = t]

HasBuffer(s, v) == s.vec[v].data \in DOMAIN s.heap

\* The pointer p goes to a slot of v, and the one that was there to the operation.
LEMMA SlotDone ==
    ASSUME NEW s, NEW E, Good(s, E), Runs(s), NEW v \in V, NEW n \in Nat, Has(s, v, n),
           NEW i \in 1 .. n, NEW p, p = Null \/ p \in E, IsString(s, p),
           NEW old, old = Slot(s, v, i), NEW r, r = SetSlot(s, v, i, p)
    PROVE  /\ Good(r, Held(E, p, old)) /\ Kept(s, r) /\ Others(s, r, v)
           /\ Reads(r, v) = Replaced(Reads(s, v), i, TextOf(s, p))
           /\ IsString(r, old) /\ TextOf(r, old) = TextAt(s, v, i)
           /\ HasBuffer(s, v) /\ old \notin E
<1> USE DEF Runs, IsString, TextOf, TextAt, Replaced, HasBuffer
<1>1. s.vec[v].size = n
    BY DEF Has
<1>2. IsState(s) /\ s.misused = FALSE /\ s.halted = FALSE /\ Sound(s.heap, s.vec, E)
    BY DEF Good
<1>3. s.vec[v].data \in DOMAIN s.heap /\ old = Ref(s.heap, s.vec, v, i) /\ old \notin E
    <2>1. i \in 0 .. s.vec[v].size /\ i # 0
        BY <1>1
    <2> QED
        BY <1>2, <2>1, RefIs DEF Slot
<1>4. /\ IsState(r) /\ r.vec = s.vec /\ r.halted = s.halted /\ r.misused = s.misused
      /\ r.made = s.made /\ SlotWritten(s.heap, r.heap, s.vec, v, i, p)
    BY <1>2, <1>3, SetSlotDone
<1>5. PICK h, d, h2 : h = s.heap /\ d = s.vec /\ h2 = r.heap
    OBVIOUS
<1>6. /\ Sound(h2, d, Held(E, p, old))
      /\ Says(h2, d, v) = [Says(h, d, v) EXCEPT ![i] = TextIn(h, p)]
      /\ \A w \in V \ {v} : Says(h2, d, w) = Says(h, d, w)
      /\ StringOK(h2, old) /\ TextIn(h2, old) = TextIn(h, old)
    <2>1. /\ Sound(h, d, E) /\ i \in 1 .. d[v].size /\ old = Ref(h, d, v, i) /\ StringOK(h, p)
          /\ SlotWritten(h, h2, d, v, i, p)
        BY <1>1, <1>2, <1>3, <1>4, <1>5
    <2> QED
        BY ONLY <2>1, p = Null \/ p \in E, v \in V, SlotSet
<1>7. TextIn(s.heap, old) = Reads(s, v)[i]
    BY <1>1, <1>3 DEF Reads, Says
<1>8. Good(r, Held(E, p, old))
    BY <1>2, <1>4, <1>5, <1>6 DEF Good
<1>9. /\ Reads(r, v) = [Reads(s, v) EXCEPT ![i] = TextIn(s.heap, p)]
      /\ \A w \in V \ {v} : Reads(r, w) = Reads(s, w)
    BY <1>4, <1>5, <1>6 DEF Reads
<1> QED
    BY <1>3, <1>4, <1>5, <1>6, <1>7, <1>8, <1>9 DEF Others, Kept

\* The pointer p, which the operation holds, replaces that of an element.
LEMMA AssignSlotDone ==
    ASSUME NEW s, NEW v \in V, NEW p, Good(s, {p} \ {Null}), ~s.halted, StringOK(s.heap, p),
           NEW n \in Nat, Has(s, v, n), NEW i \in 1 .. n, NEW r, r = AssignSlot(s, v, i, p)
    PROVE  Done(s, r, v, n, [Reads(s, v) EXCEPT ![i] = TextIn(s.heap, p)])
<1> DEFINE x == SetSlot(s, v, i, p)
<1>1. PICK E, old : E = {p} \ {Null} /\ old = Slot(s, v, i)
    OBVIOUS
<1>2. p = Null \/ p \in E
    BY <1>1
<1>3. r = Delete(x, old)
    BY <1>1 DEF AssignSlot
<1> HIDE DEF x
<1>4. /\ Good(x, Held(E, p, old)) /\ Kept(s, x) /\ Others(s, x, v)
      /\ Reads(x, v) = [Reads(s, v) EXCEPT ![i] = TextIn(s.heap, p)]
    <2>1. Good(s, E) /\ Runs(s) /\ IsString(s, p)
        BY <1>1 DEF Runs, IsString
    <2>2. /\ Good(x, Held(E, p, old)) /\ Kept(s, x) /\ Others(s, x, v)
          /\ Reads(x, v) = Replaced(Reads(s, v), i, TextOf(s, p))
        BY ONLY <1>1, <1>2, <2>1, v \in V, n \in Nat, Has(s, v, n), i \in 1 .. n, SlotDone DEF x
    <2> QED
        BY <2>2 DEF Replaced, TextOf
<1>5. PICK F : F = Held(E, p, old)
    OBVIOUS
<1>6. Good(x, F) /\ (old = Null \/ old \in F) /\ F \ {old} = {}
    BY <1>1, <1>4, <1>5 DEF Held
<1>7. Good(r, F \ {old}) /\ Alike(x, r) /\ Kept(x, r)
    BY ONLY <1>3, <1>6, DeleteDone
<1>8. Good(r, {}) /\ r.vec = s.vec /\ r.halted = s.halted
    BY <1>4, <1>6, <1>7 DEF Kept
<1>9. /\ Reads(r, v) = [Reads(s, v) EXCEPT ![i] = TextIn(s.heap, p)]
      /\ \A w \in V \ {v} : Reads(r, w) = Reads(s, w)
    BY <1>4, <1>7 DEF Alike, Others
<1> QED
    BY <1>8, <1>9 DEF Done, Others, Has

StateOf(h, d, k, m, q) == [heap |-> h, vec |-> d, halted |-> k, misused |-> m, made |-> q]

Write(h, b, i, p) == [h EXCEPT ![b] = [h[b] EXCEPT ![i] = p]]

Buffer(d, v) == d[v].data

At(h, b, i) == h[b][i]

LEMMA SlotOf ==
    ASSUME NEW h, NEW d, NEW k, NEW m, NEW q, NEW s, s = StateOf(h, d, k, m, q), NEW v, NEW i
    PROVE  Slot(s, v, i) = At(h, Buffer(d, v), i)
BY DEF StateOf, Slot, At, Buffer

LEMMA SetSlotOf ==
    ASSUME NEW h, NEW d, NEW k, NEW m, NEW q, NEW s, s = StateOf(h, d, k, m, q),
           NEW v, NEW i, NEW p
    PROVE  SetSlot(s, v, i, p) = StateOf(Write(h, Buffer(d, v), i, p), d, k, m, q)
<1> USE DEF Buffer
<1>1. s.heap = h /\ s.vec = d
    BY DEF StateOf
<1>2. SetSlot(s, v, i, p) = [s EXCEPT !.heap = Write(h, d[v].data, i, p)]
    BY <1>1 DEF SetSlot, Write
<1>3. ASSUME NEW g PROVE [s EXCEPT !.heap = g] = StateOf(g, d, k, m, q)
    BY DEF StateOf
<1> QED
    BY <1>2, <1>3

HasSlots(h, b, i, j) ==
    b \in DOMAIN h /\ h[b] = [k \in DOMAIN h[b] |-> h[b][k]] /\ i \in DOMAIN h[b] /\ j \in DOMAIN h[b]

\* Two writes and the two of which one is overwritten leave the same heap.
LEMMA WritesAgree ==
    ASSUME NEW h, NEW b, NEW i, NEW j, HasSlots(h, b, i, j), i # j, NEW p, NEW q, NEW n,
           NEW h1, h1 = Write(h, b, i, n), NEW h2, h2 = Write(h1, b, j, q)
    PROVE  /\ Write(Write(h, b, i, p), b, j, q) = Write(h2, b, i, p)
           /\ At(h1, b, j) = At(h, b, j) /\ At(h2, b, i) = n
<1> USE DEF At, HasSlots
<1>1. PICK g : g = h[b]
    OBVIOUS
<1>2. /\ h1 = [h EXCEPT ![b] = [g EXCEPT ![i] = n]] /\ h1[b] = [g EXCEPT ![i] = n]
    BY <1>1 DEF Write
<1>3. h2 = [h EXCEPT ![b] = [[g EXCEPT ![i] = n] EXCEPT ![j] = q]]
    BY <1>2 DEF Write
<1>4. h2[b] = [[g EXCEPT ![i] = n] EXCEPT ![j] = q]
    BY <1>3
<1>5. Write(h2, b, i, p) = [h EXCEPT ![b] = [[[g EXCEPT ![i] = n] EXCEPT ![j] = q] EXCEPT ![i] = p]]
    BY <1>3, <1>4 DEF Write
<1>6. PICK f : f = Write(h, b, i, p)
    OBVIOUS
<1>7. f = [h EXCEPT ![b] = [g EXCEPT ![i] = p]] /\ f[b] = [g EXCEPT ![i] = p]
    BY <1>1, <1>6 DEF Write
<1>8. Write(f, b, j, q) = [h EXCEPT ![b] = [[g EXCEPT ![i] = p] EXCEPT ![j] = q]]
    BY <1>7 DEF Write
<1>9. [[g EXCEPT ![i] = p] EXCEPT ![j] = q] =
            [[[g EXCEPT ![i] = n] EXCEPT ![j] = q] EXCEPT ![i] = p]
    BY <1>1
<1>10. h1[b][j] = h[b][j] /\ h2[b][i] = n
    BY <1>1, <1>2, <1>4
<1> QED
    BY <1>5, <1>6, <1>8, <1>9, <1>10

\* Two neighbours exchange their pointers.
LEMMA SwapDone ==
    ASSUME NEW s, NEW v \in V, Good(s, {}), ~s.halted, NEW n \in Nat, Has(s, v, n),
           NEW i \in 2 .. n,
           NEW r, r = SetSlot(SetSlot(s, v, i, Slot(s, v, i - 1)), v, i - 1, Slot(s, v, i))
    PROVE  Done(s, r, v, n, [Reads(s, v) EXCEPT ![i] = Reads(s, v)[i - 1],
                                                ![i - 1] = Reads(s, v)[i]])
<1>0. PICK h, d, k, m, q, D : s = StateOf(h, d, k, m, q) /\ D = Buffer(d, v)
    BY DEF Good, IsState, StateOf
<1>1. PICK a, b, x1, x2, x3 :
        /\ a = At(h, D, i) /\ b = At(h, D, i - 1) /\ x1 = SetSlot(s, v, i, Null)
        /\ x2 = SetSlot(x1, v, i - 1, a) /\ x3 = SetSlot(x2, v, i, b)
    OBVIOUS
<1>2. i \in 1 .. n /\ i - 1 \in 1 .. n /\ i # i - 1
    OBVIOUS
<1>3. PICK h1, h2 : h1 = Write(h, D, i, Null) /\ h2 = Write(h1, D, i - 1, a)
    OBVIOUS
<1>4. x1 = StateOf(h1, d, k, m, q) /\ Slot(s, v, i) = a /\ Slot(s, v, i - 1) = b
    BY ONLY <1>0, <1>1, <1>3, SlotOf, SetSlotOf
<1>5. x2 = StateOf(h2, d, k, m, q) /\ Slot(x1, v, i - 1) = At(h1, D, i - 1)
    BY ONLY <1>0, <1>1, <1>3, <1>4, SlotOf, SetSlotOf
<1>6. x3 = StateOf(Write(h2, D, i, b), d, k, m, q) /\ Slot(x2, v, i) = At(h2, D, i)
    BY ONLY <1>0, <1>1, <1>5, SlotOf, SetSlotOf
<1>7. PICK E, E1, E2, E3 : /\ E = {} /\ E1 = Held(E, Null, a)
                           /\ E2 = Held(E1, a, b) /\ E3 = Held(E2, b, Null)
    OBVIOUS
<1>8. /\ Good(x1, E1) /\ Kept(s, x1) /\ Others(s, x1, v)
      /\ Reads(x1, v) = Replaced(Reads(s, v), i, TextOf(s, Null))
      /\ IsString(x1, a) /\ TextOf(x1, a) = TextAt(s, v, i) /\ HasBuffer(s, v)
    <2>1. IsString(s, Null) /\ Good(s, E) /\ Runs(s) /\ a = Slot(s, v, i)
        BY <1>4, <1>7 DEF StringOK, IsString, Runs
    <2> QED
        BY ONLY <1>1, <1>2, <1>7, <2>1, v \in V, n \in Nat, Has(s, v, n), SlotDone
<1>9. HasSlots(h, D, i, i - 1)
    <2>1. s.heap = h /\ s.vec = d
        BY <1>0 DEF StateOf
    <2>2. BufferOK(h, d, v) /\ D # Null /\ D \in DOMAIN h /\ d[v].size = n
        BY <1>0, <1>8, <2>1 DEF Good, Sound, Null, Has, HasBuffer, Buffer
    <2>3. n <= d[v].capacity /\ d[v].capacity \in Nat /\ h[D] \in [1 .. d[v].capacity -> Nat \cup {Raw}]
        BY <1>0, <2>2 DEF BufferOK, Buffer
    <2> QED
        BY <1>2, <2>2, <2>3 DEF HasSlots
<1>10. /\ Write(Write(h, D, i, b), D, i - 1, a) = Write(h2, D, i, b)
       /\ At(h1, D, i - 1) = b /\ At(h2, D, i) = Null
    BY ONLY <1>1, <1>2, <1>3, <1>9, WritesAgree
<1>11. /\ Good(x2, E2) /\ Kept(x1, x2) /\ Others(x1, x2, v)
       /\ Reads(x2, v) = Replaced(Reads(x1, v), i - 1, TextOf(x1, a))
       /\ IsString(x2, b) /\ TextOf(x2, b) = TextAt(x1, v, i - 1)
    <2>1. /\ (a = Null \/ a \in E1) /\ Runs(x1) /\ Has(x1, v, n) /\ b = Slot(x1, v, i - 1)
        BY <1>5, <1>7, <1>8, <1>10 DEF Held, Kept, Has, Runs
    <2> QED
        BY ONLY <1>1, <1>2, <1>7, <1>8, <2>1, v \in V, n \in Nat, SlotDone
<1>12. /\ Good(x3, E3) /\ Kept(x2, x3) /\ Others(x2, x3, v)
       /\ Reads(x3, v) = Replaced(Reads(x2, v), i, TextOf(x2, b))
    <2>1. (b = Null \/ b \in E2) /\ Runs(x2) /\ Has(x2, v, n) /\ Null = Slot(x2, v, i)
        BY <1>6, <1>7, <1>8, <1>10, <1>11 DEF Held, Kept, Has, Runs
    <2> QED
        BY ONLY <1>1, <1>2, <1>7, <1>11, <2>1, v \in V, n \in Nat, SlotDone
<1>13. E3 = {}
    <2>1. E1 \subseteq {a} /\ E2 \subseteq {b}
        BY <1>7 DEF Held
    <2> QED
        BY <1>7, <2>1 DEF Held
<1>14. r = x3
    <2>1. PICK y, g, f : /\ y = SetSlot(s, v, i, b)
                         /\ g = Write(h, D, i, b) /\ f = Write(g, D, i - 1, a)
        OBVIOUS
    <2>2. y = StateOf(g, d, k, m, q)
        BY ONLY <1>0, <2>1, SlotOf, SetSlotOf
    <2>3. r = SetSlot(y, v, i - 1, a)
        BY <1>4, <2>1
    <2>4. r = StateOf(f, d, k, m, q)
        BY ONLY <1>0, <2>1, <2>2, <2>3, SlotOf, SetSlotOf
    <2> QED
        BY <1>6, <1>10, <2>1, <2>4
<1>15. Good(r, {}) /\ r.vec = s.vec /\ ~r.halted
    BY <1>8, <1>11, <1>12, <1>13, <1>14 DEF Kept
<1>16. \A w \in V \ {v} : Reads(r, w) = Reads(s, w)
    BY <1>8, <1>11, <1>12, <1>14 DEF Others
<1>17. Reads(r, v) = [Reads(s, v) EXCEPT ![i] = Reads(s, v)[i - 1], ![i - 1] = Reads(s, v)[i]]
    <2>1. PICK l : l = Reads(s, v)
        OBVIOUS
    <2>2. DOMAIN l = 1 .. n /\ l = [j \in DOMAIN l |-> l[j]]
        BY <2>1 DEF Reads, Says, Has
    <2>3. /\ Reads(x1, v) = [l EXCEPT ![i] = TextOf(s, Null)]
          /\ Reads(x2, v) = [Reads(x1, v) EXCEPT ![i - 1] = l[i]]
          /\ Reads(r, v) = [Reads(x2, v) EXCEPT ![i] = l[i - 1]]
        BY <1>2, <1>8, <1>11, <1>12, <1>14, <2>1, <2>2 DEF Replaced, TextAt
    <2> QED
        <3>1. PICK o : o = i - 1
            OBVIOUS
        <3>2. i \in DOMAIN l /\ o \in DOMAIN l /\ i # o
            BY <1>2, <2>2, <3>1
        <3>3. PICK p, u, f, g : p = l[i] /\ u = l[o] /\ f = Reads(x1, v) /\ g = Reads(x2, v)
            OBVIOUS
        <3>4. DOMAIN f = DOMAIN l /\ f[o] = u /\ \A j \in DOMAIN l : j # i => f[j] = l[j]
            BY ONLY <2>3, <3>2, <3>3
        <3>5. DOMAIN g = DOMAIN l /\ g[o] = p /\ \A j \in DOMAIN l : j # i /\ j # o => g[j] = l[j]
            BY ONLY <2>3, <3>1, <3>2, <3>3, <3>4
        <3>6. Reads(r, v) = [j \in DOMAIN l |-> IF j = i THEN u ELSE IF j = o THEN p ELSE l[j]]
            BY ONLY <2>3, <3>1, <3>2, <3>3, <3>5
        <3>7. [l EXCEPT ![i] = u, ![o] = p] = [j \in DOMAIN l |-> IF j = i THEN u ELSE IF j = o THEN p ELSE l[j]]
            BY ONLY <3>2
        <3> QED
            BY ONLY <2>1, <3>1, <3>3, <3>6, <3>7
<1> QED
    BY <1>15, <1>16, <1>17 DEF Done, Others, Has

\* An element takes the pointer of the next one, and its own buffer is deleted.
LEMMA MoveDownDone ==
    ASSUME NEW s, NEW v \in V, Good(s, {}), ~s.halted, NEW n \in Nat, Has(s, v, n),
           NEW i \in 1 .. n - 1,
           NEW r, r = AssignSlot(SetSlot(s, v, i + 1, Null), v, i, Slot(s, v, i + 1))
    PROVE  Done(s, r, v, n, [Reads(s, v) EXCEPT ![i] = Reads(s, v)[i + 1], ![i + 1] = Empty])
<1>1. PICK p, x : p = Slot(s, v, i + 1) /\ x = SetSlot(s, v, i + 1, Null)
    OBVIOUS
<1>2. i \in 1 .. n /\ i + 1 \in 1 .. n /\ i + 1 # i
    OBVIOUS
<1>3. PICK E : E = {}
    OBVIOUS
<1>4. Good(s, E) /\ Runs(s) /\ IsString(s, Null) /\ TextIn(s.heap, Null) = Empty
    BY <1>3 DEF StringOK, TextIn, Runs, IsString
<1>5. /\ Good(x, Held(E, Null, p)) /\ Kept(s, x) /\ Others(s, x, v)
      /\ Reads(x, v) = [Reads(s, v) EXCEPT ![i + 1] = TextIn(s.heap, Null)]
      /\ StringOK(x.heap, p) /\ TextIn(x.heap, p) = Reads(s, v)[i + 1]
    <2>1. /\ Good(x, Held(E, Null, p)) /\ Kept(s, x) /\ Others(s, x, v)
          /\ Reads(x, v) = Replaced(Reads(s, v), i + 1, TextOf(s, Null))
          /\ IsString(x, p) /\ TextOf(x, p) = TextAt(s, v, i + 1)
        BY ONLY <1>1, <1>2, <1>4, v \in V, n \in Nat, Has(s, v, n), SlotDone
    <2> QED
        BY <2>1 DEF Replaced, TextOf, IsString, TextAt
<1>6. Good(x, {p} \ {Null}) /\ ~x.halted /\ Has(x, v, n)
    <2>1. Held(E, Null, p) = {p} \ {Null}
        BY <1>3 DEF Held
    <2> QED
        BY <1>5, <2>1 DEF Kept, Has
<1>7. Done(x, r, v, n, [Reads(x, v) EXCEPT ![i] = TextIn(x.heap, p)])
    BY <1>1, <1>2, <1>5, <1>6, AssignSlotDone
<1>8. [Reads(x, v) EXCEPT ![i] = TextIn(x.heap, p)] =
            [Reads(s, v) EXCEPT ![i] = Reads(s, v)[i + 1], ![i + 1] = Empty]
    <2>1. PICK l : l = Reads(s, v)
        OBVIOUS
    <2>2. DOMAIN l = 1 .. n
        BY <2>1 DEF Reads, Says, Has
    <2>3. Reads(x, v) = [l EXCEPT ![i + 1] = Empty] /\ TextIn(x.heap, p) = l[i + 1]
        BY <1>4, <1>5, <2>1
    <2>4. [[l EXCEPT ![i + 1] = Empty] EXCEPT ![i] = l[i + 1]] =
                [l EXCEPT ![i] = l[i + 1], ![i + 1] = Empty]
        BY <1>2, <2>2
    <2> QED
        BY <2>1, <2>3, <2>4
<1> QED
    BY <1>5, <1>7, <1>8 DEF Done, Others, Kept

-----------------------------------------------------------------------------
(* The loops: the states after their rounds, by induction. *)

LEMMA ClearAllRounds ==
    ASSUME NEW s, NEW v, NEW n \in Nat, Has(s, v, n)
    PROVE  \E f : /\ f[0] = s /\ f[n] = ClearAll(s, v)
                  /\ \A k \in 1 .. n : f[k] = PopBack(f[k - 1], v)
<1> DEFINE Upto(m, f) == f = [k \in 0 .. m |-> IF k = 0 THEN s ELSE PopBack(f[k - 1], v)]
           S == {m \in Nat : \E f : Upto(m, f)}
<1>1. 0 \in S
    <2>1. Upto(0, [k \in 0 .. 0 |-> s])
        OBVIOUS
    <2> QED
        BY <2>1
<1>2. ASSUME NEW m \in Nat, m \in S PROVE m + 1 \in S
    <2>1. PICK f : Upto(m, f)
        BY <1>2
    <2> DEFINE g == [k \in 0 .. m + 1 |-> IF k <= m THEN f[k] ELSE PopBack(f[m], v)]
    <2>2. \A k \in 0 .. m + 1 : g[k] = IF k = 0 THEN s ELSE PopBack(g[k - 1], v)
        BY <2>1
    <2>3. Upto(m + 1, g)
        <3>1. DOMAIN g = 0 .. m + 1 /\ g = [k \in DOMAIN g |-> g[k]]
            OBVIOUS
        <3> HIDE DEF g
        <3> QED
            BY <2>2, <3>1
    <2> HIDE DEF Upto
    <2> QED
        BY <2>3
<1>3. \A m \in Nat : m \in S
    <2> HIDE DEF S
    <2> QED
        BY <1>1, <1>2, NumberInduction
<1>4. ClearAll(s, v) = (CHOOSE f : Upto(n, f))[n]
    BY DEF ClearAll, Repeat, Has
<1>5. PICK f : f = CHOOSE g : Upto(n, g)
    OBVIOUS
<1>6. Upto(n, f)
    <2>1. \E g : Upto(n, g)
        BY <1>3
    <2> HIDE DEF Upto
    <2> QED
        BY <1>5, <2>1
<1>7. f[0] = s /\ \A k \in 1 .. n : f[k] = PopBack(f[k - 1], v)
    BY <1>6
<1> QED
    BY <1>4, <1>5, <1>7

\* A round of insert in a vector of n elements, of erase and of the copy constructor.
SwapDown(y, v, n, k) ==
    SetSlot(SetSlot(y, v, n + 1 - k, Slot(y, v, (n + 1 - k) - 1)), v, (n + 1 - k) - 1,
            Slot(y, v, n + 1 - k))

MoveDown(y, v, pos, k) ==
    AssignSlot(SetSlot(y, v, pos + k - 1 + 1, Null), v, pos + k - 1, Slot(y, v, pos + k - 1 + 1))

CopyNext(y, w, k) ==
    IF y.halted THEN y ELSE PushNew(y, Temp, TextIn(y.heap, Slot(y, w, k)))

LEMMA InsertRounds ==
    ASSUME NEW s, NEW v, NEW pos, NEW n, n = s.vec[v].size + 1,
           NEW rounds \in Nat, rounds = n - 1 - pos, NEW t, ~PushNew(s, v, t).halted
    PROVE  \E f : /\ f[0] = PushNew(s, v, t) /\ Insert(s, v, pos, t) = f[rounds]
                  /\ \A k \in 1 .. rounds : f[k] = SwapDown(f[k - 1], v, n, k)
<1> DEFINE N == s.vec[v].size + 1
           Round(y, k) == SwapDown(y, v, N, k)
           m == N - 1 - pos
           Upto(l, f) == f = [k \in 0 .. l |-> IF k = 0 THEN PushNew(s, v, t) ELSE Round(f[k - 1], k)]
           S == {l \in Nat : \E f : Upto(l, f)}
<1> HIDE DEF Round
<1>1. 0 \in S
    <2>1. Upto(0, [k \in 0 .. 0 |-> PushNew(s, v, t)])
        OBVIOUS
    <2> QED
        BY <2>1
<1>2. ASSUME NEW l \in Nat, l \in S PROVE l + 1 \in S
    <2>1. PICK f : Upto(l, f)
        BY <1>2
    <2> DEFINE g == [k \in 0 .. l + 1 |-> IF k <= l THEN f[k] ELSE Round(f[l], l + 1)]
    <2>2. \A k \in 0 .. l + 1 : g[k] = IF k = 0 THEN PushNew(s, v, t) ELSE Round(g[k - 1], k)
        BY <2>1
    <2>3. Upto(l + 1, g)
        <3>1. DOMAIN g = 0 .. l + 1 /\ g = [k \in DOMAIN g |-> g[k]]
            OBVIOUS
        <3> HIDE DEF g
        <3> QED
            BY <2>2, <3>1
    <2> HIDE DEF Upto
    <2> QED
        BY <2>3
<1>3. \A l \in Nat : l \in S
    <2> HIDE DEF S
    <2> QED
        BY <1>1, <1>2, NumberInduction
<1>4. Insert(s, v, pos, t) = (CHOOSE f : Upto(m, f))[m]
    <2>1. Insert(s, v, pos, t) =
            IF PushNew(s, v, t).halted THEN PushNew(s, v, t) ELSE (CHOOSE f : Upto(m, f))[m]
        BY DEF Insert, Then, SwapDown, Repeat, Round
    <2> HIDE DEF Upto, m
    <2> QED
        BY <2>1
<1>5. PICK f : f = CHOOSE g : Upto(m, g)
    OBVIOUS
<1>6. Upto(m, f)
    <2>1. \E g : Upto(m, g)
        <3>1. m \in Nat
            OBVIOUS
        <3> QED
            BY <1>3, <3>1
    <2> HIDE DEF Upto
    <2> QED
        BY <1>5, <2>1
<1>7. f[0] = PushNew(s, v, t) /\ \A k \in 1 .. m : f[k] = Round(f[k - 1], k)
    BY <1>6
<1>8. Insert(s, v, pos, t) = f[m]
    BY <1>4, <1>5
<1>9. N = n /\ m = rounds
    OBVIOUS
<1> HIDE DEF m, N
<1>10. \A k \in 1 .. m : f[k] = SwapDown(f[k - 1], v, N, k)
    BY <1>7 DEF Round
<1> QED
    BY <1>7, <1>8, <1>9, <1>10

LEMMA EraseRounds ==
    ASSUME NEW s, NEW v, NEW pos, s.vec[v].size - pos \in Nat
    PROVE  \E f : /\ f[0] = s /\ Erase(s, v, pos) = PopBack(f[(s.vec[v].size - pos)], v)
                  /\ \A k \in 1 .. (s.vec[v].size - pos) : f[k] = MoveDown(f[k - 1], v, pos, k)
<1> DEFINE Round(y, k) == MoveDown(y, v, pos, k)
           m == (s.vec[v].size - pos)
           Upto(l, f) == f = [k \in 0 .. l |-> IF k = 0 THEN s ELSE Round(f[k - 1], k)]
           S == {l \in Nat : \E f : Upto(l, f)}
<1> HIDE DEF Round
<1>1. 0 \in S
    <2>1. Upto(0, [k \in 0 .. 0 |-> s])
        OBVIOUS
    <2> QED
        BY <2>1
<1>2. ASSUME NEW l \in Nat, l \in S PROVE l + 1 \in S
    <2>1. PICK f : Upto(l, f)
        BY <1>2
    <2> DEFINE g == [k \in 0 .. l + 1 |-> IF k <= l THEN f[k] ELSE Round(f[l], l + 1)]
    <2>2. \A k \in 0 .. l + 1 : g[k] = IF k = 0 THEN s ELSE Round(g[k - 1], k)
        BY <2>1
    <2>3. Upto(l + 1, g)
        <3>1. DOMAIN g = 0 .. l + 1 /\ g = [k \in DOMAIN g |-> g[k]]
            OBVIOUS
        <3> HIDE DEF g
        <3> QED
            BY <2>2, <3>1
    <2> HIDE DEF Upto
    <2> QED
        BY <2>3
<1>3. \A l \in Nat : l \in S
    <2> HIDE DEF S
    <2> QED
        BY <1>1, <1>2, NumberInduction
<1>4. Erase(s, v, pos) = PopBack((CHOOSE f : Upto(m, f))[m], v)
    BY DEF Erase, MoveDown, Repeat, Round
<1>5. PICK f : f = CHOOSE g : Upto(m, g)
    OBVIOUS
<1>6. Upto(m, f)
    <2>1. \E g : Upto(m, g)
        BY <1>3
    <2> HIDE DEF Upto
    <2> QED
        BY <1>5, <2>1
<1>7. f[0] = s /\ \A k \in 1 .. m : f[k] = Round(f[k - 1], k)
    BY <1>6
<1>8. Erase(s, v, pos) = PopBack(f[m], v)
    BY <1>4, <1>5
<1> HIDE DEF m
<1>9. \A k \in 1 .. m : f[k] = MoveDown(f[k - 1], v, pos, k)
    BY <1>7 DEF Round
<1> QED
    BY <1>7, <1>8, <1>9 DEF m

LEMMA CopyRounds ==
    ASSUME NEW s, NEW w, s.vec[w].size \in Nat
    PROVE  \E f : /\ f[0] = Reserve(s, Temp, s.vec[w].size) /\ CopyOf(s, w) = f[s.vec[w].size]
                  /\ \A k \in 1 .. s.vec[w].size : f[k] = CopyNext(f[k - 1], w, k)
<1> DEFINE Round(y, k) == CopyNext(y, w, k)
           m == s.vec[w].size
           Upto(l, f) == f = [k \in 0 .. l |-> IF k = 0 THEN Reserve(s, Temp, s.vec[w].size) ELSE Round(f[k - 1], k)]
           S == {l \in Nat : \E f : Upto(l, f)}
<1> HIDE DEF Round
<1>1. 0 \in S
    <2>1. Upto(0, [k \in 0 .. 0 |-> Reserve(s, Temp, s.vec[w].size)])
        OBVIOUS
    <2> QED
        BY <2>1
<1>2. ASSUME NEW l \in Nat, l \in S PROVE l + 1 \in S
    <2>1. PICK f : Upto(l, f)
        BY <1>2
    <2> DEFINE g == [k \in 0 .. l + 1 |-> IF k <= l THEN f[k] ELSE Round(f[l], l + 1)]
    <2>2. \A k \in 0 .. l + 1 : g[k] = IF k = 0 THEN Reserve(s, Temp, s.vec[w].size) ELSE Round(g[k - 1], k)
        BY <2>1
    <2>3. Upto(l + 1, g)
        <3>1. DOMAIN g = 0 .. l + 1 /\ g = [k \in DOMAIN g |-> g[k]]
            OBVIOUS
        <3> HIDE DEF g
        <3> QED
            BY <2>2, <3>1
    <2> HIDE DEF Upto
    <2> QED
        BY <2>3
<1>3. \A l \in Nat : l \in S
    <2> HIDE DEF S
    <2> QED
        BY <1>1, <1>2, NumberInduction
<1>4. CopyOf(s, w) = (CHOOSE f : Upto(m, f))[m]
    BY DEF CopyOf, Then, CopyNext, Repeat, Round
<1>5. PICK f : f = CHOOSE g : Upto(m, g)
    OBVIOUS
<1>6. Upto(m, f)
    <2>1. \E g : Upto(m, g)
        BY <1>3
    <2> HIDE DEF Upto
    <2> QED
        BY <1>5, <2>1
<1>7. f[0] = Reserve(s, Temp, s.vec[w].size) /\ \A k \in 1 .. m : f[k] = Round(f[k - 1], k)
    BY <1>6
<1>8. CopyOf(s, w) = f[m]
    BY <1>4, <1>5
<1> HIDE DEF m
<1>9. \A k \in 1 .. m : f[k] = CopyNext(f[k - 1], w, k)
    BY <1>7 DEF Round
<1> QED
    BY <1>7, <1>8, <1>9 DEF m

\* The operation is over, and v has n texts.
Over(s, r, v, n) == ~r.halted /\ Good(r, {}) /\ Others(s, r, v) /\ Has(r, v, n)

LEMMA ClearAllDone ==
    ASSUME NEW s, NEW v \in V, Good(s, {}), ~s.halted, NEW r, r = ClearAll(s, v)
    PROVE  Over(s, r, v, 0)
<1>1. PICK n : n \in Nat /\ Has(s, v, n)
    BY Typed DEF Has
<1>2. PICK f : f[0] = s /\ f[n] = r /\ \A k \in 1 .. n : f[k] = PopBack(f[k - 1], v)
    BY <1>1, ClearAllRounds
<1> DEFINE P(k) == k <= n => Over(s, f[k], v, n - k)
<1>3. P(0)
    <2>1. Others(s, s, v) /\ n - 0 = n
        BY <1>1 DEF Others
    <2> QED
        BY <1>1, <1>2, <2>1 DEF Over
<1>4. ASSUME NEW k \in Nat, P(k) PROVE P(k + 1)
    <2> SUFFICES ASSUME k + 1 <= n PROVE Over(s, f[k + 1], v, n - (k + 1))
        OBVIOUS
    <2>1. PICK x, y, m : x = f[k] /\ y = f[k + 1] /\ m = n - k
        OBVIOUS
    <2>2. m \in Nat /\ m # 0 /\ m - 1 = n - (k + 1) /\ k + 1 \in 1 .. n /\ (k + 1) - 1 = k
        BY <1>1, <2>1
    <2>3. Over(s, x, v, m) /\ y = PopBack(x, v)
        <3>1. Over(s, f[k], v, n - k)
            BY <1>1, <1>4
        <3>2. f[k + 1] = PopBack(f[(k + 1) - 1], v)
            BY <1>2, <2>2
        <3> QED
            BY <2>1, <2>2, <3>1, <3>2
    <2>4. Done(x, y, v, m - 1, Shorter(Reads(x, v), m))
        BY <2>2, <2>3, PopBackDone DEF Over
    <2>5. Over(s, y, v, m - 1)
        BY <2>3, <2>4 DEF Done, Over, Others
    <2> QED
        BY <2>1, <2>2, <2>5
<1>5. \A k \in Nat : P(k)
    <2> DEFINE S == {k \in Nat : P(k)}
    <2>1. 0 \in S /\ \A k \in Nat : k \in S => k + 1 \in S
        BY <1>3, <1>4
    <2>2. \A k \in Nat : k \in S
        <3> HIDE DEF S
        <3> QED
            BY <2>1, NumberInduction
    <2> QED
        BY <2>2
<1>6. Over(s, f[n], v, n - n) /\ n - n = 0
    BY <1>1, <1>5
<1> QED
    BY <1>2, <1>6

\* The vector is as it began, and the others are what they were.
LEMMA DestructDone ==
    ASSUME NEW s, NEW v \in V, Good(s, {}), ~s.halted, NEW r, r = Destruct(s, v)
    PROVE  Over(s, r, v, 0) /\ r.vec[v] = Default
<1>1. PICK y, D : y = ClearAll(s, v) /\ D = y.vec[v].data
    OBVIOUS
<1>2. Over(s, y, v, 0)
    BY <1>1, ClearAllDone
<1>3. PICK x : x = [y EXCEPT !.vec = [y.vec EXCEPT ![v] = Default]]
    OBVIOUS
<1>4. y.vec \in [V -> VectorFields] /\ IsState(y) /\ Good(y, {}) /\ y.vec[v].size = 0
    BY <1>2, Typed DEF Over, Good, Has
<1>5. /\ IsState(x) /\ x.heap = y.heap /\ x.halted = y.halted /\ x.misused = y.misused
      /\ x.made = y.made /\ x.vec = [y.vec EXCEPT ![v] = Default]
    BY <1>3, <1>4 DEF IsState
<1>6. x.vec = Rebuffer(y.vec, v, Null, 0)
    <2>1. y.vec[v] = [data |-> D, size |-> 0, capacity |-> y.vec[v].capacity]
        BY <1>1, <1>4 DEF VectorFields
    <2>2. PICK d, c : d = y.vec /\ c = y.vec[v].capacity
        OBVIOUS
    <2>3. d \in [V -> VectorFields] /\ d[v] = [data |-> D, size |-> 0, capacity |-> c]
        BY <1>4, <2>1, <2>2
    <2>4. [d EXCEPT ![v].data = Null, ![v].capacity = 0] = [d EXCEPT ![v] = Default]
        <3>1. PICK e : e = [data |-> D, size |-> 0, capacity |-> c]
            OBVIOUS
        <3>2. [e EXCEPT !.data = Null, !.capacity = 0] = Default
            <4>1. PICK e1 : e1 = [data |-> Null, size |-> 0, capacity |-> c]
                OBVIOUS
            <4>2. [e EXCEPT !.data = Null] = e1
                BY <3>1, <4>1
            <4>3. [e1 EXCEPT !.capacity = 0] = Default
                BY <4>1 DEF Default
            <4> QED
                BY <4>2, <4>3
        <3>3. PICK d1 : d1 = [d EXCEPT ![v].data = Null]
            OBVIOUS
        <3>4. d1 = [d EXCEPT ![v] = [e EXCEPT !.data = Null]]
            BY <2>3, <3>1, <3>3
        <3>5. /\ DOMAIN d1 = DOMAIN d /\ d1[v] = [e EXCEPT !.data = Null]
              /\ \A w \in DOMAIN d \ {v} : d1[w] = d[w]
            BY <2>3, <3>4
        <3>6. [d1 EXCEPT ![v].capacity = 0] = [d1 EXCEPT ![v] = [d1[v] EXCEPT !.capacity = 0]]
            OBVIOUS
        <3>7. [d1 EXCEPT ![v] = Default] = [d EXCEPT ![v] = Default]
            BY <3>5
        <3>8. [d1[v] EXCEPT !.capacity = 0] = Default
            BY <3>2, <3>5
        <3> QED
            BY <3>3, <3>6, <3>7, <3>8
    <2> QED
        BY <1>5, <2>2, <2>4 DEF Rebuffer
<1>7. r = Delete(x, D)
    <2>1. r = [Delete(y, D) EXCEPT !.vec[v] = Default]
        BY <1>1 DEF Destruct
    <2>2. r = [Delete(y, D) EXCEPT !.vec = [Delete(y, D).vec EXCEPT ![v] = Default]]
        BY <2>1
    <2>3. CASE D = Null
        <3>1. Delete(y, D) = y /\ Delete(x, D) = x
            <4>1. D \notin DOMAIN y.heap /\ D \notin DOMAIN x.heap
                BY <1>4, <1>5, <2>3 DEF Good, Sound, Null
            <4> HIDE DEF Default
            <4> QED
                BY <2>3, <4>1 DEF Delete
        <3> QED
            BY <1>3, <2>2, <3>1
    <2>4. CASE D # Null /\ D \in DOMAIN y.heap
        BY <1>3, <1>4, <1>5, <2>2, <2>4 DEF Delete, IsState
    <2>5. D \in {Null} \cup DOMAIN y.heap
        BY <1>1, <1>4, Typed
    <2> QED
        BY <2>3, <2>4, <2>5
<1>8. PICK E, b : E = {} /\ b = Null
    OBVIOUS
<1>9. /\ Good(r, E \ {b}) /\ Alike(y, r) /\ r.vec = x.vec /\ r.halted = y.halted
    <2>1. PICK m : m = 0
        OBVIOUS
    <2>2. /\ Good(y, E) /\ b = Null /\ y.vec[v].size = 0 /\ m \in Nat
          /\ x.vec = Rebuffer(y.vec, v, b, m) /\ r = Delete(x, y.vec[v].data)
        BY <1>1, <1>4, <1>6, <1>7, <1>8, <2>1
    <2> QED
        BY <1>5, <2>2, RebufferDone
<1>10. Good(r, {}) /\ ~r.halted
    BY <1>2, <1>8, <1>9 DEF Over
<1>11. r.vec[v] = Default /\ r.vec[v].size = 0 /\ \A w \in V \ {v} : r.vec[w] = y.vec[w]
    BY <1>4, <1>5, <1>9 DEF Default
<1> QED
    BY <1>2, <1>9, <1>10, <1>11 DEF Over, Others, Alike, Has

\* A list of n texts with t after p others, and without the one at p.
Inserted(q, n, p, t) ==
    [j \in 1 .. n + 1 |-> IF j <= p THEN q[j] ELSE IF j = p + 1 THEN t ELSE q[j - 1]]

Erased(q, n, p) == [j \in 1 .. n - 1 |-> IF j < p THEN q[j] ELSE q[j + 1]]

\* The texts at i - 1 and i exchanged.
SwappedAt(l, i) == [l EXCEPT ![i] = l[i - 1], ![i - 1] = l[i]]

\* What one round of insert does to a list.
LEMMA InsertedMoves ==
    ASSUME NEW q, NEW n \in Nat, NEW p \in 1 .. n, NEW t, NEW l, l = Inserted(q, n, p, t),
           NEW i, i = p + 1
    PROVE  SwappedAt(l, i) = Inserted(q, n, p - 1, t)
<1>1. l[i] = t /\ l[i - 1] = q[p] /\ i - 1 = p /\ p - 1 + 1 = p /\ p # i
    BY DEF Inserted
<1>2. /\ DOMAIN l = 1 .. n + 1 /\ p \in 1 .. n + 1 /\ i \in 1 .. n + 1
      /\ \A j \in 1 .. n + 1 : l[j] = IF j <= p THEN q[j] ELSE IF j = i THEN t ELSE q[j - 1]
    BY DEF Inserted
<1>3. PICK f, g : f = SwappedAt(l, i) /\ g = Inserted(q, n, p - 1, t)
    OBVIOUS
<1>4. f = [l EXCEPT ![i] = q[p], ![p] = t]
    BY <1>1, <1>3 DEF SwappedAt
<1>5. /\ DOMAIN f = 1 .. n + 1 /\ f = [j \in DOMAIN f |-> f[j]]
      /\ f[p] = t /\ f[i] = q[p] /\ \A j \in 1 .. n + 1 : j # p /\ j # i => f[j] = l[j]
    BY <1>1, <1>2, <1>4
<1>6. /\ DOMAIN g = 1 .. n + 1 /\ g = [j \in DOMAIN g |-> g[j]]
      /\ \A j \in 1 .. n + 1 :
            g[j] = IF j <= p - 1 THEN q[j] ELSE IF j = p THEN t ELSE q[j - 1]
    BY <1>1, <1>3 DEF Inserted
<1>7. ASSUME NEW j \in 1 .. n + 1 PROVE f[j] = g[j]
    <2>1. CASE j = p
        BY <1>5, <1>6, <2>1
    <2>2. CASE j = i
        BY <1>1, <1>5, <1>6, <2>2
    <2>3. CASE j < p
        BY <1>2, <1>5, <1>6, <2>3
    <2>4. CASE j > i
        BY <1>2, <1>5, <1>6, <2>4
    <2> QED
        BY <2>1, <2>2, <2>3, <2>4
<1>8. f = g
    BY <1>5, <1>6, <1>7
<1> QED
    BY <1>3, <1>8

LEMMA InsertDone ==
    ASSUME NEW s, NEW v \in V, Good(s, {}), ~s.halted, NEW n \in Nat, Has(s, v, n), n < MaxSize,
           NEW pos \in 0 .. n, NEW t \in Texts, NEW r, r = Insert(s, v, pos, t)
    PROVE  Stuck(s, r) \/ Done(s, r, v, n + 1, Inserted(Reads(s, v), n, pos, t))
<1> DEFINE x == PushNew(s, v, t)
           m == n - pos
           N == n + 1
           q == Reads(s, v)
<1>1. x.halted => r = x
    BY DEF Insert, Then
<1>2. Stuck(s, x) \/ Done(s, x, v, n + 1, Longer(q, n, t))
    BY PushNewDone
<1> HIDE DEF x, q
<1>3. CASE x.halted
    BY <1>1, <1>2, <1>3 DEF Stuck, Done
<1>4. CASE ~x.halted
    <2>1. Done(s, x, v, n + 1, Longer(q, n, t))
        BY <1>2, <1>4 DEF Stuck
    <2>2. m \in Nat /\ N \in Nat /\ m = n - pos
        OBVIOUS
    <2>3. PICK f : f[0] = x /\ f[m] = r /\ \A k \in 1 .. m : f[k] = SwapDown(f[k - 1], v, N, k)
        <3>1. N = s.vec[v].size + 1 /\ m = N - 1 - pos
            BY DEF Has
        <3> HIDE DEF m, N
        <3>2. PICK f : /\ f[0] = PushNew(s, v, t) /\ Insert(s, v, pos, t) = f[m]
                       /\ \A k \in 1 .. m : f[k] = SwapDown(f[k - 1], v, N, k)
            BY <1>4, <2>2, <3>1, InsertRounds DEF x
        <3> QED
            BY <3>2 DEF x
    <2> HIDE DEF m, N
    <2> DEFINE P(k) == k <= m => Done(s, f[k], v, N, Inserted(q, n, n - k, t))
    <2>4. P(0)
        <3>1. Longer(q, n, t) = Inserted(q, n, n - 0, t)
            BY DEF Longer, Inserted
        <3> QED
            BY <2>1, <2>3, <3>1 DEF N
    <2>5. ASSUME NEW k \in Nat, P(k) PROVE P(k + 1)
        <3> SUFFICES ASSUME k + 1 <= m PROVE Done(s, f[k + 1], v, N, Inserted(q, n, n - (k + 1), t))
            OBVIOUS
        <3>1. PICK y, z, p, i, l : /\ y = f[k] /\ z = f[k + 1] /\ p = n - k /\ i = p + 1
                                   /\ l = Reads(y, v)
            OBVIOUS
        <3>2. /\ p \in 1 .. n /\ p - 1 = n - (k + 1) /\ k + 1 \in 1 .. m /\ (k + 1) - 1 = k
              /\ i \in 2 .. N /\ i = N + 1 - (k + 1)
            BY <2>2, <3>1 DEF N
        <3>3. Done(s, y, v, N, Inserted(q, n, p, t))
            <4>1. Done(s, f[k], v, N, Inserted(q, n, n - k, t))
                BY <2>2, <2>5
            <4> QED
                BY <3>1, <4>1
        <3>4. z = SetSlot(SetSlot(y, v, i, Slot(y, v, i - 1)), v, i - 1, Slot(y, v, i))
            <4>1. z = SwapDown(y, v, N, k + 1)
                BY <2>3, <3>1, <3>2
            <4>2. N + 1 - (k + 1) = i /\ (N + 1 - (k + 1)) - 1 = i - 1
                BY <2>2, <3>2
            <4> QED
                BY <4>1, <4>2 DEF SwapDown
        <3>5. Done(y, z, v, N, [l EXCEPT ![i] = l[i - 1], ![i - 1] = l[i]])
            <4>1. Good(y, {}) /\ ~y.halted /\ Has(y, v, N)
                BY <3>3 DEF Done
            <4> QED
                BY <2>2, <3>1, <3>2, <3>4, <4>1, SwapDone
        <3>6. [l EXCEPT ![i] = l[i - 1], ![i - 1] = l[i]] = Inserted(q, n, p - 1, t)
            <4>1. l = Inserted(q, n, p, t)
                BY <3>1, <3>3 DEF Done
            <4>2. SwappedAt(l, i) = Inserted(q, n, p - 1, t)
                <5>1. p \in 1 .. n /\ i = p + 1
                    BY <3>1, <3>2
                <5> QED
                    BY ONLY <4>1, <5>1, n \in Nat, InsertedMoves
            <4> QED
                BY <4>2 DEF SwappedAt
        <3>7. Done(s, z, v, N, Inserted(q, n, p - 1, t))
            BY <3>3, <3>5, <3>6 DEF Done, Others
        <3> QED
            BY <3>1, <3>2, <3>7
    <2>6. \A k \in Nat : P(k)
        <3> DEFINE S == {k \in Nat : P(k)}
        <3>1. 0 \in S /\ \A k \in Nat : k \in S => k + 1 \in S
            BY <2>4, <2>5
        <3>2. \A k \in Nat : k \in S
            <4> HIDE DEF S
            <4> QED
                BY <3>1, NumberInduction
        <3> QED
            BY <3>2
    <2>7. Done(s, f[m], v, N, Inserted(q, n, n - m, t)) /\ n - m = pos
        BY <2>2, <2>6
    <2> QED
        BY <2>3, <2>7 DEF N, q
<1> QED
    BY <1>3, <1>4

\* The list after k rounds of erase, from p on.
Sliding(q, n, p, k) ==
    [j \in 1 .. n |-> IF j < p \/ j > p + k \/ k = 0 THEN q[j]
                      ELSE IF j = p + k THEN Empty ELSE q[j + 1]]

LEMMA SlidingMoves ==
    ASSUME NEW q, NEW n \in Nat, NEW p \in 1 .. n, NEW k \in Nat, p + k + 1 <= n,
           NEW l, l = Sliding(q, n, p, k), NEW i, i = p + k
    PROVE  [l EXCEPT ![i] = l[i + 1], ![i + 1] = Empty] = Sliding(q, n, p, k + 1)
<1>1. l[i + 1] = q[i + 1] /\ i \in 1 .. n /\ i + 1 \in 1 .. n /\ i + 1 # i
    BY DEF Sliding
<1>2. \A j \in 1 .. n : [l EXCEPT ![i] = l[i + 1], ![i + 1] = Empty][j] = Sliding(q, n, p, k + 1)[j]
    BY <1>1 DEF Sliding
<1>3. PICK f, g : /\ f = [l EXCEPT ![i] = l[i + 1], ![i + 1] = Empty]
                  /\ g = Sliding(q, n, p, k + 1)
    OBVIOUS
<1>4. /\ DOMAIN f = 1 .. n /\ f = [j \in DOMAIN f |-> f[j]]
      /\ DOMAIN g = 1 .. n /\ g = [j \in DOMAIN g |-> g[j]]
    <2>1. DOMAIN l = 1 .. n
        BY DEF Sliding
    <2>2. DOMAIN f = 1 .. n /\ f = [j \in DOMAIN f |-> f[j]]
        BY <1>3, <2>1
    <2>3. DOMAIN g = 1 .. n /\ g = [j \in DOMAIN g |-> g[j]]
        BY <1>3 DEF Sliding
    <2> QED
        BY <2>2, <2>3
<1>5. f = g
    BY <1>2, <1>3, <1>4
<1> QED
    BY <1>3, <1>5

LEMMA EraseDone ==
    ASSUME NEW s, NEW v \in V, Good(s, {}), ~s.halted, NEW n \in Nat, Has(s, v, n),
           NEW pos \in 1 .. n, NEW r, r = Erase(s, v, pos)
    PROVE  Done(s, r, v, n - 1, Erased(Reads(s, v), n, pos))
<1> DEFINE m == n - pos
           q == Reads(s, v)
<1>1. m \in Nat /\ n = pos + m /\ pos \in Nat
    OBVIOUS
<1>2. s.vec[v].size = n /\ s.vec[v].size - pos = m
    BY DEF Has
<1> HIDE DEF m, q
<1>3. PICK f : /\ f[0] = s /\ r = PopBack(f[m], v)
               /\ \A k \in 1 .. m : f[k] = MoveDown(f[k - 1], v, pos, k)
    <2>1. s.vec[v].size - pos \in Nat
        BY <1>1, <1>2
    <2>2. PICK f : /\ f[0] = s /\ Erase(s, v, pos) = PopBack(f[(s.vec[v].size - pos)], v)
                   /\ \A k \in 1 .. (s.vec[v].size - pos) : f[k] = MoveDown(f[k - 1], v, pos, k)
        BY ONLY <2>1, EraseRounds
    <2> QED
        BY <1>2, <2>2
<1>4. PICK x : x = f[m]
    OBVIOUS
<1> DEFINE P(k) == k <= m => Done(s, f[k], v, n, Sliding(q, n, pos, k))
<1>5. P(0)
    <2>1. q = Sliding(q, n, pos, 0)
        BY DEF Sliding, q, Reads, Says, Has
    <2>2. Others(s, s, v)
        BY DEF Others
    <2> QED
        BY <1>3, <2>1, <2>2 DEF Done, q
<1>6. ASSUME NEW k \in Nat, P(k) PROVE P(k + 1)
    <2> SUFFICES ASSUME k + 1 <= m PROVE Done(s, f[k + 1], v, n, Sliding(q, n, pos, k + 1))
        OBVIOUS
    <2>1. PICK y, z, i, l : y = f[k] /\ z = f[k + 1] /\ i = pos + k /\ l = Reads(y, v)
        OBVIOUS
    <2>2. /\ i \in 1 .. n - 1 /\ k + 1 \in 1 .. m /\ (k + 1) - 1 = k
          /\ i = pos + (k + 1) - 1 /\ pos + k + 1 <= n
        BY <1>1, <2>1
    <2>3. Done(s, y, v, n, Sliding(q, n, pos, k))
        <3>1. Done(s, f[k], v, n, Sliding(q, n, pos, k))
            BY <1>1, <1>6
        <3> QED
            BY <2>1, <3>1
    <2>4. z = AssignSlot(SetSlot(y, v, i + 1, Null), v, i, Slot(y, v, i + 1))
        <3>1. z = MoveDown(y, v, pos, k + 1)
            BY <1>3, <2>1, <2>2
        <3> QED
            BY <2>2, <3>1 DEF MoveDown
    <2>5. Done(y, z, v, n, [l EXCEPT ![i] = l[i + 1], ![i + 1] = Empty])
        <3>1. Good(y, {}) /\ ~y.halted /\ Has(y, v, n)
            BY <2>3 DEF Done
        <3> QED
            BY <2>1, <2>2, <2>4, <3>1, MoveDownDone
    <2>6. [l EXCEPT ![i] = l[i + 1], ![i + 1] = Empty] = Sliding(q, n, pos, k + 1)
        <3>1. l = Sliding(q, n, pos, k)
            BY <2>1, <2>3 DEF Done
        <3>2. pos + k + 1 <= n /\ i = pos + k
            BY <2>1, <2>2
        <3>3. ASSUME NEW u, u = Sliding(q, n, pos, k)
              PROVE  [u EXCEPT ![i] = u[i + 1], ![i + 1] = Empty] = Sliding(q, n, pos, k + 1)
            BY ONLY <3>2, <3>3, n \in Nat, pos \in 1 .. n, k \in Nat, SlidingMoves
        <3> QED
            BY <3>1, <3>3
    <2>7. Done(s, z, v, n, Sliding(q, n, pos, k + 1))
        BY <2>3, <2>5, <2>6 DEF Done, Others
    <2> QED
        BY <2>1, <2>7
<1>7. \A k \in Nat : P(k)
    <2> DEFINE S == {k \in Nat : P(k)}
    <2>1. 0 \in S /\ \A k \in Nat : k \in S => k + 1 \in S
        BY <1>5, <1>6
    <2>2. \A k \in Nat : k \in S
        <3> HIDE DEF S
        <3> QED
            BY <2>1, NumberInduction
    <2> QED
        BY <2>2
<1>8. PICK l : l = Sliding(q, n, pos, m)
    OBVIOUS
<1>9. Done(s, x, v, n, l)
    BY <1>1, <1>4, <1>7, <1>8
<1>10. Done(x, r, v, n - 1, Shorter(l, n))
    <2>1. Good(x, {}) /\ ~x.halted /\ Has(x, v, n) /\ n # 0 /\ Reads(x, v) = l
        BY <1>9 DEF Done
    <2> QED
        BY <1>3, <1>4, <2>1, PopBackDone
<1>11. Shorter(l, n) = Erased(q, n, pos)
    BY <1>1, <1>8 DEF Shorter, Sliding, Erased
<1> QED
    BY <1>9, <1>10, <1>11 DEF Done, Others, q

-----------------------------------------------------------------------------
(* The operations on two vectors. *)

\* v and w have what the other had, and no other vector has changed.
Traded(s, r, v, w) ==
    /\ Reads(r, v) = Reads(s, w) /\ Reads(r, w) = Reads(s, v)
    /\ r.vec[v] = s.vec[w] /\ r.vec[w] = s.vec[v]
    /\ \A x \in V \ {v, w} : Reads(r, x) = Reads(s, x) /\ r.vec[x] = s.vec[x]

LEMMA ExchangeDone ==
    ASSUME NEW s, Good(s, {}), ~s.halted, NEW v \in V, NEW w \in V, NEW r, r = Exchange(s, v, w)
    PROVE  Good(r, {}) /\ ~r.halted /\ Traded(s, r, v, w)
<1>1. s.vec \in [V -> VectorFields] /\ IsState(s) /\ Sound(s.heap, s.vec, {})
    BY Typed DEF Good
<1>2. /\ IsState(r) /\ r.heap = s.heap /\ r.halted = s.halted /\ r.misused = s.misused
      /\ r.vec = Exchanges(s.vec, v, w)
    <2>1. PICK x : x = [s EXCEPT !.vec = [s.vec EXCEPT ![v] = s.vec[w]]]
        OBVIOUS
    <2>2. r = [x EXCEPT !.vec = [x.vec EXCEPT ![w] = s.vec[v]]]
        BY <2>1 DEF Exchange
    <2>3. /\ IsState(x) /\ x.heap = s.heap /\ x.halted = s.halted /\ x.misused = s.misused
          /\ x.vec = [s.vec EXCEPT ![v] = s.vec[w]]
        BY <1>1, <2>1 DEF IsState
    <2>4. /\ IsState(r) /\ r.heap = x.heap /\ r.halted = x.halted /\ r.misused = x.misused
          /\ r.vec = [x.vec EXCEPT ![w] = s.vec[v]]
        BY <2>2, <2>3 DEF IsState
    <2> QED
        BY <2>3, <2>4 DEF Exchanges
<1>3. PICK h, d, d2, E : h = s.heap /\ d = s.vec /\ d2 = r.vec /\ E = {}
    OBVIOUS
<1>4. /\ Sound(h, d2, E)
      /\ Says(h, d2, v) = Says(h, d, w) /\ Says(h, d2, w) = Says(h, d, v)
      /\ \A x \in V \ {v, w} : Says(h, d2, x) = Says(h, d, x)
    <2>1. Sound(h, d, E) /\ d2 = Exchanges(d, v, w)
        BY <1>1, <1>2, <1>3
    <2> QED
        BY ONLY <2>1, v \in V, w \in V, Exchanged
<1>5. Good(r, {}) /\ ~r.halted
    BY <1>2, <1>3, <1>4 DEF Good
<1>6. r.vec[v] = s.vec[w] /\ r.vec[w] = s.vec[v] /\ \A x \in V \ {v, w} : r.vec[x] = s.vec[x]
    BY <1>1, <1>2 DEF Exchanges
<1> QED
    BY <1>2, <1>3, <1>4, <1>5, <1>6 DEF Reads, Traded

\* v has what the temporary had, which is as it began.
LEMMA AssignDone ==
    ASSUME NEW s, Good(s, {}), ~s.halted, NEW v \in Vectors, NEW r, r = Assign(s, v)
    PROVE  /\ Good(r, {}) /\ ~r.halted /\ r.vec[Temp] = Default
           /\ Reads(r, v) = Reads(s, Temp) /\ r.vec[v] = s.vec[Temp]
           /\ \A x \in Vectors \ {v} : Reads(r, x) = Reads(s, x) /\ r.vec[x] = s.vec[x]
<1>1. PICK y : y = Exchange(s, v, Temp)
    OBVIOUS
<1>2. v \in V /\ Temp \in V /\ v # Temp /\ \A x \in Vectors \ {v} : x \in V \ {v, Temp}
    BY NamesAssumption DEF NamesAssumption, V
<1>3. /\ Good(y, {}) /\ ~y.halted /\ Reads(y, v) = Reads(s, Temp) /\ y.vec[v] = s.vec[Temp]
      /\ \A x \in V \ {v, Temp} : Reads(y, x) = Reads(s, x) /\ y.vec[x] = s.vec[x]
    <2>1. PICK w : w = Temp
        OBVIOUS
    <2>2. y = Exchange(s, v, w) /\ w \in V /\ v \in V
        BY <1>1, <1>2, <2>1
    <2>3. Good(y, {}) /\ ~y.halted /\ Traded(s, y, v, w)
        BY ONLY <2>2, Good(s, {}), ~s.halted, ExchangeDone
    <2> QED
        BY <2>1, <2>3 DEF Traded
<1>4. r = Destruct(y, Temp)
    BY <1>1 DEF Assign
<1>5. Over(y, r, Temp, 0) /\ r.vec[Temp] = Default
    BY <1>2, <1>3, <1>4, DestructDone
<1> QED
    BY <1>2, <1>3, <1>5 DEF Over, Others

\* The texts that a vector says are texts.
LEMMA SlotText ==
    ASSUME NEW s, NEW E, Good(s, E), NEW v \in V, NEW n \in Nat, Has(s, v, n), NEW i \in 1 .. n
    PROVE  /\ IsString(s, Slot(s, v, i))
           /\ TextIn(s.heap, Slot(s, v, i)) = Reads(s, v)[i] /\ Reads(s, v)[i] \in Texts
<1>1. s.vec[v].size = n /\ Sound(s.heap, s.vec, E)
    BY DEF Has, Good
<1>2. /\ StringOK(s.heap, Ref(s.heap, s.vec, v, i)) /\ Slot(s, v, i) = Ref(s.heap, s.vec, v, i)
    <2>1. i \in 0 .. s.vec[v].size /\ i # 0
        BY <1>1
    <2> QED
        BY <1>1, <2>1, RefIs DEF Slot
<1>3. TextIn(s.heap, Slot(s, v, i)) \in Texts
    BY <1>2, NamesAssumption DEF NamesAssumption, StringOK, TextIn
<1>4. Reads(s, v)[i] = TextIn(s.heap, Slot(s, v, i))
    BY <1>1, <1>2 DEF Reads, Says
<1> QED
    BY <1>2, <1>3, <1>4 DEF IsString

\* It has halted, and the vectors of the program say what they said.
Gone(s, r) ==
    r.halted /\ (\A v \in Vectors : Reads(r, v) = Reads(s, v)) /\ \E E : Good(r, E)

\* The first k texts of a list.
First(q, k) == [j \in 1 .. k |-> q[j]]

LEMMA CopyOfDone ==
    ASSUME NEW s, Good(s, {}), ~s.halted, s.vec[Temp] = Default, NEW w \in Vectors,
           NEW r, r = CopyOf(s, w)
    PROVE  \/ Gone(s, r)
           \/ /\ Good(r, {}) /\ ~r.halted /\ Others(s, r, Temp)
              /\ Reads(r, Temp) = Reads(s, w)
<1> DEFINE q == Reads(s, w)
<1>1. w \in V /\ Temp \in V /\ w # Temp /\ Vectors \subseteq V \ {Temp}
    BY NamesAssumption DEF NamesAssumption, V
<1>2. PICK n, y : n \in Nat /\ Has(s, w, n) /\ n <= MaxSize /\ y = Reserve(s, Temp, n)
    <2>1. s.vec[w].size \in 0 .. MaxSize /\ s.vec[w].size \in Nat
        BY <1>1, Typed
    <2> QED
        BY <2>1 DEF Has
<1>3. PICK f : f[0] = y /\ f[n] = r /\ \A k \in 1 .. n : f[k] = CopyNext(f[k - 1], w, k)
    <2>1. s.vec[w].size = n
        BY <1>2 DEF Has
    <2>2. s.vec[w].size \in Nat
        BY <1>2, <2>1
    <2>3. PICK f : /\ f[0] = Reserve(s, Temp, s.vec[w].size)
                   /\ CopyOf(s, w) = f[s.vec[w].size]
                   /\ \A k \in 1 .. s.vec[w].size : f[k] = CopyNext(f[k - 1], w, k)
        BY ONLY <2>2, CopyRounds
    <2> QED
        BY <1>2, <2>1, <2>3
<1> HIDE DEF q
<1> DEFINE Copied(x, k) == Done(s, x, Temp, k, First(q, k))
           P(k) == k <= n => Gone(s, f[k]) \/ Copied(f[k], k)
<1>4. P(0)
    <2>1. Has(s, Temp, 0)
        BY DEF Default, Has
    <2>2. PICK E : E = {}
        OBVIOUS
    <2>3. /\ Alike(s, y) /\ Good(y, E)
          /\ ~y.halted => /\ \A x \in V : y.vec[x].size = s.vec[x].size
                          /\ \A x \in V \ {Temp} : y.vec[x] = s.vec[x]
        BY <1>1, <1>2, <2>2, ReserveDone
    <2>4. CASE y.halted
        <3>1. Gone(s, y)
            BY <1>1, <2>3, <2>4 DEF Gone, Alike
        <3> QED
            BY <1>3, <3>1
    <2>5. CASE ~y.halted
        <3>1. Others(s, y, Temp) /\ Has(y, Temp, 0)
            BY <1>1, <2>1, <2>3, <2>5 DEF Others, Alike, Has
        <3>2. Reads(y, Temp) = First(q, 0)
            BY <3>1 DEF Reads, Says, First, Has
        <3>3. Copied(y, 0)
            BY <2>2, <2>3, <2>5, <3>1, <3>2 DEF Done
        <3> QED
            BY <1>3, <3>3
    <2> QED
        BY <2>4, <2>5
<1>5. ASSUME NEW k \in Nat, P(k) PROVE P(k + 1)
    <2> SUFFICES ASSUME k + 1 <= n PROVE Gone(s, f[k + 1]) \/ Copied(f[k + 1], k + 1)
        OBVIOUS
    <2>1. PICK x, z, t : x = f[k] /\ z = f[k + 1] /\ t = TextIn(x.heap, Slot(x, w, k + 1))
        OBVIOUS
    <2>2. z = IF x.halted THEN x ELSE PushNew(x, Temp, t)
        <3>1. k + 1 \in 1 .. n /\ (k + 1) - 1 = k
            BY <1>2
        <3> QED
            BY <1>3, <2>1, <3>1 DEF CopyNext
    <2>3. Gone(s, x) \/ Copied(x, k)
        BY <1>2, <1>5, <2>1
    <2>4. CASE x.halted
        BY <2>1, <2>2, <2>3, <2>4 DEF Gone, Done
    <2>5. CASE ~x.halted
        <3>1. Copied(x, k) /\ z = PushNew(x, Temp, t)
            BY <2>2, <2>3, <2>5 DEF Gone
        <3>2. Good(x, {}) /\ Others(s, x, Temp) /\ Has(x, Temp, k) /\ Reads(x, Temp) = First(q, k)
            BY <3>1 DEF Done
        <3>3. Has(x, w, n) /\ Reads(x, w) = q
            BY <1>1, <1>2, <3>2 DEF Others, Has, q
        <3>4. t = q[k + 1] /\ t \in Texts
            <4>1. k + 1 \in 1 .. n
                BY <1>2
            <4>2. /\ TextIn(x.heap, Slot(x, w, k + 1)) = Reads(x, w)[k + 1]
                  /\ Reads(x, w)[k + 1] \in Texts
                <5>1. PICK E : E = {}
                    OBVIOUS
                <5>2. Good(x, E)
                    BY <3>2, <5>1
                <5> QED
                    BY ONLY <1>1, <1>2, <3>3, <4>1, <5>2, SlotText
            <4> QED
                BY <2>1, <3>3, <4>2
        <3>5. k < MaxSize
            <4>1. MaxSize \in Nat
                BY SizesAssumption DEF SizesAssumption
            <4> QED
                BY <1>2, <4>1
        <3>6. Stuck(x, z) \/ Done(x, z, Temp, k + 1, Longer(Reads(x, Temp), k, t))
            BY <1>1, <2>5, <3>1, <3>2, <3>4, <3>5, PushNewDone
        <3>7. Longer(First(q, k), k, t) = First(q, k + 1)
            BY <3>4 DEF Longer, First
        <3>8. CASE Stuck(x, z)
            <4>1. \A v \in Vectors : v \in V /\ v \in V \ {Temp}
                BY <1>1
            <4>2. Gone(s, z)
                BY <3>2, <3>8, <4>1 DEF Stuck, Gone, Others, Alike
            <4> QED
                BY <2>1, <4>2
        <3>9. CASE Done(x, z, Temp, k + 1, Longer(Reads(x, Temp), k, t))
            <4>1. Copied(z, k + 1)
                BY <3>2, <3>7, <3>9 DEF Done, Others
            <4> QED
                BY <2>1, <4>1
        <3> QED
            BY <3>6, <3>8, <3>9
    <2> QED
        BY <2>4, <2>5
<1>6. \A k \in Nat : P(k)
    <2> DEFINE S == {k \in Nat : P(k)}
    <2>1. 0 \in S /\ \A k \in Nat : k \in S => k + 1 \in S
        BY <1>4, <1>5
    <2>2. \A k \in Nat : k \in S
        <3> HIDE DEF S
        <3> QED
            BY <2>1, NumberInduction
    <2> QED
        BY <2>2
<1>7. Gone(s, r) \/ Copied(r, n)
    BY <1>2, <1>3, <1>6
<1>8. First(q, n) = q
    BY <1>2 DEF First, q, Reads, Says, Has
<1> QED
    BY <1>7, <1>8 DEF Done, q

-----------------------------------------------------------------------------
(* The calls of the program, as lists. *)

\* Between calls nothing is held, and the temporary is as it began.
Ready(s) == Good(s, {}) /\ ~s.halted /\ s.vec[Temp] = Default

Tells(s) == [v \in Vectors |-> Reads(s, v)]

\* A call ends with the lists l, or halts.
Outcome(s, r, l) == Gone(s, r) \/ (Ready(r) /\ Tells(r) = l)

LEMMA Names == Temp \in V /\ \A v \in Vectors : v \in V /\ v # Temp
BY NamesAssumption DEF NamesAssumption, V

LEMMA DoneOutcome ==
    ASSUME NEW s, Ready(s), NEW v \in Vectors, NEW n, NEW q, NEW r, Done(s, r, v, n, q)
    PROVE  Outcome(s, r, [Tells(s) EXCEPT ![v] = q])
<1>1. Temp \in V \ {v} /\ \A w \in Vectors \ {v} : w \in V \ {v}
    BY Names
<1>2. r.vec[Temp] = Default /\ Good(r, {}) /\ ~r.halted
    BY <1>1 DEF Done, Others, Ready
<1>3. Tells(r) = [Tells(s) EXCEPT ![v] = q]
    BY <1>1 DEF Done, Others, Tells
<1> QED
    BY <1>2, <1>3 DEF Outcome, Ready

LEMMA OverOutcome ==
    ASSUME NEW s, Ready(s), NEW v \in Vectors, NEW r, Over(s, r, v, 0)
    PROVE  Outcome(s, r, [Tells(s) EXCEPT ![v] = <<>>])
<1>1. Reads(r, v) = <<>>
    BY DEF Over, Has, Reads, Says
<1>2. Done(s, r, v, 0, <<>>)
    BY <1>1 DEF Over, Done
<1> QED
    BY <1>2, DoneOutcome

LEMMA StuckOutcome ==
    ASSUME NEW s, NEW r, Stuck(s, r)
    PROVE  \A l : Outcome(s, r, l)
BY Names DEF Stuck, Outcome, Gone, Alike

\* The list of a vector is a sequence of texts.
LEMMA TellsIs ==
    ASSUME NEW s, Ready(s), NEW v \in Vectors
    PROVE  \E n \in Nat : /\ Has(s, v, n) /\ n <= MaxSize /\ Len(Tells(s)[v]) = n
                          /\ Tells(s)[v] = Reads(s, v) /\ Reads(s, v) \in Seq(Texts)
                          /\ DOMAIN Reads(s, v) = 1 .. n
                          /\ \A i \in 1 .. n : Reads(s, v)[i] \in Texts
<1>1. v \in V /\ Good(s, {})
    BY Names DEF Ready
<1>2. PICK n \in Nat : Has(s, v, n) /\ n <= MaxSize
    BY <1>1, Typed DEF Has
<1>3. \A i \in 1 .. n : Reads(s, v)[i] \in Texts
    <2> TAKE i \in 1 .. n
    <2>1. PICK E : E = {}
        OBVIOUS
    <2>2. Good(s, E)
        BY <1>1, <2>1
    <2> QED
        BY ONLY <1>1, <1>2, <2>2, i \in 1 .. n, SlotText
<1>4. PICK q : q = Reads(s, v)
    OBVIOUS
<1>5. q \in [1 .. n -> Texts]
    <2>1. DOMAIN q = 1 .. n /\ q = [i \in DOMAIN q |-> q[i]]
        BY <1>2, <1>4 DEF Reads, Says, Has
    <2> QED
        BY <1>3, <1>4, <2>1
<1>6. q \in Seq(Texts) /\ Len(q) = n /\ DOMAIN q = 1 .. n
    BY <1>5
<1> QED
    BY <1>2, <1>3, <1>4, <1>6 DEF Tells

LEMMA PushNewOutcome ==
    ASSUME NEW s, Ready(s), NEW v \in Vectors, s.vec[v].size < MaxSize, NEW t \in Texts,
           NEW r, r = PushNew(s, v, t)
    PROVE  Outcome(s, r, [Tells(s) EXCEPT ![v] = Append(Tells(s)[v], t)])
<1>1. PICK n \in Nat : /\ Has(s, v, n) /\ Len(Tells(s)[v]) = n /\ Tells(s)[v] = Reads(s, v)
                       /\ Reads(s, v) \in Seq(Texts)
    BY TellsIs
<1>2. Stuck(s, r) \/ Done(s, r, v, n + 1, Longer(Reads(s, v), n, t))
    <2>1. v \in V /\ Good(s, {}) /\ ~s.halted /\ n < MaxSize
        BY <1>1, Names DEF Ready, Has
    <2> QED
        BY <1>1, <2>1, PushNewDone
<1>3. Longer(Reads(s, v), n, t) = Append(Tells(s)[v], t)
    <2>1. PICK q : q = Reads(s, v)
        OBVIOUS
    <2>2. Longer(q, n, t) = Append(q, t)
        <3>1. q \in Seq(Texts) /\ Len(q) = n
            BY <1>1, <2>1
        <3>2. PICK l : l = Append(q, t)
            OBVIOUS
        <3>3. l \in Seq(Texts) /\ Len(l) = n + 1 /\ l[n + 1] = t /\ \A i \in 1 .. n : l[i] = q[i]
            BY <3>1, <3>2, AppendProperties
        <3>4. DOMAIN l = 1 .. n + 1 /\ l = [i \in DOMAIN l |-> l[i]]
            BY <3>3
        <3>5. \A i \in 1 .. n + 1 : l[i] = IF i = n + 1 THEN t ELSE q[i]
            BY <3>3
        <3> QED
            BY <3>2, <3>4, <3>5 DEF Longer
    <2> QED
        BY <1>1, <2>1, <2>2
<1>4. CASE Stuck(s, r)
    BY <1>4, StuckOutcome
<1>5. CASE Done(s, r, v, n + 1, Append(Tells(s)[v], t))
    BY <1>5, DoneOutcome
<1> QED
    BY <1>2, <1>3, <1>4, <1>5

LEMMA PopBackOutcome ==
    ASSUME NEW s, Ready(s), NEW v \in Vectors, NEW r, r = PopBack(s, v)
    PROVE  Outcome(s, r, [Tells(s) EXCEPT ![v] =
                                IF Tells(s)[v] = <<>> THEN <<>> ELSE L!Front(Tells(s)[v])])
<1>1. PICK n \in Nat : /\ Has(s, v, n) /\ Len(Tells(s)[v]) = n /\ Tells(s)[v] = Reads(s, v)
                       /\ Reads(s, v) \in Seq(Texts)
    BY TellsIs
<1>2. CASE n = 0
    <2>1. Tells(s)[v] = <<>>
        BY <1>1, <1>2
    <2>2. r = s
        BY <1>1, <1>2 DEF PopBack, Has
    <2>3. [Tells(s) EXCEPT ![v] = <<>>] = Tells(s)
        BY <2>1 DEF Tells
    <2> QED
        BY <2>1, <2>2, <2>3 DEF Outcome
<1>3. CASE n # 0
    <2>1. Tells(s)[v] # <<>>
        BY <1>1, <1>3
    <2>2. Done(s, r, v, n - 1, Shorter(Reads(s, v), n))
        BY <1>1, <1>3, PopBackDone, Names DEF Ready
    <2>3. Shorter(Reads(s, v), n) = L!Front(Tells(s)[v])
        <3>1. PICK q : q = Reads(s, v)
            OBVIOUS
        <3>2. Shorter(q, n) = SubSeq(q, 1, Len(q) - 1)
            BY <1>1, <1>3, <3>1 DEF Shorter
        <3> QED
            BY <1>1, <3>1, <3>2 DEF L!Front
    <2> QED
        BY <2>1, <2>2, <2>3, DoneOutcome
<1> QED
    BY <1>2, <1>3

LEMMA InsertOutcome ==
    ASSUME NEW s, Ready(s), NEW v \in Vectors, s.vec[v].size < MaxSize, NEW t \in Texts,
           NEW pos \in 0 .. s.vec[v].size, NEW r, r = Insert(s, v, pos, t)
    PROVE  Outcome(s, r, [Tells(s) EXCEPT ![v] = L!InsertAt(Tells(s)[v], pos + 1, t)])
<1>1. PICK n \in Nat : /\ Has(s, v, n) /\ Len(Tells(s)[v]) = n /\ Tells(s)[v] = Reads(s, v)
                       /\ Reads(s, v) \in Seq(Texts)
    BY TellsIs
<1>2. pos \in 0 .. n /\ n < MaxSize /\ v \in V /\ Good(s, {}) /\ ~s.halted
    BY <1>1, Names DEF Ready, Has
<1>3. Stuck(s, r) \/ Done(s, r, v, n + 1, Inserted(Reads(s, v), n, pos, t))
    BY <1>1, <1>2, InsertDone
<1>4. Inserted(Reads(s, v), n, pos, t) = L!InsertAt(Tells(s)[v], pos + 1, t)
    <2>1. PICK q : q = Reads(s, v) /\ q \in Seq(Texts) /\ Len(q) = n
        BY <1>1
    <2>2. PICK a, b : a = SubSeq(q, 1, pos) /\ b = SubSeq(q, pos + 1, n)
        OBVIOUS
    <2>3. /\ a \in Seq(Texts) /\ Len(a) = pos /\ \A i \in 1 .. pos : a[i] = q[i]
          /\ b \in Seq(Texts) /\ Len(b) = n - pos /\ \A i \in 1 .. n - pos : b[i] = q[i + pos]
        BY <1>2, <2>1, <2>2
    <2>4. PICK c : c = a \o <<t>>
        OBVIOUS
    <2>5. /\ c \in Seq(Texts) /\ Len(c) = pos + 1 /\ c[pos + 1] = t
          /\ \A i \in 1 .. pos : c[i] = q[i]
        BY <1>2, <2>3, <2>4, AppendIsConcat, AppendProperties
    <2>6. PICK d : d = c \o b
        OBVIOUS
    <2>7. /\ d \in Seq(Texts) /\ Len(d) = n + 1
          /\ \A i \in 1 .. pos + 1 : d[i] = c[i]
          /\ \A i \in 1 .. n - pos : d[i + (pos + 1)] = b[i]
        <3>1. Len(c) + Len(b) = n + 1
            BY <1>2, <2>3, <2>5
        <3>2. /\ d \in Seq(Texts) /\ Len(d) = n + 1
              /\ \A i \in 1 .. n + 1 : d[i] = IF i <= Len(c) THEN c[i] ELSE b[i - Len(c)]
            BY <2>3, <2>5, <2>6, <3>1, ConcatProperties
        <3>3. \A i \in 1 .. n - pos : d[i + (pos + 1)] = b[i]
            <4> TAKE i \in 1 .. n - pos
            <4>1. PICK j : j = i + (pos + 1)
                OBVIOUS
            <4>2. j \in 1 .. n + 1 /\ ~ (j <= Len(c)) /\ j - Len(c) = i
                BY <1>2, <2>5, <4>1
            <4> QED
                BY <3>2, <4>1, <4>2
        <3> QED
            BY <1>2, <2>5, <3>2, <3>3
    <2>8. \A i \in 1 .. n + 1 : d[i] = IF i <= pos THEN q[i] ELSE IF i = pos + 1 THEN t ELSE q[i - 1]
        <3> TAKE i \in 1 .. n + 1
        <3>1. CASE i <= pos + 1
            BY <1>2, <2>5, <2>7, <3>1
        <3>2. CASE i > pos + 1
            <4>1. PICK k : k = i - pos - 1
                OBVIOUS
            <4>2. k \in 1 .. n - pos /\ k + (pos + 1) = i /\ k + pos = i - 1 /\ i # pos + 1 /\ ~ (i <= pos)
                BY <1>2, <3>2, <4>1
            <4> QED
                BY <2>3, <2>7, <4>2
        <3> QED
            BY <3>1, <3>2
    <2>9. d = Inserted(q, n, pos, t)
        BY <2>7, <2>8 DEF Inserted
    <2>10. d = L!InsertAt(q, pos + 1, t)
        <3>1. (pos + 1) - 1 = pos /\ Len(q) = n
            BY <1>2, <2>1
        <3> QED
            BY <2>2, <2>4, <2>6, <3>1 DEF L!InsertAt
    <2> QED
        BY <1>1, <2>1, <2>9, <2>10
<1>5. CASE Stuck(s, r)
    BY <1>5, StuckOutcome
<1>6. CASE Done(s, r, v, n + 1, L!InsertAt(Tells(s)[v], pos + 1, t))
    BY <1>6, DoneOutcome
<1> QED
    BY <1>3, <1>4, <1>5, <1>6

LEMMA EraseOutcome ==
    ASSUME NEW s, Ready(s), NEW v \in Vectors, NEW pos \in 1 .. s.vec[v].size,
           NEW r, r = Erase(s, v, pos)
    PROVE  Outcome(s, r, [Tells(s) EXCEPT ![v] = L!RemoveAt(Tells(s)[v], pos)])
<1>1. PICK n \in Nat : /\ Has(s, v, n) /\ Len(Tells(s)[v]) = n /\ Tells(s)[v] = Reads(s, v)
                       /\ Reads(s, v) \in Seq(Texts)
    BY TellsIs
<1>2. pos \in 1 .. n /\ v \in V /\ Good(s, {}) /\ ~s.halted
    BY <1>1, Names DEF Ready, Has
<1>3. Done(s, r, v, n - 1, Erased(Reads(s, v), n, pos))
    BY <1>1, <1>2, EraseDone
<1>4. Erased(Reads(s, v), n, pos) = L!RemoveAt(Tells(s)[v], pos)
    <2>1. PICK q : q = Reads(s, v) /\ q \in Seq(Texts) /\ Len(q) = n
        BY <1>1
    <2>2. PICK a, b : a = SubSeq(q, 1, pos - 1) /\ b = SubSeq(q, pos + 1, n)
        OBVIOUS
    <2>3. /\ a \in Seq(Texts) /\ Len(a) = pos - 1 /\ \A i \in 1 .. pos - 1 : a[i] = q[i]
          /\ b \in Seq(Texts) /\ Len(b) = n - pos /\ \A i \in 1 .. n - pos : b[i] = q[i + pos]
        BY <1>2, <2>1, <2>2
    <2>4. PICK d : d = a \o b
        OBVIOUS
    <2>5. /\ d \in Seq(Texts) /\ Len(d) = n - 1
          /\ \A i \in 1 .. pos - 1 : d[i] = a[i]
          /\ \A i \in 1 .. n - pos : d[i + (pos - 1)] = b[i]
        <3>1. Len(a) + Len(b) = n - 1
            BY <1>2, <2>3
        <3>2. /\ d \in Seq(Texts) /\ Len(d) = n - 1
              /\ \A i \in 1 .. n - 1 : d[i] = IF i <= Len(a) THEN a[i] ELSE b[i - Len(a)]
            BY ONLY <2>3, <2>4, <3>1, ConcatProperties
        <3>3. \A i \in 1 .. n - pos : d[i + (pos - 1)] = b[i]
            <4> TAKE i \in 1 .. n - pos
            <4>1. PICK j : j = i + (pos - 1)
                OBVIOUS
            <4>2. j \in 1 .. n - 1 /\ ~ (j <= Len(a)) /\ j - Len(a) = i
                BY <1>2, <2>3, <4>1
            <4> QED
                BY <3>2, <4>1, <4>2
        <3> QED
            BY <1>2, <2>3, <3>2, <3>3
    <2>6. \A i \in 1 .. n - 1 : d[i] = IF i < pos THEN q[i] ELSE q[i + 1]
        <3> TAKE i \in 1 .. n - 1
        <3>1. CASE i < pos
            BY <1>2, <2>3, <2>5, <3>1
        <3>2. CASE ~ (i < pos)
            <4>1. PICK k : k = i - pos + 1
                OBVIOUS
            <4>2. k \in 1 .. n - pos /\ k + (pos - 1) = i /\ k + pos = i + 1
                BY <1>2, <3>2, <4>1
            <4> QED
                BY <2>3, <2>5, <3>2, <4>2
        <3> QED
            BY <3>1, <3>2
    <2>7. d = Erased(q, n, pos)
        BY <1>2, <2>5, <2>6 DEF Erased
    <2>8. d = L!RemoveAt(q, pos)
        BY <2>1, <2>2, <2>4 DEF L!RemoveAt
    <2> QED
        BY <1>1, <2>1, <2>7, <2>8
<1> QED
    BY <1>3, <1>4, DoneOutcome

LEMMA ReserveOutcome ==
    ASSUME NEW s, Ready(s), NEW v \in Vectors, NEW n \in Nat, NEW r, r = Reserve(s, v, n)
    PROVE  Outcome(s, r, Tells(s))
<1>1. PICK E : E = {}
    OBVIOUS
<1>2. v \in V /\ Good(s, E) /\ ~s.halted
    BY <1>1, Names DEF Ready
<1>3. /\ Alike(s, r) /\ Good(r, E)
      /\ ~r.halted => \A w \in V \ {v} : r.vec[w] = s.vec[w]
    BY <1>2, ReserveDone
<1>4. \A w \in Vectors : Reads(r, w) = Reads(s, w)
    BY <1>3, Names DEF Alike
<1>5. CASE r.halted
    BY <1>3, <1>4, <1>5 DEF Outcome, Gone
<1>6. CASE ~r.halted
    <2>1. r.vec[Temp] = Default
        BY <1>3, <1>6, Names DEF Ready
    <2>2. Tells(r) = Tells(s)
        BY <1>4 DEF Tells
    <2> QED
        BY <1>1, <1>3, <1>6, <2>1, <2>2 DEF Outcome, Ready
<1> QED
    BY <1>5, <1>6

LEMMA ClearOutcome ==
    ASSUME NEW s, Ready(s), NEW v \in Vectors, NEW r, r = ClearAll(s, v)
    PROVE  Outcome(s, r, [Tells(s) EXCEPT ![v] = <<>>])
<1>1. v \in V /\ Good(s, {}) /\ ~s.halted
    BY Names DEF Ready
<1> QED
    BY <1>1, ClearAllDone, OverOutcome

LEMMA DestructOutcome ==
    ASSUME NEW s, Ready(s), NEW v \in Vectors, NEW r, r = Destruct(s, v)
    PROVE  Outcome(s, r, [Tells(s) EXCEPT ![v] = <<>>])
<1>1. v \in V /\ Good(s, {}) /\ ~s.halted
    BY Names DEF Ready
<1> QED
    BY <1>1, DestructDone, OverOutcome

LEMMA SetOutcome ==
    ASSUME NEW s, Ready(s), NEW v \in Vectors,
           NEW i \in 1 .. s.vec[v].size, NEW j \in 1 .. s.vec[v].size,
           NEW x, x = MakeString(s, TextIn(s.heap, Slot(s, v, j))),
           NEW r, r = IF x.halted THEN x ELSE AssignSlot(x, v, i, x.made),
           NEW l, l = Replaced(Tells(s)[v], i, Tells(s)[v][j])
    PROVE  Outcome(s, r, Replaced(Tells(s), v, l))
<1>1. PICK n \in Nat : /\ Has(s, v, n) /\ Tells(s)[v] = Reads(s, v)
                       /\ \A k \in 1 .. n : Reads(s, v)[k] \in Texts
    BY TellsIs
<1>2. PICK E, t : E = {} /\ t = Reads(s, v)[j]
    OBVIOUS
<1>3. i \in 1 .. n /\ j \in 1 .. n /\ v \in V /\ Good(s, E) /\ ~s.halted /\ t \in Texts
    BY <1>1, <1>2, Names DEF Ready, Has
<1>4. TextIn(s.heap, Slot(s, v, j)) = t
    <2>1. /\ TextIn(s.heap, Slot(s, v, j)) = Reads(s, v)[j]
          /\ IsString(s, Slot(s, v, j)) /\ Reads(s, v)[j] \in Texts
        BY ONLY <1>1, <1>3, SlotText
    <2> QED
        BY <1>2, <2>1
<1>5. /\ Alike(s, x) /\ x.vec = s.vec
      /\ x.halted => Good(x, {})
      /\ ~x.halted => /\ Good(x, {x.made} \ {Null}) /\ StringOK(x.heap, x.made)
                      /\ TextIn(x.heap, x.made) = t
    <2>1. x = MakeString(s, t) /\ Good(s, {}) /\ ~s.halted /\ t \in Texts
        BY <1>2, <1>3, <1>4
    <2> QED
        BY <2>1, MakeStringDone
<1>6. CASE x.halted
    <2>1. Stuck(s, r)
        BY <1>5, <1>6 DEF Stuck
    <2> QED
        BY <2>1, StuckOutcome
<1>7. CASE ~x.halted
    <2>1. PICK p : p = x.made
        OBVIOUS
    <2>2. Done(x, r, v, n, [Reads(x, v) EXCEPT ![i] = TextIn(x.heap, p)])
        <3>1. /\ Good(x, {p} \ {Null}) /\ StringOK(x.heap, p) /\ Has(x, v, n)
              /\ r = AssignSlot(x, v, i, p)
            BY <1>1, <1>5, <1>7, <2>1 DEF Has
        <3> QED
            BY <1>3, <1>7, <3>1, AssignSlotDone
    <2>3. [Reads(x, v) EXCEPT ![i] = TextIn(x.heap, p)] = [Reads(s, v) EXCEPT ![i] = t]
        BY <1>3, <1>5, <1>7, <2>1 DEF Alike
    <2>4. PICK q : q = [Reads(s, v) EXCEPT ![i] = t]
        OBVIOUS
    <2>5. Done(s, r, v, n, q)
        BY <1>5, <2>2, <2>3, <2>4 DEF Done, Others, Alike
    <2>6. Outcome(s, r, [Tells(s) EXCEPT ![v] = q])
        BY <2>5, DoneOutcome
    <2>7. q = l
        BY <1>1, <1>2, <2>4 DEF Replaced
    <2> QED
        BY <2>6, <2>7 DEF Replaced
<1> QED
    BY <1>6, <1>7

LEMMA CopyOutcome ==
    ASSUME NEW s, Ready(s), NEW v \in Vectors, NEW w \in Vectors,
           NEW x, x = CopyOf(s, w), NEW r, r = IF x.halted THEN x ELSE Assign(x, v)
    PROVE  Outcome(s, r, [Tells(s) EXCEPT ![v] = Tells(s)[w]])
<1>1. \/ Gone(s, x)
      \/ Good(x, {}) /\ ~x.halted /\ Others(s, x, Temp) /\ Reads(x, Temp) = Reads(s, w)
    BY CopyOfDone DEF Ready
<1>2. CASE Gone(s, x)
    BY <1>2 DEF Gone, Outcome
<1>3. CASE Good(x, {}) /\ ~x.halted /\ Others(s, x, Temp) /\ Reads(x, Temp) = Reads(s, w)
    <2>1. r = Assign(x, v)
        BY <1>3
    <2>2. /\ Good(r, {}) /\ ~r.halted /\ r.vec[Temp] = Default
          /\ Reads(r, v) = Reads(x, Temp)
          /\ \A u \in Vectors \ {v} : Reads(r, u) = Reads(x, u)
        BY <1>3, <2>1, AssignDone
    <2>3. \A u \in Vectors : Reads(x, u) = Reads(s, u)
        BY <1>3, Names DEF Others
    <2>4. Tells(r) = [Tells(s) EXCEPT ![v] = Tells(s)[w]]
        BY <1>3, <2>2, <2>3 DEF Tells
    <2> QED
        BY <2>2, <2>4 DEF Outcome, Ready
<1> QED
    BY <1>1, <1>2, <1>3

LEMMA MoveOutcome ==
    ASSUME NEW s, Ready(s), NEW v \in Vectors, NEW w \in Vectors,
           NEW r, r = Assign(Exchange(s, Temp, w), v)
    PROVE  Outcome(s, r, [x \in Vectors |-> IF x = v THEN Tells(s)[w]
                                            ELSE IF x = w THEN <<>> ELSE Tells(s)[x]])
<1>1. PICK y, T : y = Exchange(s, T, w) /\ T = Temp
    OBVIOUS
<1>2. Good(y, {}) /\ ~y.halted /\ Traded(s, y, T, w)
    <2>1. T \in V /\ w \in V /\ Good(s, {}) /\ ~s.halted
        BY <1>1, Names DEF Ready
    <2> QED
        BY <1>1, <2>1, ExchangeDone
<1>3. /\ Good(r, {}) /\ ~r.halted /\ r.vec[Temp] = Default
      /\ Reads(r, v) = Reads(y, Temp)
      /\ \A u \in Vectors \ {v} : Reads(r, u) = Reads(y, u)
    <2>1. r = Assign(y, v)
        BY <1>1
    <2> QED
        BY <1>2, <2>1, AssignDone
<1>4. Reads(s, Temp) = <<>>
    BY DEF Ready, Default, Reads, Says
<1>5. /\ Reads(y, Temp) = Reads(s, w) /\ Reads(y, w) = <<>>
      /\ \A u \in Vectors \ {w} : Reads(y, u) = Reads(s, u)
    BY <1>1, <1>2, <1>4, Names DEF Traded
<1>6. Tells(r) = [x \in Vectors |-> IF x = v THEN Tells(s)[w]
                                    ELSE IF x = w THEN <<>> ELSE Tells(s)[x]]
    BY <1>3, <1>5 DEF Tells
<1> QED
    BY <1>3, <1>6 DEF Outcome, Ready

LEMMA SwapOutcome ==
    ASSUME NEW s, Ready(s), NEW v \in Vectors, NEW w \in Vectors, NEW r, r = Exchange(s, v, w)
    PROVE  Outcome(s, r, [Tells(s) EXCEPT ![v] = Tells(s)[w], ![w] = Tells(s)[v]])
<1>1. Good(r, {}) /\ ~r.halted /\ Traded(s, r, v, w)
    <2>1. v \in V /\ w \in V /\ Good(s, {}) /\ ~s.halted
        BY Names DEF Ready
    <2> QED
        BY <2>1, ExchangeDone
<1>2. Temp \in V \ {v, w} /\ \A x \in Vectors \ {v, w} : x \in V \ {v, w}
    BY Names
<1>3. r.vec[Temp] = Default
    BY <1>1, <1>2 DEF Traded, Ready
<1>4. Tells(r) = [Tells(s) EXCEPT ![v] = Tells(s)[w], ![w] = Tells(s)[v]]
    BY <1>1, <1>2 DEF Traded, Tells
<1> QED
    BY <1>1, <1>3, <1>4 DEF Outcome, Ready

-----------------------------------------------------------------------------
(* The invariant, and the actions. *)

\* Every buffer has its owner in every state, and between calls nobody holds one.
IInv == (\E E : Good(Now, E)) /\ (~halted => Ready(Now))

Shown == [v \in Vectors |-> Contents(v)]

LEMMA SaysIs ==
    ASSUME NEW h, NEW d, NEW E, Sound(h, d, E), NEW v \in V
    PROVE  [i \in 1 .. d[v].size |->
                LET p == h[d[v].data][i] IN IF p \in {Null} \cup DOMAIN h THEN TextIn(h, p) ELSE Raw]
                = Says(h, d, v)
<1>1. \A i \in 1 .. d[v].size :
        h[d[v].data][i] = Ref(h, d, v, i) /\ Ref(h, d, v, i) \in {Null} \cup DOMAIN h
    <2> TAKE i \in 1 .. d[v].size
    <2>1. i \in 0 .. d[v].size /\ i # 0
        OBVIOUS
    <2> QED
        BY <2>1, RefIs
<1> QED
    BY <1>1 DEF Says

LEMMA ShownIs ==
    ASSUME IInv
    PROVE  Shown = Tells(Now)
<1>1. PICK E : Sound(heap, vec, E)
    BY DEF IInv, Good, Now
<1>2. ASSUME NEW v \in Vectors PROVE Contents(v) = Says(heap, vec, v)
    BY <1>1, SaysIs, Names DEF Contents, Slot, Now
<1> QED
    BY <1>2 DEF Shown, Tells, Reads, Now

LEMMA ShownWillBe ==
    ASSUME IInv'
    PROVE  Shown' = Tells(Now)'
<1>1. PICK E : Sound(heap', vec', E)
    BY DEF IInv, Good, Now
<1>2. ASSUME NEW v \in Vectors PROVE Contents(v)' = Says(heap', vec', v)
    BY <1>1, SaysIs, Names DEF Contents, Slot, Now
<1> QED
    BY <1>2 DEF Shown, Tells, Reads, Now

LEMMA NowIs ==
    ASSUME IInv, ~halted
    PROVE  /\ Ready(Now) /\ Now.heap = heap /\ Now.vec = vec /\ Now.halted = FALSE
           /\ Shown = Tells(Now)
BY ShownIs DEF IInv, Ready, Good, Now

\* A call is what its operation made of the state.
LEMMA CommitDone ==
    ASSUME IInv, ~halted, NEW c, NEW r, Commit(c, r), NEW l, Outcome(Now, r, l)
    PROVE  IInv' /\ call' = c /\ L!Becomes(l)
<1>1. /\ call' = c /\ heap' = r.heap /\ vec' = r.vec /\ halted' = r.halted
      /\ misused' = r.misused
    BY DEF Commit
<1>2. PICK n : n = Now'
    OBVIOUS
<1>3. /\ n = [heap |-> heap', vec |-> vec', halted |-> halted', misused |-> misused', made |-> Null]
      /\ n.heap = r.heap /\ n.vec = r.vec /\ n.halted = r.halted /\ n.misused = r.misused
    BY <1>1, <1>2 DEF Now
<1>4. \A E : Good(r, E) => Good(n, E)
    BY <1>3 DEF Good, IsState
<1>5. Tells(n) = Tells(r)
    BY <1>3 DEF Tells, Reads
<1>6. Shown = Tells(Now) /\ halted = FALSE
    BY NowIs DEF Now
<1>7. CASE Gone(Now, r)
    <2>1. IInv' /\ halted' = TRUE
        <3>1. halted' = TRUE /\ \E E : Good(n, E)
            BY <1>1, <1>4, <1>7 DEF Gone, Good
        <3> QED
            BY <1>2, <3>1 DEF IInv
    <2>2. Tells(r) = Tells(Now)
        BY <1>7 DEF Gone, Tells
    <2>3. Shown' = Shown
        <3>1. Shown' = Tells(Now)'
            BY <2>1, ShownWillBe
        <3>2. Tells(Now)' = Tells(n)
            BY <1>2 DEF Tells, Reads
        <3> QED
            BY <1>5, <1>6, <2>2, <3>1, <3>2
    <2> QED
        BY <1>1, <2>1, <2>3 DEF L!Becomes, Shown
<1>8. CASE Ready(r) /\ Tells(r) = l
    <2>1. IInv' /\ halted' = FALSE
        <3>1. Good(n, {}) /\ ~n.halted /\ n.vec[Temp] = Default /\ halted' = FALSE
            BY <1>1, <1>3, <1>4, <1>8 DEF Ready, Good
        <3>2. PICK E : E = {}
            OBVIOUS
        <3>3. Ready(n) /\ Good(n, E)
            BY <3>1, <3>2 DEF Ready
        <3> QED
            BY <1>2, <3>1, <3>3 DEF IInv, Ready
    <2>2. Shown' = l
        <3>1. Shown' = Tells(Now)'
            BY <2>1, ShownWillBe
        <3>2. Tells(Now)' = Tells(n)
            BY <1>2 DEF Tells, Reads
        <3> QED
            BY <1>5, <1>8, <3>1, <3>2
    <2> QED
        BY <1>1, <1>6, <2>1, <2>2 DEF L!Becomes, Shown
<1> QED
    BY <1>7, <1>8 DEF Outcome

LEMMA InitDone == Init => IInv /\ L!Init
<1> SUFFICES ASSUME Init PROVE IInv /\ L!Init
    OBVIOUS
<1>1. heap = <<>> /\ vec = [v \in V |-> Default] /\ halted = FALSE /\ misused = FALSE /\ call = <<>>
    BY DEF Init, V
<1>2. PICK E : E = {}
    OBVIOUS
<1>3. Sound(heap, vec, E)
    <2>1. DOMAIN heap = {}
        BY <1>1
    <2>2. vec \in [V -> VectorFields]
        BY <1>1, SizesAssumption DEF VectorFields, Default, Null, SizesAssumption
    <2>3. \A v \in V : vec[v].size = 0 /\ vec[v].data = Null /\ vec[v].capacity = 0
        BY <1>1 DEF Default
    <2>4. \A v \in V : BufferOK(heap, vec, v) /\ StringsOK(heap, vec, v)
        BY <2>3 DEF BufferOK, StringsOK
    <2>5. \A v \in V : \A i \in 0 .. vec[v].size : Ref(heap, vec, v, i) = Null
        BY <2>3 DEF Ref
    <2>6. Apart(heap, vec, E) /\ Covered(heap, vec, E)
        BY <1>2, <2>1, <2>5 DEF Apart, Covered
    <2> QED
        BY <1>2, <2>1, <2>2, <2>4, <2>6 DEF Sound
<1>4. Good(Now, E) /\ Ready(Now)
    <2>1. IsState(Now) /\ Now.heap = heap /\ Now.vec = vec /\ Now.halted = FALSE /\ Now.misused = FALSE
        BY <1>1 DEF IsState, Now
    <2>2. Good(Now, E)
        BY <1>3, <2>1 DEF Good
    <2> QED
        BY <1>1, <1>2, <2>1, <2>2, Names DEF Ready
<1>5. IInv
    BY <1>4 DEF IInv
<1>6. Shown = [v \in Vectors |-> <<>>]
    <2>1. \A v \in Vectors : Contents(v) = <<>>
        BY <1>1, Names DEF Contents, Default
    <2> QED
        BY <2>1 DEF Shown
<1> QED
    BY <1>1, <1>5, <1>6 DEF L!Init, Shown

\* What v[i] says is what the list of v has there.
LEMMA TextsShown ==
    ASSUME NEW s, Ready(s), NEW v \in Vectors, NEW i \in 1 .. s.vec[v].size
    PROVE  TextIn(s.heap, Slot(s, v, i)) = Tells(s)[v][i]
<1>1. PICK n \in Nat : Has(s, v, n) /\ Tells(s)[v] = Reads(s, v)
    BY TellsIs
<1>2. PICK E : E = {}
    OBVIOUS
<1>3. v \in V /\ Good(s, E) /\ i \in 1 .. n
    BY <1>1, <1>2, Names DEF Ready, Has
<1>4. TextIn(s.heap, Slot(s, v, i)) = Reads(s, v)[i]
    <2>1. /\ IsString(s, Slot(s, v, i))
          /\ TextIn(s.heap, Slot(s, v, i)) = Reads(s, v)[i] /\ Reads(s, v)[i] \in Texts
        BY ONLY <1>1, <1>3, SlotText
    <2> QED
        BY <2>1
<1> QED
    BY <1>1, <1>4

LEMMA PushBackTextDone ==
    ASSUME IInv, ~halted, NEW v \in Vectors, PushBackText(v)
    PROVE  IInv' /\ L!Next
<1>1. PICK s : s = Now
    OBVIOUS
<1>2. Ready(s) /\ s.heap = heap /\ s.vec = vec /\ Shown = Tells(s)
    BY <1>1, NowIs
<1>3. /\ Len(Shown[v]) = vec[v].size /\ vec[v].size \in Nat
      /\ DOMAIN Shown[v] = 1 .. vec[v].size
      /\ \A i \in 1 .. vec[v].size : Shown[v][i] \in Texts
    BY <1>2, TellsIs DEF Has
<1>4. PICK t \in Texts : vec[v].size < MaxSize /\ Commit(<<"push_back", v, t>>, PushNew(s, v, t))
    BY <1>1, <1>2, <1>3 DEF PushBackText, Room
<1>5. PICK r, l : r = PushNew(s, v, t) /\ l = [Shown EXCEPT ![v] = Append(Shown[v], t)]
    OBVIOUS
<1>6. Outcome(s, r, l)
    BY <1>2, <1>4, <1>5, PushNewOutcome
<1>7. IInv' /\ call' = <<"push_back", v, t>> /\ L!Becomes(l)
    <2>1. Commit(<<"push_back", v, t>>, r) /\ Outcome(Now, r, l)
        BY <1>1, <1>4, <1>5, <1>6
    <2> QED
        BY <2>1, CommitDone
<1>8. L!PushBack(v, t)
    BY <1>2, <1>5, <1>7 DEF L!PushBack, L!With, Shown
<1> QED
    BY <1>3, <1>4, <1>7, <1>8 DEF L!Next, Shown

LEMMA PushBackOwnDone ==
    ASSUME IInv, ~halted, NEW v \in Vectors, PushBackOwn(v)
    PROVE  IInv' /\ L!Next
<1>1. PICK s : s = Now
    OBVIOUS
<1>2. Ready(s) /\ s.heap = heap /\ s.vec = vec /\ Shown = Tells(s)
    BY <1>1, NowIs
<1>3. /\ Len(Shown[v]) = vec[v].size /\ vec[v].size \in Nat
      /\ DOMAIN Shown[v] = 1 .. vec[v].size
      /\ \A i \in 1 .. vec[v].size : Shown[v][i] \in Texts
    BY <1>2, TellsIs DEF Has
<1>4. PICK i \in 1 .. vec[v].size : vec[v].size < MaxSize /\ Commit(<<"push_own", v, i>>, PushNew(s, v, Shown[v][i]))
    BY <1>1, <1>2, <1>3, TextsShown DEF PushBackOwn, Room
<1>5. PICK r, l : r = PushNew(s, v, Shown[v][i]) /\ l = [Shown EXCEPT ![v] = Append(Shown[v], Shown[v][i])]
    OBVIOUS
<1>6. Outcome(s, r, l)
    <2>1. PICK t : t = Shown[v][i]
        OBVIOUS
    <2>2. /\ t \in Texts /\ r = PushNew(s, v, t) /\ s.vec[v].size < MaxSize
          /\ l = [Tells(s) EXCEPT ![v] = Append(Tells(s)[v], t)]
        BY <1>2, <1>3, <1>4, <1>5, <2>1
    <2> QED
        BY <1>2, <2>2, PushNewOutcome
<1>7. IInv' /\ call' = <<"push_own", v, i>> /\ L!Becomes(l)
    <2>1. Commit(<<"push_own", v, i>>, r) /\ Outcome(Now, r, l)
        BY <1>1, <1>4, <1>5, <1>6
    <2> QED
        BY <2>1, CommitDone
<1>8. L!PushOwn(v, i)
    BY <1>2, <1>5, <1>7 DEF L!PushOwn, L!With, Shown
<1> QED
    BY <1>3, <1>4, <1>7, <1>8 DEF L!Next, Shown

LEMMA InsertTextDone ==
    ASSUME IInv, ~halted, NEW v \in Vectors, InsertText(v)
    PROVE  IInv' /\ L!Next
<1>1. PICK s : s = Now
    OBVIOUS
<1>2. Ready(s) /\ s.heap = heap /\ s.vec = vec /\ Shown = Tells(s)
    BY <1>1, NowIs
<1>3. /\ Len(Shown[v]) = vec[v].size /\ vec[v].size \in Nat
      /\ DOMAIN Shown[v] = 1 .. vec[v].size
      /\ \A i \in 1 .. vec[v].size : Shown[v][i] \in Texts
    BY <1>2, TellsIs DEF Has
<1>4. PICK t \in Texts, pos \in 0 .. vec[v].size : vec[v].size < MaxSize /\ Commit(<<"insert", v, pos + 1, t>>, Insert(s, v, pos, t))
    BY <1>1, <1>2, <1>3 DEF InsertText, Room
<1>5. PICK r, l : r = Insert(s, v, pos, t) /\ l = [Shown EXCEPT ![v] = L!InsertAt(Shown[v], pos + 1, t)]
    OBVIOUS
<1>6. Outcome(s, r, l)
    BY <1>2, <1>4, <1>5, InsertOutcome
<1>7. IInv' /\ call' = <<"insert", v, pos + 1, t>> /\ L!Becomes(l)
    <2>1. Commit(<<"insert", v, pos + 1, t>>, r) /\ Outcome(Now, r, l)
        BY <1>1, <1>4, <1>5, <1>6
    <2> QED
        BY <2>1, CommitDone
<1>8. L!Insert(v, pos + 1, t)
    BY <1>2, <1>5, <1>7 DEF L!Insert, L!With, Shown
<1> QED
    BY <1>3, <1>4, <1>7, <1>8 DEF L!Next, Shown

LEMMA EraseOneDone ==
    ASSUME IInv, ~halted, NEW v \in Vectors, EraseOne(v)
    PROVE  IInv' /\ L!Next
<1>1. PICK s : s = Now
    OBVIOUS
<1>2. Ready(s) /\ s.heap = heap /\ s.vec = vec /\ Shown = Tells(s)
    BY <1>1, NowIs
<1>3. /\ Len(Shown[v]) = vec[v].size /\ vec[v].size \in Nat
      /\ DOMAIN Shown[v] = 1 .. vec[v].size
      /\ \A i \in 1 .. vec[v].size : Shown[v][i] \in Texts
    BY <1>2, TellsIs DEF Has
<1>4. PICK pos \in 1 .. vec[v].size : Commit(<<"erase", v, pos>>, Erase(s, v, pos))
    BY <1>1, <1>2, <1>3 DEF EraseOne
<1>5. PICK r, l : r = Erase(s, v, pos) /\ l = [Shown EXCEPT ![v] = L!RemoveAt(Shown[v], pos)]
    OBVIOUS
<1>6. Outcome(s, r, l)
    BY <1>2, <1>4, <1>5, EraseOutcome
<1>7. IInv' /\ call' = <<"erase", v, pos>> /\ L!Becomes(l)
    <2>1. Commit(<<"erase", v, pos>>, r) /\ Outcome(Now, r, l)
        BY <1>1, <1>4, <1>5, <1>6
    <2> QED
        BY <2>1, CommitDone
<1>8. L!Erase(v, pos)
    BY <1>2, <1>5, <1>7 DEF L!Erase, L!With, Shown
<1> QED
    BY <1>3, <1>4, <1>7, <1>8 DEF L!Next, Shown

LEMMA SetElementDone ==
    ASSUME IInv, ~halted, NEW v \in Vectors, SetElement(v)
    PROVE  IInv' /\ L!Next
<1>1. PICK s : s = Now
    OBVIOUS
<1>2. Ready(s) /\ s.heap = heap /\ s.vec = vec /\ Shown = Tells(s)
    BY <1>1, NowIs
<1>3. /\ Len(Shown[v]) = vec[v].size /\ vec[v].size \in Nat
      /\ DOMAIN Shown[v] = 1 .. vec[v].size
      /\ \A i \in 1 .. vec[v].size : Shown[v][i] \in Texts
    BY <1>2, TellsIs DEF Has
<1>4. PICK i, j \in 1 .. vec[v].size :
        Commit(<<"set", v, i, j>>,
               IF MakeString(Now, TextIn(heap, Slot(Now, v, j))).halted
               THEN MakeString(Now, TextIn(heap, Slot(Now, v, j)))
               ELSE AssignSlot(MakeString(Now, TextIn(heap, Slot(Now, v, j))), v, i,
                               MakeString(Now, TextIn(heap, Slot(Now, v, j))).made))
    BY DEF SetElement, Then
<1>5. PICK x, r, q, l : /\ x = MakeString(s, TextIn(s.heap, Slot(s, v, j)))
                        /\ r = IF x.halted THEN x ELSE AssignSlot(x, v, i, x.made)
                        /\ q = [Shown[v] EXCEPT ![i] = Shown[v][j]]
                        /\ l = [Shown EXCEPT ![v] = q]
    OBVIOUS
<1>6. Outcome(s, r, l)
    <2>1. /\ Ready(s) /\ i \in 1 .. s.vec[v].size /\ j \in 1 .. s.vec[v].size
          /\ q = Replaced(Tells(s)[v], i, Tells(s)[v][j]) /\ l = Replaced(Tells(s), v, q)
        BY <1>2, <1>5 DEF Replaced
    <2>2. Outcome(s, r, Replaced(Tells(s), v, q))
        BY ONLY <1>5, <2>1, v \in Vectors, SetOutcome
    <2> QED
        BY <2>1, <2>2
<1>7. IInv' /\ call' = <<"set", v, i, j>> /\ L!Becomes(l)
    <2>1. x = MakeString(Now, TextIn(heap, Slot(Now, v, j)))
        BY <1>1, <1>2, <1>5
    <2>2. Commit(<<"set", v, i, j>>, r) /\ Outcome(Now, r, l)
        BY <1>1, <1>4, <1>5, <1>6, <2>1
    <2> QED
        BY <2>2, CommitDone
<1>8. L!Set(v, i, j)
    <2>1. q = [[w \in Vectors |-> Contents(w)][v] EXCEPT
                    ![i] = [w \in Vectors |-> Contents(w)][v][j]]
        BY <1>5 DEF Shown
    <2>2. l = L!With(v, q)
        BY <1>5 DEF L!With, Shown
    <2> HIDE DEF L!With, L!Becomes
    <2> QED
        BY <1>7, <2>1, <2>2 DEF L!Set
<1> QED
    BY <1>3, <1>4, <1>7, <1>8 DEF L!Next, Shown

LEMMA PopBackOneDone ==
    ASSUME IInv, ~halted, NEW v \in Vectors, PopBackOne(v)
    PROVE  IInv' /\ L!Next
<1>1. PICK s : s = Now
    OBVIOUS
<1>2. Ready(s) /\ s.heap = heap /\ s.vec = vec /\ Shown = Tells(s)
    BY <1>1, NowIs
<1>3. /\ Len(Shown[v]) = vec[v].size /\ vec[v].size \in Nat
      /\ DOMAIN Shown[v] = 1 .. vec[v].size
      /\ \A i \in 1 .. vec[v].size : Shown[v][i] \in Texts
    BY <1>2, TellsIs DEF Has
<1>4. Commit(<<"pop_back", v>>, PopBack(s, v))
    BY <1>1 DEF PopBackOne
<1>5. PICK r, l : r = PopBack(s, v) /\ l = [Shown EXCEPT ![v] =
                        IF Shown[v] = <<>> THEN <<>> ELSE L!Front(Shown[v])]
    OBVIOUS
<1>6. Outcome(s, r, l)
    BY <1>2, <1>5, PopBackOutcome
<1>7. IInv' /\ call' = <<"pop_back", v>> /\ L!Becomes(l)
    <2>1. Commit(<<"pop_back", v>>, r) /\ Outcome(Now, r, l)
        BY <1>1, <1>4, <1>5, <1>6
    <2> QED
        BY <2>1, CommitDone
<1>8. L!PopBack(v)
    BY <1>2, <1>5, <1>7 DEF L!PopBack, L!With, Shown
<1> QED
    BY <1>7, <1>8 DEF L!Next

LEMMA ClearVectorDone ==
    ASSUME IInv, ~halted, NEW v \in Vectors, ClearVector(v)
    PROVE  IInv' /\ L!Next
<1>1. PICK s : s = Now
    OBVIOUS
<1>2. Ready(s) /\ s.heap = heap /\ s.vec = vec /\ Shown = Tells(s)
    BY <1>1, NowIs
<1>3. /\ Len(Shown[v]) = vec[v].size /\ vec[v].size \in Nat
      /\ DOMAIN Shown[v] = 1 .. vec[v].size
      /\ \A i \in 1 .. vec[v].size : Shown[v][i] \in Texts
    BY <1>2, TellsIs DEF Has
<1>4. Commit(<<"clear", v>>, ClearAll(s, v))
    BY <1>1 DEF ClearVector
<1>5. PICK r, l : r = ClearAll(s, v) /\ l = [Shown EXCEPT ![v] = <<>>]
    OBVIOUS
<1>6. Outcome(s, r, l)
    BY <1>2, <1>5, ClearOutcome
<1>7. IInv' /\ call' = <<"clear", v>> /\ L!Becomes(l)
    <2>1. Commit(<<"clear", v>>, r) /\ Outcome(Now, r, l)
        BY <1>1, <1>4, <1>5, <1>6
    <2> QED
        BY <2>1, CommitDone
<1>8. L!Clear(v)
    BY <1>2, <1>5, <1>7 DEF L!Clear, L!With, Shown
<1> QED
    BY <1>7, <1>8 DEF L!Next

LEMMA EndOfLifeDone ==
    ASSUME IInv, ~halted, NEW v \in Vectors, EndOfLife(v)
    PROVE  IInv' /\ L!Next
<1>1. PICK s : s = Now
    OBVIOUS
<1>2. Ready(s) /\ s.heap = heap /\ s.vec = vec /\ Shown = Tells(s)
    BY <1>1, NowIs
<1>3. /\ Len(Shown[v]) = vec[v].size /\ vec[v].size \in Nat
      /\ DOMAIN Shown[v] = 1 .. vec[v].size
      /\ \A i \in 1 .. vec[v].size : Shown[v][i] \in Texts
    BY <1>2, TellsIs DEF Has
<1>4. Commit(<<"clear", v>>, Destruct(s, v))
    BY <1>1 DEF EndOfLife
<1>5. PICK r, l : r = Destruct(s, v) /\ l = [Shown EXCEPT ![v] = <<>>]
    OBVIOUS
<1>6. Outcome(s, r, l)
    BY <1>2, <1>5, DestructOutcome
<1>7. IInv' /\ call' = <<"clear", v>> /\ L!Becomes(l)
    <2>1. Commit(<<"clear", v>>, r) /\ Outcome(Now, r, l)
        BY <1>1, <1>4, <1>5, <1>6
    <2> QED
        BY <2>1, CommitDone
<1>8. L!Clear(v)
    BY <1>2, <1>5, <1>7 DEF L!Clear, L!With, Shown
<1> QED
    BY <1>7, <1>8 DEF L!Next

LEMMA ReserveMoreDone ==
    ASSUME IInv, ~halted, NEW v \in Vectors, ReserveMore(v)
    PROVE  IInv' /\ L!Next
<1>1. PICK s : s = Now
    OBVIOUS
<1>2. Ready(s) /\ s.heap = heap /\ s.vec = vec /\ Shown = Tells(s)
    BY <1>1, NowIs
<1>3. /\ Len(Shown[v]) = vec[v].size /\ vec[v].size \in Nat
      /\ DOMAIN Shown[v] = 1 .. vec[v].size
      /\ \A i \in 1 .. vec[v].size : Shown[v][i] \in Texts
    BY <1>2, TellsIs DEF Has
<1>4. PICK n \in Reserves : Commit(<<"reserve", v>>, Reserve(s, v, n))
    BY <1>1, <1>2, <1>3 DEF ReserveMore
<1>5. PICK r, l : r = Reserve(s, v, n) /\ l = Shown
    OBVIOUS
<1>6. Outcome(s, r, l)
    BY <1>2, <1>4, <1>5, ReserveOutcome, SizesAssumption DEF SizesAssumption
<1>7. IInv' /\ call' = <<"reserve", v>> /\ L!Becomes(l)
    <2>1. Commit(<<"reserve", v>>, r) /\ Outcome(Now, r, l)
        BY <1>1, <1>4, <1>5, <1>6
    <2> QED
        BY <2>1, CommitDone
<1>8. L!Reserve(v)
    BY <1>2, <1>5, <1>7 DEF L!Reserve, L!With, Shown
<1> QED
    BY <1>3, <1>4, <1>7, <1>8 DEF L!Next, Shown

LEMMA CopyAssignDone ==
    ASSUME IInv, ~halted, NEW v \in Vectors, NEW w \in Vectors, CopyAssign(v, w)
    PROVE  IInv' /\ L!Next
<1>1. PICK s : s = Now
    OBVIOUS
<1>2. Ready(s) /\ s.heap = heap /\ s.vec = vec /\ Shown = Tells(s)
    BY <1>1, NowIs
<1>3. Commit(<<"copy", v, w>>, LET x == CopyOf(s, w) IN IF x.halted THEN x ELSE Assign(x, v))
    BY <1>1 DEF CopyAssign, Then
<1>4. PICK r, l : /\ r = LET x == CopyOf(s, w) IN IF x.halted THEN x ELSE Assign(x, v)
                  /\ l = [Shown EXCEPT ![v] = Shown[w]]
    OBVIOUS
<1>5. Outcome(s, r, l)
    BY <1>2, <1>4, CopyOutcome
<1>6. IInv' /\ call' = <<"copy", v, w>> /\ L!Becomes(l)
    <2>1. Commit(<<"copy", v, w>>, r) /\ Outcome(Now, r, l)
        BY <1>1, <1>3, <1>4, <1>5
    <2> QED
        BY <2>1, CommitDone
<1>7. L!Copy(v, w)
    BY <1>2, <1>4, <1>6 DEF L!Copy, L!With, Shown
<1> QED
    BY <1>6, <1>7 DEF L!Next

LEMMA MoveAssignDone ==
    ASSUME IInv, ~halted, NEW v \in Vectors, NEW w \in Vectors, MoveAssign(v, w)
    PROVE  IInv' /\ L!Next
<1>1. PICK s : s = Now
    OBVIOUS
<1>2. Ready(s) /\ s.heap = heap /\ s.vec = vec /\ Shown = Tells(s)
    BY <1>1, NowIs
<1>3. Commit(<<"move", v, w>>, Assign(Exchange(s, Temp, w), v))
    BY <1>1 DEF MoveAssign
<1>4. PICK r, l : /\ r = Assign(Exchange(s, Temp, w), v)
                  /\ l = [x \in Vectors |-> IF x = v THEN Shown[w]
                                        ELSE IF x = w THEN <<>> ELSE Shown[x]]
    OBVIOUS
<1>5. Outcome(s, r, l)
    BY <1>2, <1>4, MoveOutcome
<1>6. IInv' /\ call' = <<"move", v, w>> /\ L!Becomes(l)
    <2>1. Commit(<<"move", v, w>>, r) /\ Outcome(Now, r, l)
        BY <1>1, <1>3, <1>4, <1>5
    <2> QED
        BY <2>1, CommitDone
<1>7. L!Move(v, w)
    BY <1>2, <1>4, <1>6 DEF L!Move, L!With, Shown
<1> QED
    BY <1>6, <1>7 DEF L!Next

LEMMA SwapVectorsDone ==
    ASSUME IInv, ~halted, NEW v \in Vectors, NEW w \in Vectors, SwapVectors(v, w)
    PROVE  IInv' /\ L!Next
<1>1. PICK s : s = Now
    OBVIOUS
<1>2. Ready(s) /\ s.heap = heap /\ s.vec = vec /\ Shown = Tells(s)
    BY <1>1, NowIs
<1>3. Commit(<<"swap", v, w>>, Exchange(s, v, w))
    BY <1>1 DEF SwapVectors
<1>4. PICK r, l : /\ r = Exchange(s, v, w)
                  /\ l = [Shown EXCEPT ![v] = Shown[w], ![w] = Shown[v]]
    OBVIOUS
<1>5. Outcome(s, r, l)
    BY <1>2, <1>4, SwapOutcome
<1>6. IInv' /\ call' = <<"swap", v, w>> /\ L!Becomes(l)
    <2>1. Commit(<<"swap", v, w>>, r) /\ Outcome(Now, r, l)
        BY <1>1, <1>3, <1>4, <1>5
    <2> QED
        BY <2>1, CommitDone
<1>7. L!Swap(v, w)
    BY <1>2, <1>4, <1>6 DEF L!Swap, L!With, Shown
<1> QED
    BY <1>6, <1>7 DEF L!Next

LEMMA NextDone ==
    ASSUME IInv, [Next]_vars
    PROVE  IInv' /\ [L!Next]_(L!vars)
<1>1. CASE UNCHANGED vars
    <2>1. Now' = Now /\ halted' = halted /\ call' = call /\ heap' = heap /\ vec' = vec
        BY <1>1 DEF vars, Now
    <2>2. IInv'
        BY <2>1 DEF IInv
    <2>3. Shown' = Shown
        BY <2>1 DEF Shown, Contents
    <2> QED
        BY <2>1, <2>2, <2>3 DEF L!vars, Shown
<1>2. CASE Next
    <2>1. ~halted
        BY <1>2 DEF Next
    <2>2. PICK v \in Vectors :
            \/ PushBackText(v) \/ PushBackOwn(v) \/ PopBackOne(v) \/ InsertText(v) \/ EraseOne(v)
            \/ ReserveMore(v) \/ ClearVector(v) \/ EndOfLife(v) \/ SetElement(v)
            \/ \E w \in Vectors : CopyAssign(v, w) \/ MoveAssign(v, w) \/ SwapVectors(v, w)
        BY <1>2 DEF Next
    <2>3. CASE PushBackText(v)
        BY <2>1, <2>3, PushBackTextDone
    <2>4. CASE PushBackOwn(v)
        BY <2>1, <2>4, PushBackOwnDone
    <2>5. CASE PopBackOne(v)
        BY <2>1, <2>5, PopBackOneDone
    <2>6. CASE InsertText(v)
        BY <2>1, <2>6, InsertTextDone
    <2>7. CASE EraseOne(v)
        BY <2>1, <2>7, EraseOneDone
    <2>8. CASE ReserveMore(v)
        BY <2>1, <2>8, ReserveMoreDone
    <2>9. CASE ClearVector(v)
        BY <2>1, <2>9, ClearVectorDone
    <2>10. CASE EndOfLife(v)
        BY <2>1, <2>10, EndOfLifeDone
    <2>11. CASE SetElement(v)
        BY <2>1, <2>11, SetElementDone
    <2>12. ASSUME NEW w \in Vectors, CopyAssign(v, w) PROVE IInv' /\ L!Next
        BY <2>1, <2>12, CopyAssignDone
    <2>13. ASSUME NEW w \in Vectors, MoveAssign(v, w) PROVE IInv' /\ L!Next
        BY <2>1, <2>13, MoveAssignDone
    <2>14. ASSUME NEW w \in Vectors, SwapVectors(v, w) PROVE IInv' /\ L!Next
        BY <2>1, <2>14, SwapVectorsDone
    <2> QED
        BY <2>2, <2>3, <2>4, <2>5, <2>6, <2>7, <2>8, <2>9, <2>10, <2>11, <2>12, <2>13, <2>14
<1> QED
    BY <1>1, <1>2

-----------------------------------------------------------------------------
(* The theorems. *)

\* The owners of a buffer are the pointers that are equal to it.
LEMMA OwnersAre ==
    ASSUME Ready(Now), NEW b \in 1 .. NBufs
    PROVE  Cardinality(Owners(b)) = IF b \in DOMAIN heap THEN 1 ELSE 0
<1>1. PICK E : E = {} /\ Sound(heap, vec, E)
    BY DEF Ready, Good, Now
<1>2. vec \in [V -> VectorFields] /\ MaxSize \in Nat
    BY <1>1, SizesAssumption DEF Sound, SizesAssumption
<1>3. \A v \in V : vec[v].size \in 0 .. MaxSize
    BY <1>2 DEF VectorFields
<1>4. ASSUME NEW v, NEW i
      PROVE  <<v, i>> \in Owners(b)
                <=> v \in V /\ i \in 0 .. vec[v].size /\ Ref(heap, vec, v, i) = b
    <2>1. <<v, i>> \in Owners(b) <=> /\ v \in V /\ i \in 0 .. MaxSize /\ i <= vec[v].size
                                     /\ b = Ref(heap, vec, v, i)
        BY <1>2 DEF Owners, Ref, Slot, Now
    <2> QED
        BY <1>2, <1>3, <2>1
<1>5. \A o \in Owners(b) : o = <<o[1], o[2]>>
    BY DEF Owners
<1>6. CASE b \in DOMAIN heap
    <2>1. PICK v \in V : \E i \in 0 .. vec[v].size : Ref(heap, vec, v, i) = b
        BY <1>1, <1>6 DEF Sound, Covered
    <2>2. PICK i \in 0 .. vec[v].size : Ref(heap, vec, v, i) = b
        BY <2>1
    <2>3. \A w \in V : \A j \in 0 .. vec[w].size : Ref(heap, vec, w, j) = b => w = v /\ j = i
        BY <1>1, <2>2 DEF Sound, Apart, Null
    <2>4. <<v, i>> \in Owners(b)
        BY <1>4, <2>2
    <2>5. \A o \in Owners(b) : o = <<v, i>>
        <3> TAKE o \in Owners(b)
        <3>1. PICK w, j : o = <<w, j>>
            BY <1>5
        <3>2. w \in V /\ j \in 0 .. vec[w].size /\ Ref(heap, vec, w, j) = b
            BY <1>4, <3>1
        <3> QED
            BY <2>3, <3>1, <3>2
    <2>6. Owners(b) = {<<v, i>>}
        BY <2>4, <2>5
    <2> QED
        BY <1>6, <2>6, FS_Singleton
<1>7. CASE b \notin DOMAIN heap
    <2>1. \A o \in Owners(b) : FALSE
        <3> TAKE o \in Owners(b)
        <3>1. PICK w, j : o = <<w, j>>
            BY <1>5
        <3>2. w \in V /\ j \in 0 .. vec[w].size /\ Ref(heap, vec, w, j) = b
            BY <1>4, <3>1
        <3>3. b \in {Null} \cup DOMAIN heap
            BY <1>1, <3>2, RefIs
        <3> QED
            BY <1>7, <3>3 DEF Null
    <2>2. Owners(b) = {}
        BY <2>1
    <2> QED
        BY <1>7, <2>2, FS_EmptySet
<1> QED
    BY <1>6, <1>7

LEMMA OwnershipFollows == IInv => Ownership
<1> SUFFICES ASSUME IInv PROVE Ownership
    OBVIOUS
<1>1. PICK E : Good(Now, E)
    BY DEF IInv
<1>2. Sound(heap, vec, E) /\ misused = FALSE /\ halted \in BOOLEAN
    <2>1. ~misused /\ misused = Now.misused /\ halted = Now.halted
        BY <1>1 DEF Good, Now
    <2>2. Sound(heap, vec, E) /\ halted \in BOOLEAN
        BY <1>1 DEF Good, Now
    <2> QED
        BY <2>1, <2>2 DEF IInv, Good, Now
<1>3. TypeOK
    <2>1. vec \in [V -> VectorFields] /\ DOMAIN heap \subseteq 1 .. NBufs
        BY <1>2 DEF Sound
    <2>2. ASSUME NEW v \in V PROVE vec[v].data \in 0 .. NBufs
        <3>1. vec[v].data = Null \/ vec[v].data \in DOMAIN heap
            BY <1>2 DEF Sound, BufferOK
        <3> QED
            BY <2>1, <3>1, SizesAssumption DEF SizesAssumption, Null
    <2> QED
        BY <1>2, <2>1, <2>2 DEF TypeOK, VectorFields
<1>4. LiveBelowSize
    <2> SUFFICES ASSUME NEW v \in Vectors, vec[v].data # Null
                 PROVE  /\ vec[v].data \in DOMAIN heap
                        /\ Len(heap[vec[v].data]) = vec[v].capacity /\ vec[v].size <= vec[v].capacity
                        /\ \A i \in 1 .. vec[v].capacity :
                                heap[vec[v].data][i] = Raw <=> i > vec[v].size
        <3>1. \A v \in Vectors : vec[v].data = Null => vec[v].size = 0
            BY <1>2, Names DEF Sound, BufferOK
        <3> QED
            BY <3>1 DEF LiveBelowSize
    <2>1. BufferOK(heap, vec, v)
        BY <1>2, Names DEF Sound
    <2>2. PICK f, n : f = heap[vec[v].data] /\ n = vec[v].capacity
        OBVIOUS
    <2>3. n \in Nat /\ f \in [1 .. n -> Nat \cup {Raw}]
        BY <2>1, <2>2 DEF BufferOK
    <2>4. Len(f) = n
        BY <2>3
    <2> QED
        BY <2>1, <2>2, <2>4 DEF BufferOK
<1>5. OwnedOnce
    BY <1>2, OwnersAre DEF OwnedOnce, IInv
<1> QED
    BY <1>3, <1>4, <1>5 DEF Ownership

\* Whatever the program calls, on however many vectors, a buffer that is allocated has one
\* owner, and a slot holds an object just where its vector has an element: the moves of
\* reserve, insert, erase, swap and operator= leak nothing and delete nothing twice.
THEOREM OwnershipHolds == Spec => []Ownership
<1>1. Init => IInv
    BY InitDone
<1>2. IInv /\ [Next]_vars => IInv'
    BY NextDone
<1>3. IInv => Ownership
    BY OwnershipFollows
<1> QED
    BY <1>1, <1>2, <1>3, PTL DEF Spec

\* Vector<String> implements lists of texts: a call leaves every vector with the texts that
\* it would have if it were a list, or halts before any of them has changed.
THEOREM ListsImplemented == Spec => ImplementsLists
<1>1. Init => IInv /\ L!Init
    BY InitDone
<1>2. IInv /\ [Next]_vars => IInv' /\ [L!Next]_(L!vars)
    BY NextDone
<1> QED
    BY <1>1, <1>2, PTL DEF Spec, ImplementsLists, L!Spec

==============================================================================
