----------------------------- MODULE Containers ------------------------------
(***************************************************************************)
(* Vector and String (lib/), as Vector<String>: buffers, the objects in    *)
(* them and who owns what, on a heap that can be full.  A String is its    *)
(* data_, since its size_ is 0 just when that is null; a buffer holds a    *)
(* text, or the slots of a vector, Raw where no object lives.  operator    *)
(* new returns null when the heap is full, which only a write through the  *)
(* null notices: a page fault, and interrupt_handler halts.                *)
(***************************************************************************)
EXTENDS Integers, Sequences, FiniteSets, Functions

CONSTANTS
    Vectors,        \* the vectors of the program
    Texts,          \* what a String can say
    Empty,          \* the text of no characters
    NBufs,          \* bound: the buffers the heap has room for
    FirstCapacity,  \* the capacity of the first growth
    MaxSize,        \* bound: the elements of a vector
    Reserves,       \* bound: the capacities asked of reserve
    Temp, Raw       \* a vector that lives within one operation; a slot without object

ASSUME NamesAssumption == Empty \in Texts /\ Temp \notin Vectors /\ Raw \notin Nat \cup Texts

ASSUME SizesAssumption ==
    NBufs \in Nat /\ MaxSize \in Nat /\ FirstCapacity \in Nat \ {0} /\ Reserves \subseteq Nat

VARIABLES
    heap,           \* the allocated buffers and what they hold
    vec,            \* the vectors' data, size and capacity
    halted,         \* a null pointer was written through
    misused,        \* something was deleted that is not allocated
    call            \* the last call the program made

vars == <<heap, vec, halted, misused, call>>

Null == 0
Default == [data |-> Null, size |-> 0, capacity |-> 0]

\* The operators below take and give the whole state, and the String last made.
Now == [heap |-> heap, vec |-> vec, halted |-> halted, misused |-> misused, made |-> Null]

Commit(c, s) ==
    /\ call' = c
    /\ heap' = s.heap /\ vec' = s.vec /\ halted' = s.halted /\ misused' = s.misused

Then(s, Op(_)) == IF s.halted THEN s ELSE Op(s)

\* A loop of n rounds.
Repeat(s, n, Round(_, _)) ==
    LET after[k \in 0 .. n] == IF k = 0 THEN s ELSE Round(after[k - 1], k) IN after[n]

Halt(s) == [s EXCEPT !.halted = TRUE]

\* operator new, and operator delete.
Fresh(s) ==
    LET free == (1 .. NBufs) \ DOMAIN s.heap
    IN  IF free = {} THEN Null ELSE CHOOSE b \in free : \A c \in free : b <= c

Put(s, b, what) == [s EXCEPT !.heap = [c \in DOMAIN @ \cup {b} |-> IF c = b THEN what ELSE @[c]]]

Delete(s, b) ==
    CASE b = Null -> s
      [] b \in DOMAIN s.heap -> [s EXCEPT !.heap = Restrict(@, DOMAIN @ \ {b})]
      [] OTHER -> [s EXCEPT !.misused = TRUE]

-----------------------------------------------------------------------------
(* String *)

\* assign(): no buffer for an empty text.
MakeString(s, t) ==
    IF t = Empty THEN [s EXCEPT !.made = Null]
    ELSE IF Fresh(s) = Null THEN Halt(s)
    ELSE [Put(s, Fresh(s), t) EXCEPT !.made = Fresh(s)]

TextIn(h, p) == IF p = Null THEN Empty ELSE h[p]

\* data_[i] of the vector v.
Slot(s, v, i) == s.heap[s.vec[v].data][i]

SetSlot(s, v, i, p) == [s EXCEPT !.heap[s.vec[v].data][i] = p]

\* v[i] = a String whose pointer is p: swapped in, and the old text deleted.
AssignSlot_WithoutDelete(s, v, i, p) == SetSlot(s, v, i, p)

AssignSlot(s, v, i, p) == Delete(SetSlot(s, v, i, p), Slot(s, v, i))

-----------------------------------------------------------------------------
(* Vector *)

Slots(s, v, n) ==
    [i \in 1 .. n |-> IF i <= s.vec[v].size THEN Slot(s, v, i) ELSE Raw]

\* Every element is moved to the new buffer, so the old ones' pointers go with them.
\* Where memory is out, only an element that is moved notices.
Reserve(s, v, n) ==
    LET grown == [s EXCEPT !.vec[v].data = Fresh(s), !.vec[v].capacity = n]
    IN  IF n <= s.vec[v].capacity THEN s
        ELSE IF Fresh(s) # Null
        THEN Delete(Put(grown, Fresh(s), Slots(s, v, n)), s.vec[v].data)
        ELSE IF s.vec[v].size > 0 THEN Halt(s)
        ELSE Delete(grown, s.vec[v].data)

\* The value, which owns the pointer p, is moved in.
Construct(s, v, p) ==
    IF s.vec[v].data = Null THEN Halt(s)
    ELSE [SetSlot(s, v, s.vec[v].size + 1, p) EXCEPT !.vec[v].size = @ + 1]

PushBack(s, v, p) ==
    LET full == s.vec[v].size = s.vec[v].capacity
        more == IF s.vec[v].capacity = 0 THEN FirstCapacity ELSE 2 * s.vec[v].capacity
    IN  Then(IF full THEN Reserve(s, v, more) ELSE s, LAMBDA x : Construct(x, v, p))

\* push_back of a String made for the call: from a literal, or as a copy.
PushNew(s, v, t) == Then(MakeString(s, t), LAMBDA x : PushBack(x, v, x.made))

PopBack(s, v) ==
    LET n == s.vec[v].size
    IN  IF n = 0 THEN s
        ELSE Delete([SetSlot(s, v, n, Raw) EXCEPT !.vec[v].size = n - 1], Slot(s, v, n))

ClearAll(s, v) == Repeat(s, s.vec[v].size, LAMBDA x, k : PopBack(x, v))

Destruct(s, v) ==
    LET cleared == ClearAll(s, v)
    IN  [Delete(cleared, cleared.vec[v].data) EXCEPT !.vec[v] = Default]

\* Appended, then swapped down into its place, after pos others.
Insert(s, v, pos, t) ==
    LET Swapped(x, i) == SetSlot(SetSlot(x, v, i, Slot(x, v, i - 1)), v, i - 1, Slot(x, v, i))
        n == s.vec[v].size + 1
    IN  Then(PushNew(s, v, t),
             LAMBDA x : Repeat(x, n - 1 - pos, LAMBDA y, k : Swapped(y, n + 1 - k)))

\* Each element after pos is moved down one: the first of these moves deletes the one erased.
Erase(s, v, pos) ==
    LET Moved(x, i) == AssignSlot(SetSlot(x, v, i + 1, Null), v, i, Slot(x, v, i + 1))
    IN  PopBack(Repeat(s, s.vec[v].size - pos, LAMBDA x, k : Moved(x, pos + k - 1)), v)

Exchange(s, v, w) == [s EXCEPT !.vec[v] = s.vec[w], !.vec[w] = s.vec[v]]

\* The copy, or the vector moved from, is operator='s parameter; it dies with what v had.
Assign(s, v) == Destruct(Exchange(s, v, Temp), Temp)

CopyOf(s, w) ==
    LET Push(x, i) == Then(x, LAMBDA y : PushNew(y, Temp, TextIn(y.heap, Slot(y, w, i))))
    IN  Repeat(Reserve(s, Temp, s.vec[w].size), s.vec[w].size, Push)

-----------------------------------------------------------------------------
(* The program *)

Init ==
    /\ heap = <<>>
    /\ vec = [v \in Vectors \cup {Temp} |-> Default]
    /\ halted = FALSE
    /\ misused = FALSE
    /\ call = <<>>

Room(v) == vec[v].size < MaxSize

PushBackText(v) == Room(v) /\ \E t \in Texts : Commit(<<"push_back", v, t>>, PushNew(Now, v, t))

\* As if the parameter were a reference: read after the buffer may have moved.
PushBackOwn_ByReference(v) ==
    /\ Room(v)
    /\ \E i \in 1 .. vec[v].size :
        LET full == vec[v].size = vec[v].capacity
            s == IF full THEN Reserve(Now, v, 2 * vec[v].capacity) ELSE Now
        IN  Commit(<<"push_own", v, i>>,
                   Then(s, LAMBDA x : PushNew(x, v, IF full THEN Empty
                                                    ELSE TextIn(heap, Slot(Now, v, i)))))

\* v.push_back(v[i]): the parameter is copied before anything moves.
PushBackOwn(v) ==
    /\ Room(v)
    /\ \E i \in 1 .. vec[v].size :
        Commit(<<"push_own", v, i>>, PushNew(Now, v, TextIn(heap, Slot(Now, v, i))))

PopBackOne(v) == Commit(<<"pop_back", v>>, PopBack(Now, v))

InsertText(v) ==
    /\ Room(v)
    /\ \E t \in Texts, pos \in 0 .. vec[v].size :
        Commit(<<"insert", v, pos + 1, t>>, Insert(Now, v, pos, t))

EraseOne(v) == \E pos \in 1 .. vec[v].size : Commit(<<"erase", v, pos>>, Erase(Now, v, pos))

ReserveMore(v) == \E n \in Reserves : Commit(<<"reserve", v>>, Reserve(Now, v, n))

ClearVector(v) == Commit(<<"clear", v>>, ClearAll(Now, v))

\* The vector's life ends, and that of a new one of its name begins.
EndOfLife(v) == Commit(<<"clear", v>>, Destruct(Now, v))

\* v[i] = v[j], with i = j too.
SetElement(v) ==
    \E i, j \in 1 .. vec[v].size :
        Commit(<<"set", v, i, j>>,
               Then(MakeString(Now, TextIn(heap, Slot(Now, v, j))),
                    LAMBDA x : AssignSlot(x, v, i, x.made)))

\* v = w and v = std::move(w), with v = w too.
CopyAssign(v, w) == Commit(<<"copy", v, w>>, Then(CopyOf(Now, w), LAMBDA x : Assign(x, v)))

MoveAssign(v, w) == Commit(<<"move", v, w>>, Assign(Exchange(Now, Temp, w), v))

SwapVectors(v, w) == Commit(<<"swap", v, w>>, Exchange(Now, v, w))

Next ==
    /\ ~halted
    /\ \E v \in Vectors :
        \/ PushBackText(v) \/ PushBackOwn(v) \/ PopBackOne(v) \/ InsertText(v) \/ EraseOne(v)
        \/ ReserveMore(v) \/ ClearVector(v) \/ EndOfLife(v) \/ SetElement(v)
        \/ \E w \in Vectors : CopyAssign(v, w) \/ MoveAssign(v, w) \/ SwapVectors(v, w)

Spec == Init /\ [][Next]_vars

-----------------------------------------------------------------------------
(* Properties *)

\* Every variable has a value of its type.
TypeOK ==
    /\ DOMAIN heap \subseteq 1 .. NBufs
    /\ \A v \in DOMAIN vec :
            vec[v].data \in 0 .. NBufs /\ vec[v].size \in 0 .. MaxSize /\ vec[v].capacity \in Nat
    /\ halted \in BOOLEAN /\ misused \in BOOLEAN

\* The elements of a vector live, in its first size_ slots, and no other slot holds an
\* object, whatever was moved, swapped, erased or destroyed.
LiveBelowSize ==
    \A v \in Vectors :
        LET d == vec[v]
        IN  IF d.data = Null THEN d.size = 0
            ELSE /\ d.data \in DOMAIN heap
                 /\ Len(heap[d.data]) = d.capacity /\ d.size <= d.capacity
                 /\ \A i \in 1 .. d.capacity : heap[d.data][i] = Raw <=> i > d.size

\* What refers to a buffer: the data_ of a vector, and that of a String in a vector.
Owners(b) ==
    {o \in (DOMAIN vec) \X (0 .. MaxSize) :
        /\ o[2] <= vec[o[1]].size
        /\ b = IF o[2] = 0 THEN vec[o[1]].data ELSE Slot(Now, o[1], o[2])}

\* Between operations every allocated buffer has one owner, no owner's buffer has been
\* deleted, and nothing was deleted twice: nothing leaks and nothing dangles.
OwnedOnce ==
    /\ ~misused
    /\ ~halted => \A b \in 1 .. NBufs : Cardinality(Owners(b)) = IF b \in DOMAIN heap THEN 1 ELSE 0

\* Objects live just where a vector has elements, and memory just where they own it.
Ownership == TypeOK /\ LiveBelowSize /\ OwnedOnce

\* The texts of the elements; a slot that is no String, or dangles, says nothing.
Contents(v) ==
    [i \in 1 .. vec[v].size |->
        LET p == Slot(Now, v, i) IN IF p \in {Null} \cup DOMAIN heap THEN TextIn(heap, p) ELSE Raw]

L == INSTANCE Lists WITH lists <- [v \in Vectors |-> Contents(v)]

\* Each operation does to the vectors what it would do to lists, on itself too, and one
\* that finds no memory halts before it has changed any.
ImplementsLists == L!Spec
==============================================================================
