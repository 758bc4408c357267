-------------------------------- MODULE Lists --------------------------------
(***************************************************************************)
(* What Vector<String> promises: each vector is a list of texts, and a call*)
(* does to it what it would do to a list, or halts for want of memory with *)
(* every list as it was.                                                   *)
(***************************************************************************)
EXTENDS Naturals, Sequences, SequencesExt

CONSTANTS Vectors, Texts

VARIABLES lists, halted, call

vars == <<lists, halted, call>>

Init == lists = [v \in Vectors |-> <<>>] /\ halted = FALSE /\ call = <<>>

Becomes(new) == \/ lists' = new /\ UNCHANGED halted
                \/ halted' = TRUE /\ UNCHANGED lists

With(v, l) == [lists EXCEPT ![v] = l]

PushBack(v, t) == call' = <<"push_back", v, t>> /\ Becomes(With(v, Append(lists[v], t)))

PushOwn(v, i) ==
    call' = <<"push_own", v, i>> /\ Becomes(With(v, Append(lists[v], lists[v][i])))

Insert(v, i, t) == call' = <<"insert", v, i, t>> /\ Becomes(With(v, InsertAt(lists[v], i, t)))

Erase(v, i) == call' = <<"erase", v, i>> /\ Becomes(With(v, RemoveAt(lists[v], i)))

PopBack(v) ==
    /\ call' = <<"pop_back", v>>
    /\ Becomes(With(v, IF lists[v] = <<>> THEN <<>> ELSE Front(lists[v])))

Clear(v) == call' = <<"clear", v>> /\ Becomes(With(v, <<>>))

Reserve(v) == call' = <<"reserve", v>> /\ Becomes(lists)

Set(v, i, j) == call' = <<"set", v, i, j>> /\ Becomes(With(v, [lists[v] EXCEPT ![i] = lists[v][j]]))

Copy(v, w) == call' = <<"copy", v, w>> /\ Becomes(With(v, lists[w]))

Move(v, w) ==
    /\ call' = <<"move", v, w>>
    /\ Becomes([x \in Vectors |-> IF x = v THEN lists[w] ELSE IF x = w THEN <<>> ELSE lists[x]])

Swap(v, w) ==
    /\ call' = <<"swap", v, w>>
    /\ Becomes([lists EXCEPT ![v] = lists[w], ![w] = lists[v]])

Next ==
    /\ ~halted
    /\ \E v \in Vectors :
        \/ PopBack(v) \/ Clear(v) \/ Reserve(v)
        \/ \E t \in Texts : PushBack(v, t) \/ \E i \in 1 .. Len(lists[v]) + 1 : Insert(v, i, t)
        \/ \E i \in DOMAIN lists[v] :
                PushOwn(v, i) \/ Erase(v, i) \/ \E j \in DOMAIN lists[v] : Set(v, i, j)
        \/ \E w \in Vectors : Copy(v, w) \/ Move(v, w) \/ Swap(v, w)

Spec == Init /\ [][Next]_vars
==============================================================================
