--------------------------- MODULE PageReservation ---------------------------
(***************************************************************************)
(* What the kernel's virtual address allocator promises its callers: a     *)
(* range of pages is handed out only while nobody holds any of them, and   *)
(* only held pages are given back.  Nothing is said of how the allocator   *)
(* keeps its books (kernel/mm/vma.hpp keeps a doubly linked list).         *)
(***************************************************************************)
EXTENDS Integers

CONSTANT TotalPages     \* number of pages managed, total_pages_

VARIABLE reserved       \* the pages some caller holds

Page == 0 .. TotalPages - 1

\* The n pages that start at page s.
PagesOf(s, n) == s .. s + n - 1

Init == reserved = {}

\* alloc_pages returned the address of page s for a request of n pages.
Reserve(s, n) ==
    /\ PagesOf(s, n) \cap reserved = {}
    /\ reserved' = reserved \cup PagesOf(s, n)

\* free returned true for the n pages from page s.
Release(s, n) ==
    /\ PagesOf(s, n) \subseteq reserved
    /\ reserved' = reserved \ PagesOf(s, n)

Next ==
    \E s \in Page :
        \E n \in 1 .. TotalPages - s : Reserve(s, n) \/ Release(s, n)

Spec == Init /\ [][Next]_reserved

==============================================================================
