---------------------------- MODULE AddressSpace -----------------------------
(***************************************************************************)
(* What map_virtual promises its callers: an address space is a function   *)
(* from virtual pages to physical ones, and a call changes it at the page  *)
(* it was called for, at once, or not at all.                              *)
(***************************************************************************)
CONSTANTS
    VirtPage,       \* virtual page numbers
    Frame,          \* physical page numbers
    PageFlags,      \* what may be asked for a mapping
    NotMapped

VARIABLE translation

Init == translation = [v \in VirtPage |-> NotMapped]

\* The page v is mapped, to a page and with rights of the caller's choice.
Map(v) ==
    /\ translation'[v] \in [frame : Frame, flags : PageFlags]
    /\ translation' = [translation EXCEPT ![v] = translation'[v]]

Next == \E v \in VirtPage : Map(v)

Spec == Init /\ [][Next]_translation

==============================================================================
