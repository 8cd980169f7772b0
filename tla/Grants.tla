------------------------------- MODULE Grants -------------------------------
(***************************************************************************)
(* What every allocator of the gullfoss kernel promises its callers: each  *)
(* successful call hands out a nonempty set of units (pages, bytes, page   *)
(* directory blocks) that nobody owns yet, a failing call hands out        *)
(* nothing, and, since the kernel has no free (operator delete asserts),   *)
(* what is owned stays owned.                                              *)
(***************************************************************************)
CONSTANT Unit     \* everything an allocator may ever hand out

VARIABLES owned,  \* the units handed out so far
          fresh   \* the units the latest call handed out, {} if it failed

vars == <<owned, fresh>>

Init == owned = {} /\ fresh = {}

Grant ==
    /\ fresh' # {}
    /\ fresh' \subseteq Unit \ owned
    /\ owned' = owned \cup fresh'

Refuse == fresh' = {} /\ UNCHANGED owned

Next == Grant \/ Refuse

Spec == Init /\ [][Next]_vars

=============================================================================
