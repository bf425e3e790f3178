------------------------------- MODULE Custody -------------------------------
(***************************************************************************)
(* What an allocation promises about the paid resources behind it, without *)
(* any of the machinery that keeps the promise: while the reservation is   *)
(* held the provider may gain and lose resources of the allocation; the    *)
(* reservation is released once, when nothing is held; nothing is ever     *)
(* held without it.                                                        *)
(***************************************************************************)
CONSTANT Resources

VARIABLES reserved,   \* the allocation is not retired
          held        \* resources of the allocation the provider holds

Init == reserved = TRUE /\ held = {}

Gain == reserved /\ held' \in SUBSET Resources /\ held \subseteq held' /\ UNCHANGED reserved
Lose == reserved /\ held' \in SUBSET held /\ UNCHANGED reserved
Release == reserved /\ held = {} /\ reserved' = FALSE /\ UNCHANGED held

Next == Gain \/ Lose \/ Release

Spec == Init /\ [][Next]_<<reserved, held>>
=============================================================================
