---------------------------- MODULE AddressPool ----------------------------
(***************************************************************************)
(* What the master plan promises of the address pool: an address has one   *)
(* user at most, an allocation takes a free one, a release gives one back, *)
(* and an address that was given back is never lost.  Only a reservation   *)
(* may lose addresses, and only ones that were never in use.               *)
(***************************************************************************)
CONSTANT Address

VARIABLES
    fresh,      \* free, and never in use so far
    returned,   \* free again
    used

Init == fresh = Address /\ returned = {} /\ used = {}

Take(a) ==
    /\ a \in fresh \cup returned
    /\ fresh' = fresh \ {a}
    /\ returned' = returned \ {a}
    /\ used' = used \cup {a}

GiveBack(a) ==
    /\ a \in used
    /\ used' = used \ {a}
    /\ returned' = returned \cup {a}
    /\ UNCHANGED fresh

Reserve(a, skipped) ==
    /\ a \notin used
    /\ a \notin fresh => skipped = {}
    /\ fresh' = fresh \ (skipped \cup {a})
    /\ returned' = returned \ {a}
    /\ used' = used \cup {a}

Next ==
    \E a \in Address :
        \/ Take(a)
        \/ GiveBack(a)
        \/ \E skipped \in SUBSET fresh : Reserve(a, skipped)

Spec == Init /\ [][Next]_<<fresh, returned, used>>
=============================================================================
