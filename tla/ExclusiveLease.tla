--------------------------- MODULE ExclusiveLease ---------------------------
(***************************************************************************)
(* What a lease promises, of an execution lock or of a pooled connection:  *)
(* a resource has one holder at a time, and passes from one holder to the  *)
(* next only by being free in between.                                     *)
(***************************************************************************)
CONSTANTS Resources, Holders, Nobody

VARIABLE owner

Init == owner = [r \in Resources |-> Nobody]

Grant(r, h) == /\ owner[r] = Nobody
               /\ owner' = [owner EXCEPT ![r] = h]

\* Several at once when the process that holds them ends.
Release == /\ DOMAIN owner' = Resources
           /\ \A r \in Resources : owner'[r] \in {owner[r], Nobody}

Next == \/ Release
        \/ \E r \in Resources, h \in Holders : Grant(r, h)

Spec == Init /\ [][Next]_owner
=============================================================================
