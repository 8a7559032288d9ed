------------------------------ MODULE MCLoyalty ------------------------------
(***************************************************************************)
(* Small instances of Loyalty for TLC: one customer, referred by another,  *)
(* with two visits.                                                        *)
(***************************************************************************)
EXTENDS Loyalty, TLC

CONSTANTS anna, boris, r1, r2

GuestOfBoth == r1 :> anna @@ r2 :> anna
AnnaReferred == anna :> boris @@ boris :> Nobody

\* One point for every two, from an amount of two on: two points for the first
\* visit and none for the second.
Amounts == r1 :> 4 @@ r2 :> 1
OnePerTwo == [earnAmount |-> 2, earnRate |-> 1, flat |-> 0, minimum |-> 2, maximum |-> 9]

\* A payment covered a half of the first visit; the second is paid in cash.
PaidInPart == r1 :> 2 @@ r2 :> 0

\* Only the customer with the visits has her points adjusted.
OneGrant == anna :> 1 @@ boris :> 0
TwoGrants == anna :> 2 @@ boris :> 0
NoGrant == anna :> 0 @@ boris :> 0

\* A manager grants a point or takes one.
OneUpOrDown == {1, -1}

==============================================================================
