-------------------------- MODULE ReservationStatus --------------------------
(***************************************************************************)
(* The status machine of a reservation: the eight statuses, the ones that  *)
(* hold a time slot, and the transition table every status write is        *)
(* supposed to respect.  No variables: the state machines use it.          *)
(***************************************************************************)

\* The cases of the ReservationStatus enum.
Status == {"pending", "confirmed", "rejected", "cancelled", "expired",
           "checked_in", "completed", "no_show"}

\* Variant: a list of blocking statuses that forgot the guests on site.
OccupyingUntilArrival == {"pending", "confirmed"}

\* ReservationStatus::occupying(): the statuses that block the resource.
Occupying == {"pending", "confirmed", "checked_in"}

\* ReservationTransitionService::TRANSITIONS.
Transitions ==
    [pending    |-> {"confirmed", "rejected", "cancelled", "expired"},
     confirmed  |-> {"cancelled", "completed", "checked_in", "no_show"},
     checked_in |-> {"completed", "no_show"},
     rejected   |-> {},
     cancelled  |-> {},
     expired    |-> {},
     completed  |-> {},
     no_show    |-> {}]

\* Variant: a status write that does not consult the table.
AnyTransition(from, to) == from # to

\* canTransition(): a status is never a successor of itself.
CanTransition(from, to) == from # to /\ to \in Transitions[from]

\* isCancellableByCustomer(): the statuses a customer may still cancel.
CancellableByCustomer == {"pending", "confirmed"}

\* The statuses the limits of a customer count ("active" rows).
Active == {"pending", "confirmed"}

\* The statuses no transition leaves.
Terminal == {s \in Status : Transitions[s] = {}}

==============================================================================
