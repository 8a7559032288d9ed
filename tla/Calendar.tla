------------------------------ MODULE Calendar ------------------------------
(***************************************************************************)
(* What the reservation engine promises, without requests, locks or        *)
(* queries: every resource has a calendar of held ranges, a range enters a *)
(* calendar only where it meets no other one, and a range that was given   *)
(* up never comes back.                                                    *)
(***************************************************************************)
EXTENDS Occupancy

CONSTANTS Holders,    \* identities of reservations
          Resources,  \* what is booked
          Ranges      \* the ranges that can be held

VARIABLES held,       \* held[r]: the set of <<holder, range>> of resource r
          gone        \* the holders that gave their range up

calendarVars == <<held, gone>>

CalendarInit == held = [r \in Resources |-> {}] /\ gone = {}

HoldersOf(r) == {h[1] : h \in held[r]}

\* A holder that never held anything takes a range that meets no held range.
Take(r, h, range) ==
    /\ h \notin gone
    /\ \A q \in Resources : h \notin HoldersOf(q)
    /\ \A other \in held[r] : ~RangesIntersect(other[2], range)
    /\ held' = [held EXCEPT ![r] = @ \cup {<<h, range>>}]
    /\ UNCHANGED gone

\* A holder gives its range up, for good.
GiveUp(r, h) ==
    /\ h \in HoldersOf(r)
    /\ held' = [held EXCEPT ![r] = {x \in @ : x[1] # h}]
    /\ gone' = gone \cup {h}

CalendarNext == \E r \in Resources, h \in Holders :
    \/ \E range \in Ranges : Take(r, h, range)
    \/ GiveUp(r, h)

CalendarSpec == CalendarInit /\ [][CalendarNext]_calendarVars

\* What follows for a reader of the calendar: two entries never meet.
Disjoint == \A r \in Resources : \A x, y \in held[r] :
                x # y => ~RangesIntersect(x[2], y[2])

==============================================================================
