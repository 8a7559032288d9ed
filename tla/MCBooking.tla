------------------------------ MODULE MCBooking ------------------------------
(***************************************************************************)
(* Small instances of Booking for TLC.                                     *)
(***************************************************************************)
EXTENDS Booking, TLC

CONSTANTS q1, q2, q3, anna, boris, court, hall, k1

RequestSymmetry == Permutations(Requests)

Ask(c, r, s, e, k) == [customer |-> c, resource |-> r, start |-> s, end |-> e, key |-> k]

Policy(b, m, active, daily) ==
    [buffer |-> b, manual |-> m, minAdvance |-> 1, maxDays |-> 1, sameDay |-> TRUE,
     maxActive |-> active, maxDaily |-> daily]

\* Touching, nested and separate slots, from two customers; one of them asks
\* twice with the same key.
ConflictAsks == {Ask(anna, court, 2, 3, k1), Ask(anna, court, 3, 4, k1),
                 Ask(boris, court, 2, 4, NoKey)}

\* The buffer and the confirmation mode change under way.
BufferPolicies == {Policy(0, FALSE, NoLimit, NoLimit), Policy(1, TRUE, NoLimit, NoLimit)}

PlainResource == {[bookable |-> TRUE, buffer |-> Inherit]}

\* The resource is taken out of service, or given a buffer of its own.
ManagedResource == PlainResource \cup {[bookable |-> FALSE, buffer |-> Inherit],
                                       [bookable |-> TRUE, buffer |-> 1]}

\* One customer, two resources, slots that never meet.
LimitAsks == {Ask(anna, court, 2, 3, NoKey), Ask(anna, court, 3, 4, NoKey),
              Ask(anna, hall, 2, 3, NoKey)}

\* Three slots of the court, and the same key for a slot of each resource, which
\* another customer uses as well.
LimitKeyAsks == {Ask(anna, court, 1, 2, NoKey), Ask(anna, court, 2, 3, k1),
                 Ask(anna, court, 3, 4, NoKey),
                 Ask(anna, hall, 1, 2, k1), Ask(boris, hall, 2, 3, k1)}

ActiveLimitPolicies == {Policy(0, FALSE, 1, NoLimit)}

\* With a limit of two a create that passes still holds the customer's other
\* row, and a create for the other resource waits for it.  Once its slot has begun
\* a reservation counts for the daily limit only.
BothLimitPolicies == {Policy(0, FALSE, 2, 2)}

==============================================================================
