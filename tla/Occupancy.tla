------------------------------ MODULE Occupancy ------------------------------
(***************************************************************************)
(* The arithmetic of time slots.  A reservation occupies the half-open     *)
(* range [start, end + buffer): the buffer is the cleaning time the        *)
(* business asked for when the reservation was made.  Three places of the  *)
(* code compare such ranges, each with its own formula: the conflict query *)
(* of the create transaction, the availability engine, and the exclusion   *)
(* constraint of the table.  Instants are natural numbers (minutes).       *)
(***************************************************************************)
EXTENDS Integers

\* OccupancyRange::expression: the tstzrange '[)' stored with the row.
OccupancyRange(start, end, buffer) == [from |-> start, to |-> end + buffer]

\* The && operator of PostgreSQL on two non-empty half-open ranges, the test
\* of the constraint reservations_no_overlapping_occupancy.
RangesIntersect(a, b) == a.from < b.to /\ b.from < a.to

\* TimeInterval::overlaps.
Overlaps(s1, e1, s2, e2) == s1 < e2 /\ s2 < e1

\* Variant: a conflict query that forgets the buffer of the wanted slot.
ConflictWithoutNewBuffer(rowStart, rowEnd, rowBuffer, start, end, buffer) ==
    /\ rowStart < end
    /\ rowEnd + rowBuffer > start

\* ReservationConflictService::hasConflictIncludingBuffer: an existing row
\* (its start, its end, the buffer it was booked with) against a wanted slot
\* (start, end, the buffer in force now).
HasConflictIncludingBuffer(rowStart, rowEnd, rowBuffer, start, end, buffer) ==
    /\ rowStart < end + buffer
    /\ rowEnd + rowBuffer > start

\* OccupyingReservationProvider and AvailabilityEngine::evaluateResource: the
\* wanted slot is compared WITHOUT its own buffer.
BookedForAvailability(rowStart, rowEnd, rowBuffer, start, end) ==
    Overlaps(rowStart, rowEnd + rowBuffer, start, end)

\* The instants of a range: the reference the formulas are measured against.
Instants(range) == range.from .. (range.to - 1)

==============================================================================
