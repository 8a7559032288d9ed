------------------------------- MODULE Booking -------------------------------
(***************************************************************************)
(* Customers booking the resources of one business, concurrently.          *)
(*                                                                         *)
(* A request is one run of CreateReservationAction::execute.  Its steps    *)
(* are the database statements of that run that other transactions can     *)
(* come between, under PostgreSQL's READ COMMITTED:                        *)
(*                                                                         *)
(*   idle -> begun     the idempotency lookup and the rules that need no   *)
(*                     lock, before the transaction                        *)
(*   begun -> locked   the resource row is locked FOR UPDATE, its status   *)
(*                     and the booking policy are read                     *)
(*   locked -> counting  the statement that locks the customer's active    *)
(*                     rows takes its snapshot; it waits for the rows      *)
(*                     other transactions hold                             *)
(*   counting -> checked  the rows are locked; limits, conflict query and  *)
(*                     availability are decided                            *)
(*   checked -> answered  the row is inserted, or a constraint of the      *)
(*                     table refuses it; locks are released                *)
(*                                                                         *)
(* At most one row is inserted per request, so the reservation is named    *)
(* by its request: its columns customer, resource, start, end and          *)
(* idempotency key are those of ask[q]; status[q] = "none" until it is     *)
(* committed.                                                              *)
(***************************************************************************)
EXTENDS Occupancy, ReservationStatus, FiniteSets

CONSTANTS
    Requests,          \* the runs of the create action (bounds their number)
    Nobody,            \* no request
    Resources,         \* the resources of the business
    Asks,              \* payloads that satisfy the rules on the payload alone
    NoAsk,             \* no payload yet
    NoKey,             \* the client sent no idempotency key
    Policies,          \* the booking policies the owner switches between
    NoLimit,           \* a limit of the policy left null
    ResourceSettings,  \* what the owner may set on a resource
    Inherit,           \* the resource has no buffer of its own
    Visibilities,      \* values Business::isPubliclyVisible may take
    OpenHours,         \* the minutes the business is open
    DayLength,         \* minutes of a (modelled) day
    MaxTime            \* bound of the clock

Limits == Nat \cup {NoLimit}

PolicyType == [buffer: Nat, manual: BOOLEAN, minAdvance: Nat, maxDays: Nat,
               sameDay: BOOLEAN, maxActive: Limits, maxDaily: Limits]

ASSUME NobodyAssumption == Nobody \notin Requests
ASSUME AsksAssumption ==
    \A a \in Asks : /\ a.resource \in Resources
                    /\ a.start \in Nat /\ a.end \in Nat /\ a.start < a.end
ASSUME NoAskAssumption == NoAsk \notin Asks
ASSUME PolicyAssumption == Policies \subseteq PolicyType
ASSUME SettingsAssumption ==
    ResourceSettings \subseteq [bookable: BOOLEAN, buffer: Nat \cup {Inherit}]
ASSUME VisibilityAssumption == Visibilities \subseteq BOOLEAN
ASSUME InheritAssumption == Inherit \notin Nat
ASSUME ClockAssumption == DayLength \in Nat \ {0} /\ MaxTime \in Nat

VARIABLES
    now,       \* the clock
    visible,   \* Business::isPubliclyVisible
    resource,  \* resource[r]: status and buffer of the resource row
    policy,    \* the booking_policies row of the business
    lock,      \* lock[r]: the request that holds the resource row FOR UPDATE
    status,    \* status[q]: status of the reservation, "none" if not inserted
    buffer,    \* buffer[q]: buffer_minutes_applied of the reservation
    pc,        \* pc[q]: how far the request is
    ask,       \* ask[q]: the payload
    terms,     \* terms[q]: the settings read under the lock
    rows,      \* rows[q]: the customer's active rows seen, then held
    reply      \* reply[q]: the reservation returned, Nobody for an error

bookingVars == <<now, visible, resource, policy, lock, status, buffer, pc,
                 ask, terms, rows, reply>>
calendarOnly == <<lock, status, buffer>>
settingsVars == <<now, visible, resource, policy>>

----------------------------------------------------------------------------
(* Derived state *)

Day(t) == t \div DayLength

NoTerms == CHOOSE p \in Policies : TRUE

\* The reservations in the table, and those that hold their resource.
Table == {q \in Requests : status[q] # "none"}
Holding == {q \in Requests : status[q] \in Occupying}

RangeOf(q) == OccupancyRange(ask[q].start, ask[q].end, buffer[q])

\* A reservation row is free unless a create transaction has locked it.
RowFree(p) == \A q \in Requests : ~(pc[q] = "checked" /\ p \in rows[q])

\* EffectiveReservationSettingsResolver::resolveInt for the buffer.
EffectiveBuffer(r) ==
    IF resource[r].buffer = Inherit THEN policy.buffer ELSE resource[r].buffer

\* validateAdvanceBooking on a start, at a time.
AdvanceAllowed(pol, start, t) ==
    /\ start > t
    /\ pol.sameDay \/ Day(start) # Day(t)
    /\ start - t >= pol.minAdvance
    /\ Day(start) <= Day(t) + pol.maxDays

\* The rows countActiveReservations selects for a customer.
ActiveRowsOf(c) ==
    {p \in Table : /\ ask[p].customer = c
                   /\ status[p] \in Active
                   /\ ask[p].start > now}

\* The rows the daily limit counts.
DailyRowsOf(c, start) ==
    {p \in Table : /\ ask[p].customer = c
                   /\ status[p] \in Active
                   /\ Day(ask[p].start) = Day(start)}

Below(n, limit) == limit # NoLimit => n < limit

\* validateCustomerLimits with the rows this transaction could lock.
WithinLimits(q) ==
    /\ Below(Cardinality({p \in rows[q] : status[p] \in Active}), terms[q].maxActive)
    /\ Below(Cardinality(DailyRowsOf(ask[q].customer, ask[q].start)), terms[q].maxDaily)

\* hasConflictIncludingBuffer for the slot of a request.
Conflicting(q) ==
    \E p \in Holding :
        /\ ask[p].resource = ask[q].resource
        /\ HasConflictIncludingBuffer(ask[p].start, ask[p].end, buffer[p],
                                      ask[q].start, ask[q].end, terms[q].buffer)

\* AvailabilityEngine::calculate restricted to one resource: the clock, the
\* opening hours, the advance rules of the policy in force at THIS statement,
\* the status of the resource and the occupying rows.
Available(q) ==
    LET a == ask[q] IN
    /\ a.start >= now
    /\ a.start .. (a.end - 1) \subseteq OpenHours
    /\ AdvanceAllowed(policy, a.start, now)
    /\ resource[a.resource].bookable
    /\ ~\E p \in Holding :
          /\ ask[p].resource = a.resource
          /\ BookedForAvailability(ask[p].start, ask[p].end, buffer[p], a.start, a.end)

\* The constraint reservations_no_overlapping_occupancy on the new row.
ExclusionViolated(q) ==
    \E p \in Holding :
        /\ ask[p].resource = ask[q].resource
        /\ RangesIntersect(RangeOf(p),
                           OccupancyRange(ask[q].start, ask[q].end, terms[q].buffer))

\* Variant: a unique index that covers the resource as well.
KeyTakenOnResource(q) ==
    ask[q].key # NoKey /\ \E p \in Table : /\ ask[p].key = ask[q].key
                                          /\ ask[p].resource = ask[q].resource

\* The unique index on idempotency_key (a random key when none was sent).
KeyTaken(q) == ask[q].key # NoKey /\ \E p \in Table : ask[p].key = ask[q].key

----------------------------------------------------------------------------
(* The states the program starts from *)

BookingInit ==
    /\ now = 0
    /\ visible \in Visibilities
    /\ resource \in [Resources -> ResourceSettings]
    /\ policy \in Policies
    /\ lock = [r \in Resources |-> Nobody]
    /\ status = [q \in Requests |-> "none"]
    /\ buffer = [q \in Requests |-> 0]
    /\ pc = [q \in Requests |-> "idle"]
    /\ ask = [q \in Requests |-> NoAsk]
    /\ terms = [q \in Requests |-> NoTerms]
    /\ rows = [q \in Requests |-> {}]
    /\ reply = [q \in Requests |-> Nobody]

(* Before the transaction *)

\* The reservation a retry with the same key and customer finds.
Earlier(a) == {p \in Table : /\ a.key # NoKey
                             /\ ask[p].key = a.key
                             /\ ask[p].customer = a.customer}

\* The key is known: the existing reservation is returned, nothing is written.
Replay(q, a) ==
    /\ pc[q] = "idle"
    /\ \E p \in Earlier(a) : reply' = [reply EXCEPT ![q] = p]
    /\ ask' = [ask EXCEPT ![q] = a]
    /\ pc' = [pc EXCEPT ![q] = "answered"]
    /\ UNCHANGED <<settingsVars, calendarOnly, terms, rows>>

\* The business may be booked and the slot obeys the advance rules.
Begin(q, a) ==
    /\ pc[q] = "idle"
    /\ Earlier(a) = {}
    /\ visible
    /\ AdvanceAllowed(policy, a.start, now)
    /\ ask' = [ask EXCEPT ![q] = a]
    /\ pc' = [pc EXCEPT ![q] = "begun"]
    /\ UNCHANGED <<settingsVars, calendarOnly, terms, rows, reply>>

\* ... or not: a validation error, before any lock is taken.
RefuseEarly(q, a) ==
    /\ pc[q] = "idle"
    /\ Earlier(a) = {}
    /\ ~visible \/ ~AdvanceAllowed(policy, a.start, now)
    /\ ask' = [ask EXCEPT ![q] = a]
    /\ pc' = [pc EXCEPT ![q] = "answered"]
    /\ UNCHANGED <<settingsVars, calendarOnly, terms, rows, reply>>

----------------------------------------------------------------------------
(* The transaction *)

\* Variant: an error path that leaves the resource row locked.
RollbackKeepingLock(q) ==
    /\ rows' = [rows EXCEPT ![q] = {}]
    /\ terms' = [terms EXCEPT ![q] = NoTerms]
    /\ pc' = [pc EXCEPT ![q] = "answered"]
    /\ UNCHANGED <<settingsVars, calendarOnly, ask, reply>>

\* Rollback: the exception releases every lock of the transaction.
Rollback(q) ==
    /\ lock' = [r \in Resources |-> IF lock[r] = q THEN Nobody ELSE lock[r]]
    /\ rows' = [rows EXCEPT ![q] = {}]
    /\ terms' = [terms EXCEPT ![q] = NoTerms]
    /\ pc' = [pc EXCEPT ![q] = "answered"]
    /\ UNCHANGED <<settingsVars, status, buffer, ask, reply>>

\* Variant: the resource is read without FOR UPDATE.
ReadResource(q) ==
    LET r == ask[q].resource IN
    /\ pc[q] = "begun"
    /\ resource[r].bookable
    /\ lock' = [lock EXCEPT ![r] = q]
    /\ terms' = [terms EXCEPT ![q] = [policy EXCEPT !.buffer = EffectiveBuffer(r)]]
    /\ pc' = [pc EXCEPT ![q] = "locked"]
    /\ UNCHANGED <<settingsVars, status, buffer, ask, rows, reply>>

\* SELECT ... FOR UPDATE of the resource row waits for its holder, then sees
\* the committed row; the settings are read while the lock is held.
LockResource(q) ==
    LET r == ask[q].resource IN
    /\ pc[q] = "begun"
    /\ lock[r] = Nobody
    /\ resource[r].bookable
    /\ lock' = [lock EXCEPT ![r] = q]
    /\ terms' = [terms EXCEPT ![q] = [policy EXCEPT !.buffer = EffectiveBuffer(r)]]
    /\ pc' = [pc EXCEPT ![q] = "locked"]
    /\ UNCHANGED <<settingsVars, status, buffer, ask, rows, reply>>

\* assertResourceBookable fails on the locked row.
RefuseUnbookable(q) ==
    /\ pc[q] = "begun"
    /\ lock[ask[q].resource] = Nobody
    /\ ~resource[ask[q].resource].bookable
    /\ Rollback(q)

\* The locking read of the customer's active rows takes its snapshot.  It is
\* not issued at all when the policy sets no active limit.
SnapshotActive(q) ==
    /\ pc[q] = "locked"
    /\ rows' = [rows EXCEPT ![q] = IF terms[q].maxActive = NoLimit
                                   THEN {} ELSE ActiveRowsOf(ask[q].customer)]
    /\ pc' = [pc EXCEPT ![q] = "counting"]
    /\ UNCHANGED <<settingsVars, calendarOnly, ask, terms, reply>>

\* The locking read has got every row of its snapshot that still qualifies
\* (rows inserted since are not seen), and every check passes.
PassChecks(q) ==
    /\ pc[q] = "counting"
    /\ \A p \in rows[q] : RowFree(p)
    /\ WithinLimits(q)
    /\ ~Conflicting(q)
    /\ Available(q)
    /\ rows' = [rows EXCEPT ![q] = {p \in @ : status[p] \in Active}]
    /\ pc' = [pc EXCEPT ![q] = "checked"]
    /\ UNCHANGED <<settingsVars, calendarOnly, ask, terms, reply>>

\* ... or one of them throws.
FailChecks(q) ==
    /\ pc[q] = "counting"
    /\ \A p \in rows[q] : RowFree(p)
    /\ ~WithinLimits(q) \/ Conflicting(q) \/ ~Available(q)
    /\ Rollback(q)

\* The insert meets no constraint of the table and the transaction commits.
InsertReservation(q) ==
    /\ pc[q] = "checked"
    /\ ~ExclusionViolated(q)
    /\ ~KeyTaken(q)
    /\ status' = [status EXCEPT ![q] = IF terms[q].manual THEN "pending" ELSE "confirmed"]
    /\ buffer' = [buffer EXCEPT ![q] = terms[q].buffer]
    /\ reply' = [reply EXCEPT ![q] = q]
    /\ lock' = [r \in Resources |-> IF lock[r] = q THEN Nobody ELSE lock[r]]
    /\ rows' = [rows EXCEPT ![q] = {}]
    /\ terms' = [terms EXCEPT ![q] = NoTerms]
    /\ pc' = [pc EXCEPT ![q] = "answered"]
    /\ UNCHANGED <<settingsVars, ask>>

\* ... or a constraint refuses the row: 23P01 becomes a conflict error, the
\* unique violation of the key is rethrown.
InsertFails(q) ==
    /\ pc[q] = "checked"
    /\ ExclusionViolated(q) \/ KeyTaken(q)
    /\ Rollback(q)

----------------------------------------------------------------------------
(* What happens to reservations and settings meanwhile *)

\* Any handler that goes through ChangeReservationStatusAction: the row is
\* locked (so it waits for a create that holds it) and the transition table
\* is consulted on the locked row.
ChangeStatus(p, to) ==
    /\ p \in Table
    /\ RowFree(p)
    /\ CanTransition(status[p], to)
    /\ status' = [status EXCEPT ![p] = to]
    /\ UNCHANGED <<settingsVars, lock, buffer, pc, ask, terms, rows, reply>>

\* CancelReservationAction writes "cancelled" over whatever the row holds by
\* then: its own checks ran on the model the request had loaded (every row is
\* cancellable when it is inserted, so a request may have loaded it then).
CancelReservation(p) ==
    /\ p \in Table
    /\ RowFree(p)
    /\ status' = [status EXCEPT ![p] = "cancelled"]
    /\ UNCHANGED <<settingsVars, lock, buffer, pc, ask, terms, rows, reply>>

\* PATCH of the booking settings: one UPDATE, no lock is shared with creates.
UpdatePolicy(new) ==
    /\ policy' = new
    /\ UNCHANGED <<now, visible, resource, calendarOnly, pc, ask, terms, rows, reply>>

\* Variant: the PATCH of a resource does not wait for the lock.
UpdateResourceAtOnce(r, new) ==
    /\ resource' = [resource EXCEPT ![r] = new]
    /\ UNCHANGED <<now, visible, policy, calendarOnly, pc, ask, terms, rows, reply>>

\* PATCH of a resource: its UPDATE waits for a create that holds the row.
UpdateResource(r, new) ==
    /\ lock[r] = Nobody
    /\ resource' = [resource EXCEPT ![r] = new]
    /\ UNCHANGED <<now, visible, policy, calendarOnly, pc, ask, terms, rows, reply>>

\* Suspension, verification or listing changes of the business.
ChangeVisibility(v) ==
    /\ visible' = v
    /\ UNCHANGED <<now, resource, policy, calendarOnly, pc, ask, terms, rows, reply>>

Tick ==
    /\ now < MaxTime
    /\ now' = now + 1
    /\ UNCHANGED <<visible, resource, policy, calendarOnly, pc, ask, terms, rows, reply>>

----------------------------------------------------------------------------

\* The steps of a request once the HTTP call is in the server's hands.
Serve(q) ==
    \/ LockResource(q)
    \/ RefuseUnbookable(q)
    \/ SnapshotActive(q)
    \/ PassChecks(q)
    \/ FailChecks(q)
    \/ InsertReservation(q)
    \/ InsertFails(q)

Arrive(q) == \E a \in Asks : Replay(q, a) \/ Begin(q, a) \/ RefuseEarly(q, a)

Meanwhile ==
    \/ \E p \in Requests, to \in Status : ChangeStatus(p, to)
    \/ \E p \in Requests : CancelReservation(p)
    \/ \E new \in Policies : UpdatePolicy(new)
    \/ \E r \in Resources, new \in ResourceSettings : UpdateResource(r, new)
    \/ \E v \in Visibilities : ChangeVisibility(v)
    \/ Tick

BookingNext ==
    \/ \E q \in Requests : Arrive(q) \/ Serve(q)
    \/ Meanwhile

BookingSpec == BookingInit /\ [][BookingNext]_bookingVars

\* A request that began is run to its end by its PHP worker; PostgreSQL grants
\* a lock that was released.  Weak fairness is enough: each request takes each
\* lock once, so a waiting one is not overtaken for ever.
BookingFairSpec == BookingSpec /\ \A q \in Requests : WF_bookingVars(Serve(q))

(* Properties *)

PC == {"idle", "begun", "locked", "counting", "checked", "answered"}

BookingTypeOK ==
    /\ now \in Nat
    /\ visible \in BOOLEAN
    /\ resource \in [Resources -> ResourceSettings]
    /\ policy \in Policies
    /\ lock \in [Resources -> Requests \cup {Nobody}]
    /\ status \in [Requests -> Status \cup {"none"}]
    /\ buffer \in [Requests -> Nat]
    /\ pc \in [Requests -> PC]
    /\ ask \in [Requests -> Asks \cup {NoAsk}]
    /\ terms \in [Requests -> PolicyType]
    /\ rows \in [Requests -> SUBSET Requests]
    /\ reply \in [Requests -> Requests \cup {Nobody}]

\* At no instant do two reservations block the same resource: what the
\* customers and the owner rely on.  The blocking statuses are spelled out, and
\* instants are counted one by one, so the statement does not lean on the
\* formulas of the code it judges.
NoSharedInstant ==
    \A p, q \in Requests :
        /\ p # q
        /\ status[p] \in {"pending", "confirmed", "checked_in"}
        /\ status[q] \in {"pending", "confirmed", "checked_in"}
        /\ ask[p].resource = ask[q].resource
        => Instants(RangeOf(p)) \cap Instants(RangeOf(q)) = {}

\* The resource lock and the conflict query are enough by themselves: once a
\* request has passed its checks, no reservation comes into its slot before it
\* inserts, whatever other requests, cancellations and setting changes do.  So
\* the exclusion constraint is a second line of defence that never fires.
CheckedIsClear ==
    \A q \in Requests : pc[q] = "checked" => ~ExclusionViolated(q)

\* A request that is past the lock statement holds its resource row until it
\* commits or rolls back, and a row is never left locked by a request that is
\* over: the conflict query and the insert happen under one lock.
LockDiscipline ==
    \A r \in Resources, q \in Requests :
        lock[r] = q <=> /\ pc[q] \in {"locked", "counting", "checked"}
                        /\ ask[q].resource = r

\* Two reservations that hold one resource have ranges that do not intersect.
HoldingDisjoint ==
    \A p, q \in Holding :
        p # q /\ ask[p].resource = ask[q].resource
            => ~RangesIntersect(RangeOf(p), RangeOf(q))

\* The buffers the owner can have asked for.
Buffers == {pol.buffer : pol \in Policies}
           \cup ({s.buffer : s \in ResourceSettings} \ {Inherit})

\* Every request that arrived has a payload, only an answered one has a row,
\* and inside the transaction it works with a buffer the owner once set.
Bookkeeping ==
    \A q \in Requests :
        /\ pc[q] # "idle" => ask[q] \in Asks
        /\ status[q] # "none" => pc[q] = "answered"
        /\ pc[q] \in {"locked", "counting", "checked"} => terms[q].buffer \in Buffers

\* The inductive invariant: why a resource is never double booked.  The lock
\* discipline makes two checked requests for one resource impossible, so what a
\* request has seen clear stays clear until it inserts.
BookingInv ==
    /\ BookingTypeOK
    /\ Bookkeeping
    /\ LockDiscipline
    /\ CheckedIsClear
    /\ HoldingDisjoint

\* The limits of a customer hold among the reservations of one resource, where
\* creates are serialised by the lock (the limit in force may have changed, so
\* the largest one is the bound).  The locking read must come after the wait
\* for the resource for this to hold.
LimitsHoldPerResource ==
    \A r \in Resources, c \in {a.customer : a \in Asks} :
        LET mine == {q \in Table : ask[q].resource = r /\ ask[q].customer = c
                                   /\ status[q] \in Active}
        IN /\ \E pol \in Policies :
                 \/ pol.maxActive = NoLimit
                 \/ Cardinality({q \in mine : ask[q].start > now}) <= pol.maxActive
           /\ \A d \in {Day(ask[q].start) : q \in mine} :
                 \E pol \in Policies :
                    \/ pol.maxDaily = NoLimit
                    \/ Cardinality({q \in mine : Day(ask[q].start) = d}) <= pol.maxDaily

\* Idempotency: requests of one customer with one key that are answered with a
\* reservation are all answered with the same one.
SameKeySameReservation ==
    \A p, q \in Requests :
        /\ reply[p] # Nobody /\ reply[q] # Nobody
        /\ ask[p].key # NoKey /\ ask[p].key = ask[q].key
        /\ ask[p].customer = ask[q].customer
        => reply[p] = reply[q]

\* A resource is bookable at the very moment a reservation of it is committed:
\* the owner's PATCH cannot slip between the check and the insert.
InsertOnlyBookable ==
    [][\A q \in Requests : status[q] = "none" /\ status'[q] # "none"
            => resource[ask[q].resource].bookable]_bookingVars

\* The buffer recorded with a reservation never changes afterwards, and a
\* reservation that stopped blocking its resource never blocks it again: the
\* ranges the constraint compares only disappear.
NeverBlocksAgain ==
    [][\A q \in Requests :
          status[q] \in Status => /\ buffer'[q] = buffer[q]
                                  /\ ask'[q] = ask[q]
                                  /\ q \notin Holding => ~(status'[q] \in Occupying)
      ]_bookingVars

\* Every request that entered the server gets an answer: no lock is lost and
\* no two requests wait for each other.  A request is run once and leaves the
\* transaction only by its answer, so it is enough that again and again none is
\* under way.
UnderWay(q) == pc[q] \in {"begun", "locked", "counting", "checked"}
EveryRequestAnswered == []<>(\A q \in Requests : ~UnderWay(q))

\* The doc's claim for max_active_reservations_per_customer ("Active future
\* limit"), over all the resources of the business.
ActiveFutureLimit ==
    \A c \in {a.customer : a \in Asks} :
        policy.maxActive = NoLimit \/ Cardinality(ActiveRowsOf(c)) <= policy.maxActive

\* Booking implements the calendar: holders are the reservations in a blocking
\* status, and who has been in the table without blocking has given up.
CalendarRanges == {OccupancyRange(a.start, a.end, b) : a \in Asks, b \in Buffers}

heldNow == [r \in Resources |->
              {<<q, RangeOf(q)>> : q \in {h \in Holding : ask[h].resource = r}}]
goneNow == {q \in Table : q \notin Holding}

Promised == INSTANCE Calendar WITH Holders <- Requests, Ranges <- CalendarRanges,
                                   held <- heldNow, gone <- goneNow

ImplementsCalendar == Promised!CalendarSpec

=============================================================================
