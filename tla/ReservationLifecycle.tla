------------------------ MODULE ReservationLifecycle ------------------------
(***************************************************************************)
(* What happens to reservations after they were created: status changes by *)
(* the staff, check-in and check-out with their sessions, cancellations,   *)
(* and the minutely sweep that expires pending ones.                       *)
(*                                                                         *)
(* A handler that locks the row and decides on the locked row is one       *)
(* action.  Two handlers decide on what they read earlier, and are two     *)
(* actions each: a cancellation checks the model its request loaded and    *)
(* writes without a lock; the sweep reads a batch and then works through   *)
(* it, other transactions coming between.                                  *)
(***************************************************************************)
EXTENDS Integers, Sequences, FiniteSets, ReservationStatus

CONSTANTS
    Rows,        \* reservations of one resource
    Start, End,  \* Start[r], End[r]: the booked slot
    ExpiresAt,   \* ExpiresAt[r]: expires_at, for a row created pending
    Cancels,     \* concurrent cancel requests
    Sweeps,      \* concurrent runs of reservations:expire-pending
    BatchLimit,  \* --limit of a sweep
    MayClose,    \* reservations whose customer's account may be deleted
    Early,       \* check_in_early_minutes
    Grace,       \* no_show_grace_minutes
    Deadline,    \* cancellation_deadline_minutes
    CustomerCanCancel, BusinessCanCancel,  \* who may cancel at all
    NoRow,       \* no reservation
    MaxTime      \* bound of the clock

ASSUME RowsAssumption ==
    /\ NoRow \notin Rows /\ MayClose \subseteq Rows
    /\ Start \in [Rows -> Nat] /\ End \in [Rows -> Nat] /\ ExpiresAt \in [Rows -> Nat]
ASSUME TimesAssumption ==
    /\ Early \in Nat /\ Grace \in Nat /\ Deadline \in Nat /\ MaxTime \in Nat
    /\ BatchLimit \in Nat \ {0}
    /\ CustomerCanCancel \in BOOLEAN /\ BusinessCanCancel \in BOOLEAN

VARIABLES
    now,         \* the clock
    bookable,    \* the status of the resource is active
    status,      \* status[r]
    events,      \* events[r]: reservation_events, pairs <<from, to>>
    session,     \* session[r]: its reservation_sessions row
    checkedIn,   \* checkedIn[r]: checked_in_at is set
    checkedOut,  \* checkedOut[r]: checked_out_at is set
    loaded,      \* loaded[c]: row and status a cancel request has loaded
    batch,       \* batch[w]: the rows a sweep still has to visit
    closed       \* the reservations whose customer is soft-deleted

lifecycleVars == <<now, bookable, status, events, session, checkedIn, checkedOut,
                   loaded, batch, closed>>

Idle == [row |-> NoRow, status |-> "none"]

----------------------------------------------------------------------------

LifecycleInit ==
    /\ now = 0
    /\ bookable = TRUE
    /\ status \in [Rows -> {"pending", "confirmed"}]
    /\ events = [r \in Rows |-> << <<"none", status[r]>> >>]
    /\ session = [r \in Rows |-> "none"]
    /\ checkedIn = [r \in Rows |-> FALSE]
    /\ checkedOut = [r \in Rows |-> FALSE]
    /\ loaded = [c \in Cancels |-> Idle]
    /\ batch = [w \in Sweeps |-> {}]
    /\ closed = {}

----------------------------------------------------------------------------
(* Handlers that decide on the locked row *)

\* Variant: the event is left out.
WriteStatusUnrecorded(r, to) ==
    /\ CanTransition(status[r], to)
    /\ status' = [status EXCEPT ![r] = to]
    /\ checkedIn' = [checkedIn EXCEPT ![r] = @ \/ to = "checked_in"]
    /\ UNCHANGED events

\* ChangeReservationStatusAction::execute: the transition is asserted on the
\* locked row, the event and the timestamp are written with the status.
WriteStatus(r, to) ==
    /\ CanTransition(status[r], to)
    /\ status' = [status EXCEPT ![r] = to]
    /\ events' = [events EXCEPT ![r] = Append(@, <<status[r], to>>)]
    /\ checkedIn' = [checkedIn EXCEPT ![r] = @ \/ to = "checked_in"]

\* PATCH .../reservations/{id}: staff may ask for the operational statuses,
\* managers confirm and reject, a platform administrator may ask for any.
PatchStatus(r, to) ==
    /\ WriteStatus(r, to)
    /\ UNCHANGED <<now, bookable, session, checkedOut, loaded, batch, closed>>

\* CheckInEligibilityService::evaluate on the locked row.
EligibleForCheckIn(r) ==
    /\ status[r] = "confirmed"
    /\ bookable
    /\ Start[r] - Early <= now
    /\ now <= End[r] + Grace

\* CheckInReservationAction: a session is opened with the status change (the
\* repeated call that finds both already there changes nothing).
CheckIn(r) ==
    /\ EligibleForCheckIn(r)
    /\ session[r] # "active"
    /\ session' = [session EXCEPT ![r] = "active"]
    /\ WriteStatus(r, "checked_in")
    /\ UNCHANGED <<now, bookable, checkedOut, loaded, batch, closed>>

\* Variant: the session is given the operational status.
CheckOutMislabelled(r) ==
    /\ session[r] = "active"
    /\ session' = [session EXCEPT ![r] = "checked_out"]
    /\ WriteStatus(r, "completed")
    /\ checkedOut' = [checkedOut EXCEPT ![r] = TRUE]
    /\ UNCHANGED <<now, bookable, loaded, batch, closed>>

\* Variant: the reservation is not stamped.
CheckOutUnstamped(r) ==
    /\ session[r] = "active"
    /\ session' = [session EXCEPT ![r] = "completed"]
    /\ WriteStatus(r, "completed")
    /\ UNCHANGED <<now, bookable, checkedOut, loaded, batch, closed>>

\* Variant: the session is closed in a transaction of its own.
CheckOutSessionOnly(r) ==
    /\ session[r] = "active"
    /\ session' = [session EXCEPT ![r] = "completed"]
    /\ UNCHANGED <<now, bookable, status, events, checkedIn, checkedOut, loaded, batch,
                   closed>>

\* CheckOutReservationAction: needs the active session; when the status may
\* not become completed the exception rolls the closed session back too.
CheckOut(r) ==
    /\ ~(status[r] = "completed" /\ checkedOut[r])
    /\ session[r] = "active"
    /\ session' = [session EXCEPT ![r] = "completed"]
    /\ WriteStatus(r, "completed")
    /\ checkedOut' = [checkedOut EXCEPT ![r] = TRUE]
    /\ UNCHANGED <<now, bookable, loaded, batch, closed>>

----------------------------------------------------------------------------
(* Cancellation *)

\* The route loads the model; gate, settings and transition are checked on it.
LoadForCancel(c, r) ==
    /\ loaded[c] = Idle
    /\ CanTransition(status[r], "cancelled")
    /\ loaded' = [loaded EXCEPT ![c] = [row |-> r, status |-> status[r]]]
    /\ UNCHANGED <<now, bookable, status, events, session, checkedIn, checkedOut, batch,
                   closed>>

\* A customer must be ahead of the deadline, and allowed to cancel at all; one
\* whose account is deleted does not get through the authentication.
CustomerCancel(c, r) ==
    /\ r \notin closed
    /\ status[r] \in CancellableByCustomer
    /\ CustomerCanCancel
    /\ now < Start[r] - Deadline
    /\ LoadForCancel(c, r)

\* Owner and staff are bound by the policy only.
BusinessCancel(c, r) ==
    /\ BusinessCanCancel
    /\ LoadForCancel(c, r)

\* The UPDATE by primary key: whatever the row holds by now is overwritten, and
\* the event names the status that had been loaded.
WriteCancel(c) ==
    /\ loaded[c] # Idle
    /\ LET r == loaded[c].row IN
         /\ status' = [status EXCEPT ![r] = "cancelled"]
         /\ events' = [events EXCEPT ![r] = Append(@, <<loaded[c].status, "cancelled">>)]
    /\ loaded' = [loaded EXCEPT ![c] = Idle]
    /\ UNCHANGED <<now, bookable, session, checkedIn, checkedOut, batch,
                   closed>>

----------------------------------------------------------------------------
(* The sweep *)

Overdue(r) == status[r] = "pending" /\ ExpiresAt[r] <= now

\* The batches the query may return: overdue rows in order of expires_at, cut
\* off at the limit.
Batches ==
    LET overdue == {r \in Rows : Overdue(r)} IN
    {b \in SUBSET overdue :
        /\ Cardinality(b) <= BatchLimit
        /\ b # overdue => Cardinality(b) = BatchLimit
        /\ \A r \in b, s \in overdue \ b : ExpiresAt[r] <= ExpiresAt[s]}

\* A run of the command reads its batch.
SweepStart(w) ==
    /\ batch[w] = {}
    /\ \E b \in Batches \ {{}} : batch' = [batch EXCEPT ![w] = b]
    /\ UNCHANGED <<now, bookable, status, events, session, checkedIn, checkedOut, loaded,
                   closed>>

\* The rows of a batch are visited in order.
NextOf(b) == {r \in b : \A s \in b : ExpiresAt[r] <= ExpiresAt[s]}

\* Variant: the sweep trusts what its query said of the row.
SweepRowUnlocked(w, r) ==
    /\ r \in NextOf(batch[w])
    /\ status' = [status EXCEPT ![r] = "expired"]
    /\ events' = [events EXCEPT ![r] = Append(@, <<status[r], "expired">>)]
    /\ batch' = [batch EXCEPT ![w] = @ \ {r}]
    /\ UNCHANGED <<now, bookable, session, checkedIn, checkedOut, loaded, closed>>

\* A row that is still pending under its lock expires, in the name of its
\* customer.
SweepRow(w, r) ==
    /\ r \in NextOf(batch[w])
    /\ r \notin closed
    /\ WriteStatus(r, "expired")
    /\ batch' = [batch EXCEPT ![w] = @ \ {r}]
    /\ UNCHANGED <<now, bookable, session, checkedOut, loaded, closed>>

\* A reservation whose customer is gone is passed over, whatever its status: a
\* pending one stays pending, and the next run's query lists it again.
SweepSkips(w, r) ==
    /\ r \in NextOf(batch[w])
    /\ r \in closed
    /\ batch' = [batch EXCEPT ![w] = @ \ {r}]
    /\ UNCHANGED <<now, bookable, status, events, session, checkedIn, checkedOut, loaded,
                   closed>>

\* Variant: the sweep keeps trying the row that changed.
SweepRetries(w, r) ==
    /\ r \in NextOf(batch[w])
    /\ r \notin closed
    /\ ~CanTransition(status[r], "expired")
    /\ UNCHANGED lifecycleVars

\* A row that changed since the query makes the action throw, and the exception
\* ends the command: the rest of the batch is left to a later run.
SweepAborts(w, r) ==
    /\ r \in NextOf(batch[w])
    /\ r \notin closed
    /\ ~CanTransition(status[r], "expired")
    /\ batch' = [batch EXCEPT ![w] = {}]
    /\ UNCHANGED <<now, bookable, status, events, session, checkedIn, checkedOut, loaded,
                   closed>>

----------------------------------------------------------------------------

\* The owner takes the resource out of service, or back.
ChangeResource ==
    /\ bookable' = ~bookable
    /\ UNCHANGED <<now, status, events, session, checkedIn, checkedOut, loaded, batch, closed>>

\* The customer's account is soft-deleted; the reservation stays.
CloseAccount(r) ==
    /\ r \in MayClose \ closed
    /\ closed' = closed \cup {r}
    /\ UNCHANGED <<now, bookable, status, events, session, checkedIn, checkedOut, loaded,
                   batch>>

Tick ==
    /\ now < MaxTime
    /\ now' = now + 1
    /\ UNCHANGED <<bookable, status, events, session, checkedIn, checkedOut, loaded, batch,
                   closed>>

SweepStep(w) == \E r \in Rows : SweepRow(w, r) \/ SweepSkips(w, r) \/ SweepAborts(w, r)

Staff(r) ==
    \/ \E to \in Status : PatchStatus(r, to)
    \/ CheckIn(r)
    \/ CheckOut(r)
    \/ \E c \in Cancels : CustomerCancel(c, r) \/ BusinessCancel(c, r)

LifecycleNext ==
    \/ \E r \in Rows : Staff(r)
    \/ \E c \in Cancels : WriteCancel(c)
    \/ \E w \in Sweeps : SweepStart(w) \/ SweepStep(w)
    \/ \E r \in Rows : CloseAccount(r)
    \/ ChangeResource
    \/ Tick

LifecycleSpec == LifecycleInit /\ [][LifecycleNext]_lifecycleVars

\* The scheduler starts the command every minute and time passes.
LifecycleFairSpec ==
    /\ LifecycleSpec
    /\ WF_lifecycleVars(Tick)
    /\ \A w \in Sweeps : WF_lifecycleVars(SweepStart(w)) /\ WF_lifecycleVars(SweepStep(w))

----------------------------------------------------------------------------
(* Properties *)

LifecycleTypeOK ==
    /\ now \in Nat
    /\ bookable \in BOOLEAN
    /\ status \in [Rows -> Status]
    /\ events \in [Rows -> Seq((Status \cup {"none"}) \X Status)]
    /\ session \in [Rows -> {"none", "active", "completed"}]
    /\ checkedIn \in [Rows -> BOOLEAN]
    /\ checkedOut \in [Rows -> BOOLEAN]
    /\ loaded \in [Cancels -> [row: Rows \cup {NoRow}, status: Status \cup {"none"}]]
    /\ batch \in [Sweeps -> SUBSET Rows]
    /\ closed \subseteq Rows

\* The event r has of a step into a status.
Entered(r, to) == \E i \in 1 .. Len(events[r]) : events[r][i][2] = to

\* The history of a reservation explains its status: the last event led there,
\* and every event but a cancellation starts where the one before it ended.
HistoryExplainsStatus ==
    \A r \in Rows :
        /\ events[r][Len(events[r])][2] = status[r]
        /\ \A i \in 2 .. Len(events[r]) :
              events[r][i][2] # "cancelled" => events[r][i][1] = events[r][i - 1][2]

\* What the table of transitions guarantees in spite of the unlocked write: a
\* status changes along the table, or it is overwritten by a cancellation.  In
\* particular a sweep never expires what was confirmed since it was selected.
TableOrCancelled ==
    [][\A r \in Rows : status'[r] # status[r]
            => CanTransition(status[r], status'[r]) \/ status'[r] = "cancelled"]_lifecycleVars

\* A session belongs to a guest who was checked in, and a closed one to a
\* reservation that was completed by the check-out (and at most cancelled by
\* an overtaken request afterwards).
SessionFollowsGuest ==
    \A r \in Rows :
        /\ session[r] # "none" => Entered(r, "checked_in")
        /\ session[r] = "completed" <=> checkedOut[r]
        /\ session[r] = "completed" => status[r] \in {"completed", "cancelled"}

\* What happens to a guest who is still on site when the status is set by hand
\* or overwritten: the session can never be closed any more (check-out cannot
\* make the transition), it is reported as active for ever.
OrphanSessionNeverCloses ==
    [][\A r \in Rows : session[r] = "active" /\ status[r] \in Terminal
            => session'[r] = "active"]_lifecycleVars

\* Pending reservations do not block their slot for ever: one past its time to
\* live leaves the status pending, even though a sweep gives up at the first
\* row that was changed under it and loses the rest of its batch.  Only a
\* reservation whose customer is gone may stay, and it must not keep the sweep
\* from the others (it comes back in every batch, so fewer of them than a batch
\* holds are supposed; the clock's last minute is the bound of the model).
OverduePendingLeaves ==
    \A r \in Rows : Overdue(r) ~> status[r] # "pending" \/ r \in closed

\* docs/BOOKING_MANAGEMENT.md, status lifecycle: no status follows a terminal one.
TerminalIsFinal ==
    [][\A r \in Rows : status[r] \in Terminal => status'[r] = status[r]]_lifecycleVars

=============================================================================
