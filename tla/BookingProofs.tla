---------------------------- MODULE BookingProofs ----------------------------
(***************************************************************************)
(* Proofs about Booking, for every number of requests, resources and       *)
(* policies: the types, the lock discipline of the create transaction, and *)
(* from it the absence of double bookings without the help of the          *)
(* exclusion constraint, the calendar that is implemented, one reservation *)
(* per key, the limits of a customer, and the absence of deadlocks.        *)
(***************************************************************************)
EXTENDS Booking, FiniteSetTheorems, TLAPS

----------------------------------------------------------------------------
(* Arithmetic of the slots *)

\* Two non-empty half-open ranges intersect exactly when they share an instant,
\* so the operator && of the constraint decides double booking.
LEMMA IntersectIffSharedInstant ==
    ASSUME NEW a \in [from: Int, to: Int], a.from < a.to,
           NEW b \in [from: Int, to: Int], b.from < b.to
    PROVE  RangesIntersect(a, b) <=> Instants(a) \cap Instants(b) # {}
<1>1. ASSUME RangesIntersect(a, b)
      PROVE  Instants(a) \cap Instants(b) # {}
  <2>1. CASE a.from <= b.from
    <3>1. b.from \in Instants(a) /\ b.from \in Instants(b)
      BY <1>1, <2>1 DEF RangesIntersect, Instants
    <3>2. QED  BY <3>1
  <2>2. CASE b.from <= a.from
    <3>1. a.from \in Instants(a) /\ a.from \in Instants(b)
      BY <1>1, <2>2 DEF RangesIntersect, Instants
    <3>2. QED  BY <3>1
  <2>3. QED  BY <2>1, <2>2
<1>2. ASSUME Instants(a) \cap Instants(b) # {}
      PROVE  RangesIntersect(a, b)
  <2>1. PICK t \in Instants(a) : t \in Instants(b)
    BY <1>2
  <2>2. QED  BY <2>1 DEF RangesIntersect, Instants
<1>3. QED  BY <1>1, <1>2

\* The conflict query of the create transaction answers exactly what the
\* exclusion constraint would: neither misses a clash the other one sees.
LEMMA ConflictQueryExact ==
    ASSUME NEW rs \in Int, NEW re \in Int, NEW rb \in Int,
           NEW s \in Int, NEW e \in Int, NEW b \in Int
    PROVE  HasConflictIncludingBuffer(rs, re, rb, s, e, b)
             <=> RangesIntersect(OccupancyRange(rs, re, rb), OccupancyRange(s, e, b))
BY DEF HasConflictIncludingBuffer, RangesIntersect, OccupancyRange

\* The availability engine ignores the buffer of the wanted slot, so what it
\* calls booked is a conflict, but not the other way round: the conflict query
\* is the check that matters.
LEMMA BookedIsConflict ==
    ASSUME NEW rs \in Int, NEW re \in Int, NEW rb \in Int,
           NEW s \in Int, NEW e \in Int, NEW b \in Nat,
           BookedForAvailability(rs, re, rb, s, e)
    PROVE  HasConflictIncludingBuffer(rs, re, rb, s, e, b)
BY DEF HasConflictIncludingBuffer, BookedForAvailability, Overlaps

\* No transition of the table leads back to a status that blocks the resource.
LEMMA NoWayBack ==
    ASSUME NEW from \in Status, NEW to \in Status,
           CanTransition(from, to), to \in Occupying
    PROVE  from \in Occupying
BY DEF CanTransition, Transitions, Status, Occupying

----------------------------------------------------------------------------
(* Types *)

LEMMA PolicyTyped ==
    ASSUME NEW pol \in Policies
    PROVE  pol \in PolicyType
BY PolicyAssumption

LEMMA NoTermsTyped == Policies # {} => NoTerms \in PolicyType
BY PolicyAssumption DEF NoTerms

LEMMA TermsTyped ==
    ASSUME BookingTypeOK, NEW r \in Resources
    PROVE  [policy EXCEPT !.buffer = EffectiveBuffer(r)] \in PolicyType
<1>1. policy \in PolicyType
  BY PolicyAssumption DEF BookingTypeOK
<1>2. resource[r].buffer \in Nat \cup {Inherit}
  BY SettingsAssumption DEF BookingTypeOK
<1>3. policy.buffer \in Nat
  BY <1>1 DEF PolicyType
<1>4. EffectiveBuffer(r) \in Nat
  BY <1>2, <1>3 DEF EffectiveBuffer
<1>5. QED  BY <1>1, <1>4 DEF PolicyType

\* Initially every variable has its type.
LEMMA InitTyped ==
    ASSUME BookingInit
    PROVE  BookingTypeOK
<1>1. NoTerms \in PolicyType
  BY NoTermsTyped DEF BookingInit
<1>2. QED
  BY <1>1, VisibilityAssumption DEF BookingInit, BookingTypeOK, PC

\* A step keeps every variable in its type.
LEMMA StepTyped ==
    ASSUME BookingTypeOK, Bookkeeping, [BookingNext]_bookingVars
    PROVE  BookingTypeOK'
<1>0. NoTerms \in PolicyType
  BY NoTermsTyped DEF BookingTypeOK
<1>1. ASSUME NEW q \in Requests, Arrive(q)
      PROVE  BookingTypeOK'
  <2>1. PICK a \in Asks : Replay(q, a) \/ Begin(q, a) \/ RefuseEarly(q, a)
    BY <1>1 DEF Arrive
  <2>2. CASE Replay(q, a)
    BY <2>2 DEF BookingTypeOK, Replay, Earlier, Table, PC, settingsVars, calendarOnly
  <2>3. CASE Begin(q, a)
    BY <2>3 DEF BookingTypeOK, Begin, PC, settingsVars, calendarOnly
  <2>4. CASE RefuseEarly(q, a)
    BY <2>4 DEF BookingTypeOK, RefuseEarly, PC, settingsVars, calendarOnly
  <2>5. QED  BY <2>1, <2>2, <2>3, <2>4
<1>2. ASSUME NEW q \in Requests, Rollback(q)
      PROVE  BookingTypeOK'
  BY <1>0, <1>2 DEF BookingTypeOK, Rollback, PC, settingsVars
<1>3. ASSUME NEW q \in Requests, Serve(q)
      PROVE  BookingTypeOK'
  <2>1. CASE LockResource(q)
    <3>1. ask[q].resource \in Resources
      BY <2>1, AsksAssumption DEF LockResource, Bookkeeping
    <3>2. QED
      BY <2>1, <3>1, TermsTyped DEF BookingTypeOK, LockResource, PC, settingsVars
  <2>2. CASE RefuseUnbookable(q)
    BY <1>2, <2>2 DEF RefuseUnbookable
  <2>3. CASE SnapshotActive(q)
    BY <2>3 DEF BookingTypeOK, SnapshotActive, ActiveRowsOf, Table, PC, settingsVars, calendarOnly
  <2>4. CASE PassChecks(q)
    BY <2>4 DEF BookingTypeOK, PassChecks, PC, settingsVars, calendarOnly
  <2>5. CASE FailChecks(q)
    BY <1>2, <2>5 DEF FailChecks
  <2>6. CASE InsertReservation(q)
    <3>1. terms[q].buffer \in Nat
      BY DEF BookingTypeOK, PolicyType
    <3>2. QED
      BY <1>0, <2>6, <3>1 DEF BookingTypeOK, InsertReservation, Status, PC, settingsVars
  <2>7. CASE InsertFails(q)
    BY <1>2, <2>7 DEF InsertFails
  <2>8. QED
    BY <1>3, <2>1, <2>2, <2>3, <2>4, <2>5, <2>6, <2>7 DEF Serve
<1>4. ASSUME Meanwhile
      PROVE  BookingTypeOK'
  <2>1. ASSUME NEW p \in Requests, NEW to \in Status, ChangeStatus(p, to)
        PROVE  BookingTypeOK'
    BY <2>1 DEF BookingTypeOK, ChangeStatus, settingsVars
  <2>2. ASSUME NEW p \in Requests, CancelReservation(p)
        PROVE  BookingTypeOK'
    BY <2>2 DEF BookingTypeOK, CancelReservation, Status, settingsVars
  <2>3. ASSUME NEW new \in Policies, UpdatePolicy(new)
        PROVE  BookingTypeOK'
    BY <2>3 DEF BookingTypeOK, UpdatePolicy, calendarOnly
  <2>4. ASSUME NEW r \in Resources, NEW new \in ResourceSettings, UpdateResource(r, new)
        PROVE  BookingTypeOK'
    BY <2>4 DEF BookingTypeOK, UpdateResource, calendarOnly
  <2>5. ASSUME NEW v \in Visibilities, ChangeVisibility(v)
        PROVE  BookingTypeOK'
    BY <2>5, VisibilityAssumption DEF BookingTypeOK, ChangeVisibility, calendarOnly
  <2>6. CASE Tick
    BY <2>6 DEF BookingTypeOK, Tick, calendarOnly
  <2>7. QED
    BY <1>4, <2>1, <2>2, <2>3, <2>4, <2>5, <2>6 DEF Meanwhile
<1>5. CASE UNCHANGED bookingVars
  BY <1>5 DEF BookingTypeOK, bookingVars
<1>6. QED
  BY <1>1, <1>3, <1>4, <1>5 DEF BookingNext

\* Payloads are there from the arrival on, rows only once a request is answered.
LEMMA StepBookkeeping ==
    ASSUME BookingTypeOK, Bookkeeping, [BookingNext]_bookingVars
    PROVE  Bookkeeping'
<1> USE DEF Bookkeeping, BookingTypeOK
<1>1. ASSUME NEW q \in Requests, Arrive(q)
      PROVE  Bookkeeping'
  BY <1>1 DEF Arrive, Replay, Begin, RefuseEarly, calendarOnly
<1>2. ASSUME NEW q \in Requests, pc[q] \in {"begun", "counting", "checked"}, Rollback(q)
      PROVE  Bookkeeping'
  BY <1>2 DEF Rollback
<1>3. ASSUME NEW q \in Requests, Serve(q)
      PROVE  Bookkeeping'
  <2>1. CASE LockResource(q)
    <3>1. ask[q].resource \in Resources
      BY <2>1, AsksAssumption DEF LockResource
    <3>2. terms'[q].buffer = EffectiveBuffer(ask[q].resource)
      <4>1. policy \in PolicyType
        BY PolicyAssumption
      <4>2. QED
        BY <2>1, <4>1 DEF LockResource, PolicyType
    <3>3. EffectiveBuffer(ask[q].resource) \in Buffers
      BY <3>1 DEF EffectiveBuffer, Buffers
    <3>4. \A p \in Requests : p # q => terms'[p] = terms[p] /\ pc'[p] = pc[p]
      BY <2>1 DEF LockResource
    <3>5. QED
      BY <2>1, <3>2, <3>3, <3>4 DEF LockResource
  <2>2. CASE RefuseUnbookable(q) \/ FailChecks(q) \/ InsertFails(q)
    BY <1>2, <2>2 DEF RefuseUnbookable, FailChecks, InsertFails
  <2>3. CASE SnapshotActive(q) \/ PassChecks(q)
    BY <2>3 DEF SnapshotActive, PassChecks, calendarOnly
  <2>4. CASE InsertReservation(q)
    BY <2>4 DEF InsertReservation
  <2>5. QED
    BY <1>3, <2>1, <2>2, <2>3, <2>4 DEF Serve
<1>4. ASSUME Meanwhile
      PROVE  Bookkeeping'
  <2>1. ASSUME NEW p \in Requests, NEW to \in Status,
               ChangeStatus(p, to) \/ CancelReservation(p)
        PROVE  Bookkeeping'
    BY <2>1 DEF ChangeStatus, CancelReservation, Table
  <2>2. CASE UNCHANGED <<pc, ask, status, terms>>
    BY <2>2
  <2>3. QED
    BY <1>4, <2>1, <2>2 DEF Meanwhile, UpdatePolicy, UpdateResource, ChangeVisibility,
       Tick, calendarOnly, Status
<1>5. CASE UNCHANGED bookingVars
  BY <1>5 DEF bookingVars
<1>6. QED
  BY <1>1, <1>3, <1>4, <1>5 DEF BookingNext

\* A resource row is locked by exactly the request that is inside its
\* transaction on that resource.
LEMMA StepLocks ==
    ASSUME BookingTypeOK, Bookkeeping, LockDiscipline, [BookingNext]_bookingVars
    PROVE  LockDiscipline'
<1> USE NobodyAssumption, AsksAssumption DEF BookingTypeOK, Bookkeeping, LockDiscipline
<1>1. ASSUME NEW q \in Requests, Arrive(q)
      PROVE  LockDiscipline'
  BY <1>1 DEF Arrive, Replay, Begin, RefuseEarly, calendarOnly
<1>2. ASSUME NEW q \in Requests, Rollback(q)
      PROVE  LockDiscipline'
  BY <1>2 DEF Rollback
<1>3. ASSUME NEW q \in Requests, Serve(q)
      PROVE  LockDiscipline'
  <2>1. CASE LockResource(q)
    BY <2>1 DEF LockResource
  <2>2. CASE RefuseUnbookable(q) \/ FailChecks(q) \/ InsertFails(q)
    BY <1>2, <2>2 DEF RefuseUnbookable, FailChecks, InsertFails
  <2>3. CASE SnapshotActive(q) \/ PassChecks(q)
    BY <2>3 DEF SnapshotActive, PassChecks, calendarOnly
  <2>4. CASE InsertReservation(q)
    BY <2>4 DEF InsertReservation
  <2>5. QED
    BY <1>3, <2>1, <2>2, <2>3, <2>4 DEF Serve
<1>4. CASE UNCHANGED <<lock, pc, ask>>
  BY <1>4
<1>5. QED
  BY <1>1, <1>3, <1>4 DEF BookingNext, Meanwhile, ChangeStatus, CancelReservation, UpdatePolicy,
     UpdateResource, ChangeVisibility, Tick, calendarOnly, bookingVars

----------------------------------------------------------------------------
(* No double booking *)

\* A slot that passed the conflict query violates no exclusion.
LEMMA PassedIsClear ==
    ASSUME BookingTypeOK, Bookkeeping, NEW q \in Requests, ask[q] \in Asks,
           ~Conflicting(q)
    PROVE  ~ExclusionViolated(q)
<1>1. SUFFICES ASSUME NEW p \in Holding, ask[p].resource = ask[q].resource
               PROVE  ~RangesIntersect(RangeOf(p),
                          OccupancyRange(ask[q].start, ask[q].end, terms[q].buffer))
  BY DEF ExclusionViolated
<1>2. p \in Requests /\ ask[p] \in Asks
  BY DEF Holding, Occupying, Bookkeeping
<1>3. /\ ask[p].start \in Nat /\ ask[p].end \in Nat /\ buffer[p] \in Nat
      /\ ask[q].start \in Nat /\ ask[q].end \in Nat /\ terms[q].buffer \in Nat
  BY <1>2, AsksAssumption DEF BookingTypeOK, PolicyType
<1>4. ~HasConflictIncludingBuffer(ask[p].start, ask[p].end, buffer[p],
                                  ask[q].start, ask[q].end, terms[q].buffer)
  BY <1>1 DEF Conflicting
<1>5. ~RangesIntersect(OccupancyRange(ask[p].start, ask[p].end, buffer[p]),
                       OccupancyRange(ask[q].start, ask[q].end, terms[q].buffer))
  <2>1. /\ ask[p].start \in Int /\ ask[p].end \in Int /\ buffer[p] \in Int
        /\ ask[q].start \in Int /\ ask[q].end \in Int /\ terms[q].buffer \in Int
    BY <1>3
  <2>2. QED
    BY <2>1, <1>4, ConflictQueryExact, Zenon
<1>6. QED
  BY <1>5 DEF RangeOf

\* When no reservation starts to hold a resource and no payload or settings of
\* a checked request change, clear slots stay clear.
LEMMA FewerHoldersStillClear ==
    ASSUME CheckedIsClear, HoldingDisjoint,
           \A q \in Holding' : q \in Holding /\ ask'[q] = ask[q] /\ buffer'[q] = buffer[q],
           \A q \in Requests : pc'[q] = "checked" =>
               pc[q] = "checked" /\ ask'[q] = ask[q] /\ terms'[q] = terms[q]
    PROVE  CheckedIsClear' /\ HoldingDisjoint'
<1>1. \A q \in Holding' : RangeOf(q)' = RangeOf(q)
  BY DEF RangeOf
<1>2. HoldingDisjoint'
  BY <1>1 DEF HoldingDisjoint
<1>3. ASSUME NEW q \in Requests, pc'[q] = "checked", ExclusionViolated(q)'
      PROVE  FALSE
  <2>1. PICK p \in Holding' :
            /\ ask'[p].resource = ask'[q].resource
            /\ RangesIntersect(RangeOf(p)',
                   OccupancyRange(ask'[q].start, ask'[q].end, terms'[q].buffer))
    BY <1>3 DEF ExclusionViolated
  <2>2. ExclusionViolated(q)
    BY <1>1, <1>3, <2>1 DEF ExclusionViolated
  <2>3. QED
    BY <1>3, <2>2 DEF CheckedIsClear
<1>4. QED
  BY <1>2, <1>3 DEF CheckedIsClear

\* Every step keeps checked slots clear and held ranges disjoint.
LEMMA StepClear ==
    ASSUME BookingInv, [BookingNext]_bookingVars
    PROVE  CheckedIsClear' /\ HoldingDisjoint'
<1> USE DEF BookingInv
<1>1. ASSUME NEW q \in Requests, Arrive(q)
      PROVE  CheckedIsClear' /\ HoldingDisjoint'
  <2>1. /\ status' = status /\ buffer' = buffer /\ terms' = terms
        /\ pc[q] = "idle" /\ \A p \in Requests : p # q => ask'[p] = ask[p] /\ pc'[p] = pc[p]
        /\ pc'[q] # "checked"
    BY <1>1 DEF Arrive, Replay, Begin, RefuseEarly, calendarOnly, BookingTypeOK
  <2>2. QED
    BY <2>1, FewerHoldersStillClear DEF Holding, Occupying, Bookkeeping
<1>2. ASSUME NEW q \in Requests, Rollback(q)
      PROVE  CheckedIsClear' /\ HoldingDisjoint'
  <2>1. /\ status' = status /\ buffer' = buffer /\ ask' = ask /\ pc'[q] # "checked"
        /\ \A p \in Requests : p # q => terms'[p] = terms[p] /\ pc'[p] = pc[p]
    BY <1>2 DEF Rollback, BookingTypeOK
  <2>2. QED
    BY <2>1, FewerHoldersStillClear DEF Holding
<1>3. ASSUME NEW q \in Requests, LockResource(q) \/ SnapshotActive(q)
      PROVE  CheckedIsClear' /\ HoldingDisjoint'
  <2>1. /\ status' = status /\ buffer' = buffer /\ ask' = ask /\ pc'[q] # "checked"
        /\ \A p \in Requests : p # q => terms'[p] = terms[p] /\ pc'[p] = pc[p]
    BY <1>3 DEF LockResource, SnapshotActive, calendarOnly, BookingTypeOK
  <2>2. QED
    BY <2>1, FewerHoldersStillClear DEF Holding
<1>4. ASSUME NEW q \in Requests, PassChecks(q)
      PROVE  CheckedIsClear' /\ HoldingDisjoint'
  <2>1. /\ status' = status /\ buffer' = buffer /\ ask' = ask /\ terms' = terms
        /\ \A p \in Requests : p # q => pc'[p] = pc[p]
    BY <1>4 DEF PassChecks, calendarOnly, BookingTypeOK
  <2>2. ~ExclusionViolated(q)
    BY <1>4, PassedIsClear DEF PassChecks, Bookkeeping
  <2>3. \A p \in Requests : ExclusionViolated(p)' <=> ExclusionViolated(p)
    BY <2>1 DEF ExclusionViolated, Holding, RangeOf
  <2>4. HoldingDisjoint'
    BY <2>1 DEF HoldingDisjoint, Holding, RangeOf
  <2>5. QED
    BY <2>1, <2>2, <2>3, <2>4 DEF CheckedIsClear
<1>5. ASSUME NEW q \in Requests, InsertReservation(q)
      PROVE  CheckedIsClear' /\ HoldingDisjoint'
  <2>1. /\ ask' = ask /\ pc[q] = "checked" /\ pc'[q] = "answered"
        /\ status'[q] \in Occupying
        /\ buffer'[q] = terms[q].buffer
        /\ \A p \in Requests : p # q => /\ status'[p] = status[p] /\ pc'[p] = pc[p]
                                       /\ buffer'[p] = buffer[p] /\ terms'[p] = terms[p]
    BY <1>5 DEF InsertReservation, BookingTypeOK, Occupying
  <2>2. \A p \in Holding : p # q => /\ p \in Holding' /\ RangeOf(p)' = RangeOf(p)
    BY <2>1 DEF Holding, RangeOf
  <2>3. /\ Holding' = Holding \cup {q}
        /\ RangeOf(q)' = OccupancyRange(ask[q].start, ask[q].end, terms[q].buffer)
    BY <2>1 DEF Holding, RangeOf
  <2>4. q \notin Holding
    BY <2>1 DEF Holding, Occupying, Bookkeeping
  <2>5. \A p \in Holding : ask[p].resource = ask[q].resource =>
            /\ ~RangesIntersect(RangeOf(p), RangeOf(q)')
            /\ ~RangesIntersect(RangeOf(q)', RangeOf(p))
    BY <2>1, <2>3 DEF CheckedIsClear, ExclusionViolated, RangesIntersect
  <2>6. HoldingDisjoint'
    BY <2>1, <2>2, <2>3, <2>4, <2>5 DEF HoldingDisjoint
  <2>7. ASSUME NEW p \in Requests, pc'[p] = "checked", ExclusionViolated(p)'
        PROVE  FALSE
    <3>1. p # q /\ pc[p] = "checked" /\ terms'[p] = terms[p]
      BY <2>1, <2>7
    <3>2. ask[p].resource # ask[q].resource
      <4>1. ask[p] \in Asks /\ ask[p].resource \in Resources
        BY <3>1, AsksAssumption DEF Bookkeeping
      <4>2. QED
        BY <2>1, <3>1, <4>1 DEF LockDiscipline
    <3>3. PICK h \in Holding' :
              /\ ask[h].resource = ask[p].resource
              /\ RangesIntersect(RangeOf(h)',
                     OccupancyRange(ask[p].start, ask[p].end, terms[p].buffer))
      BY <2>1, <2>7, <3>1 DEF ExclusionViolated
    <3>4. h \in Holding /\ RangeOf(h)' = RangeOf(h)
      BY <2>2, <2>3, <3>2, <3>3
    <3>5. QED
      BY <3>1, <3>3, <3>4 DEF CheckedIsClear, ExclusionViolated
  <2>8. QED
    BY <2>6, <2>7 DEF CheckedIsClear
<1>6. ASSUME NEW p \in Requests,
             (\E to \in Status : ChangeStatus(p, to)) \/ CancelReservation(p)
      PROVE  CheckedIsClear' /\ HoldingDisjoint'
  <2>1. /\ buffer' = buffer /\ ask' = ask /\ terms' = terms /\ pc' = pc
        /\ \A q \in Requests : q # p => status'[q] = status[q]
    BY <1>6 DEF ChangeStatus, CancelReservation, BookingTypeOK
  <2>2. p \in Holding' => p \in Holding
    <3>1. ASSUME NEW to \in Status, ChangeStatus(p, to)
          PROVE  p \in Holding' => p \in Holding
      <4>1. status'[p] = to /\ status[p] \in Status /\ CanTransition(status[p], to)
        BY <3>1 DEF ChangeStatus, BookingTypeOK, Table
      <4>2. QED
        BY <4>1, NoWayBack DEF Holding
    <3>2. CASE CancelReservation(p)
      BY <3>2 DEF CancelReservation, BookingTypeOK, Holding, Occupying
    <3>3. QED
      BY <1>6, <3>1, <3>2
  <2>3. \A q \in Holding' : q \in Holding
    BY <2>1, <2>2 DEF Holding
  <2>4. QED
    BY <2>1, <2>3, FewerHoldersStillClear
<1>7. CASE UNCHANGED <<status, buffer, ask, terms, pc>>
  BY <1>7, FewerHoldersStillClear DEF Holding
<1>8. QED
  BY <1>1, <1>2, <1>3, <1>4, <1>5, <1>6, <1>7
  DEF BookingNext, Serve, RefuseUnbookable, FailChecks, InsertFails, Meanwhile,
      UpdatePolicy, UpdateResource, ChangeVisibility, Tick, calendarOnly, bookingVars

\* The inductive invariant holds in every reachable state.
THEOREM BookingInvariant == BookingSpec => []BookingInv
<1>1. BookingInit => BookingInv
  <2>1. SUFFICES ASSUME BookingInit PROVE BookingInv
    OBVIOUS
  <2>2. BookingTypeOK
    BY <2>1, InitTyped
  <2>3. Bookkeeping /\ LockDiscipline /\ CheckedIsClear /\ HoldingDisjoint
    BY <2>1, NobodyAssumption DEF BookingInit, Bookkeeping, LockDiscipline, CheckedIsClear,
       HoldingDisjoint, Holding, Occupying
  <2>4. QED
    BY <2>2, <2>3 DEF BookingInv
<1>2. BookingInv /\ [BookingNext]_bookingVars => BookingInv'
  BY StepTyped, StepBookkeeping, StepLocks, StepClear DEF BookingInv
<1>3. QED
  BY <1>1, <1>2, PTL DEF BookingSpec

\* Every variable of the booking machine keeps its type.
THEOREM BookingTypeCorrect == BookingSpec => []BookingTypeOK
<1>1. BookingInv => BookingTypeOK
  BY DEF BookingInv
<1>2. QED
  BY <1>1, BookingInvariant, PTL

\* The exclusion constraint never fires: the lock and the query suffice.
THEOREM ExclusionNeverFires == BookingSpec => []CheckedIsClear
<1>1. BookingInv => CheckedIsClear
  BY DEF BookingInv
<1>2. QED
  BY <1>1, BookingInvariant, PTL

\* Two reservations never block one resource at the same instant.
THEOREM NoDoubleBooking == BookingSpec => []NoSharedInstant
<1>1. ASSUME BookingInv
      PROVE  NoSharedInstant
  <2> USE <1>1 DEF BookingInv
  <2>1. SUFFICES ASSUME NEW p \in Holding, NEW q \in Holding, p # q,
                        ask[p].resource = ask[q].resource
                 PROVE  Instants(RangeOf(p)) \cap Instants(RangeOf(q)) = {}
    BY DEF NoSharedInstant, Holding, Occupying
  <2>2. ~RangesIntersect(RangeOf(p), RangeOf(q))
    BY <2>1 DEF HoldingDisjoint
  <2>3. ASSUME NEW h \in Holding
        PROVE  RangeOf(h) \in [from: Int, to: Int] /\ RangeOf(h).from < RangeOf(h).to
    <3>1. h \in Requests /\ ask[h] \in Asks
      BY DEF Holding, Occupying, Bookkeeping
    <3>2. ask[h].start \in Nat /\ ask[h].end \in Nat /\ ask[h].start < ask[h].end
          /\ buffer[h] \in Nat
      BY <3>1, AsksAssumption DEF BookingTypeOK
    <3>3. QED
      BY <3>2 DEF RangeOf, OccupancyRange
  <2>4. QED
    BY <2>2, <2>3, IntersectIffSharedInstant
<1>2. QED
  BY <1>1, BookingInvariant, PTL

----------------------------------------------------------------------------
(* What a step never does *)

\* The buffer of a reservation is its own for good, and one that stopped
\* blocking its resource never blocks it again.
THEOREM BlocksOnlyOnce == BookingSpec => NeverBlocksAgain
<1> DEFINE Kept == \A q \in Requests :
             status[q] \in Status => /\ buffer'[q] = buffer[q]
                                     /\ ask'[q] = ask[q]
                                     /\ q \notin Holding => ~(status'[q] \in Occupying)
<1>1. ASSUME BookingInv, [BookingNext]_bookingVars
      PROVE  Kept
  <2> USE <1>1 DEF BookingInv, BookingTypeOK, Bookkeeping
  <2>0. \A q \in Requests : status[q] \in Status => status[q] # "none" /\ pc[q] = "answered"
    BY DEF Status
  <2>1. ASSUME NEW q \in Requests, Arrive(q)
        PROVE  Kept
    BY <2>0, <2>1 DEF Arrive, Replay, Begin, RefuseEarly, calendarOnly, Holding
  <2>2. ASSUME NEW q \in Requests, InsertReservation(q)
        PROVE  Kept
    BY <2>0, <2>2 DEF InsertReservation, Holding
  <2>3. ASSUME NEW p \in Requests, NEW to \in Status, ChangeStatus(p, to)
        PROVE  Kept
    <3>1. to \in Occupying => status[p] \in Occupying
      BY <2>3, NoWayBack DEF ChangeStatus, Table
    <3>2. QED
      BY <2>3, <3>1 DEF ChangeStatus, Holding
  <2>4. ASSUME NEW p \in Requests, CancelReservation(p)
        PROVE  Kept
    BY <2>4 DEF CancelReservation, Holding, Occupying
  <2>5. CASE UNCHANGED <<status, buffer, ask>>
    BY <2>5 DEF Holding
  <2>6. QED
    BY <2>1, <2>2, <2>3, <2>4, <2>5
    DEF BookingNext, Serve, LockResource, RefuseUnbookable, SnapshotActive, PassChecks,
        FailChecks, InsertFails, Rollback, Meanwhile, UpdatePolicy, UpdateResource,
        ChangeVisibility, Tick, calendarOnly, bookingVars
<1>2. BookingInv /\ [BookingNext]_bookingVars => [Kept]_bookingVars
  BY <1>1
<1>3. QED
  BY <1>2, BookingInvariant, PTL DEF BookingSpec, NeverBlocksAgain

\* While a request is inside its transaction its resource stays bookable: the
\* owner's UPDATE waits for the row lock.
BookableWhileLocked ==
    \A q \in Requests :
        pc[q] \in {"locked", "counting", "checked"} => resource[ask[q].resource].bookable

LEMMA StepBookable ==
    ASSUME BookingInv, BookableWhileLocked, [BookingNext]_bookingVars
    PROVE  BookableWhileLocked'
<1> USE NobodyAssumption, AsksAssumption
    DEF BookingInv, BookingTypeOK, Bookkeeping, BookableWhileLocked
<1>1. ASSUME NEW q \in Requests, Arrive(q)
      PROVE  BookableWhileLocked'
  BY <1>1 DEF Arrive, Replay, Begin, RefuseEarly, settingsVars
<1>2. ASSUME NEW q \in Requests, Serve(q)
      PROVE  BookableWhileLocked'
  BY <1>2 DEF Serve, LockResource, RefuseUnbookable, SnapshotActive, PassChecks, FailChecks,
     InsertReservation, InsertFails, Rollback, settingsVars
<1>3. ASSUME NEW r \in Resources, NEW new \in ResourceSettings, UpdateResource(r, new)
      PROVE  BookableWhileLocked'
  <2>1. \A q \in Requests : pc[q] \in {"locked", "counting", "checked"} => ask[q].resource # r
    BY <1>3 DEF UpdateResource, LockDiscipline
  <2>2. QED
    BY <1>3, <2>1 DEF UpdateResource
<1>4. CASE UNCHANGED <<resource, pc, ask>>
  BY <1>4
<1>5. ASSUME Meanwhile
      PROVE  BookableWhileLocked'
  <2>1. CASE \E p \in Requests, to \in Status : ChangeStatus(p, to) \/ CancelReservation(p)
    BY <1>4, <2>1 DEF ChangeStatus, CancelReservation, settingsVars
  <2>2. CASE \E new \in Policies : UpdatePolicy(new)
    BY <1>4, <2>2 DEF UpdatePolicy
  <2>3. CASE \E v \in Visibilities : ChangeVisibility(v)
    BY <1>4, <2>3 DEF ChangeVisibility
  <2>4. CASE Tick
    BY <1>4, <2>4 DEF Tick
  <2>5. Status # {}
    BY DEF Status
  <2>6. QED
    BY <1>3, <1>5, <2>1, <2>2, <2>3, <2>4, <2>5 DEF Meanwhile
<1>6. CASE UNCHANGED bookingVars
  BY <1>4, <1>6 DEF bookingVars
<1>7. QED
  BY <1>1, <1>2, <1>5, <1>6 DEF BookingNext

\* A reservation is only ever committed for a resource that is bookable at that
\* moment, however the owner's changes interleave with the request.
THEOREM OnlyBookableInserted == BookingSpec => InsertOnlyBookable
<1> DEFINE Inserted == \A q \in Requests : status[q] = "none" /\ status'[q] # "none"
                          => resource[ask[q].resource].bookable
<1>1. BookingInit => BookableWhileLocked
  BY DEF BookingInit, BookableWhileLocked
<1>2. BookingInv /\ BookableWhileLocked /\ [BookingNext]_bookingVars => BookableWhileLocked'
  BY StepBookable
<1>3. ASSUME BookingInv, BookableWhileLocked, [BookingNext]_bookingVars
      PROVE  Inserted
  <2> USE <1>3 DEF BookingInv, BookingTypeOK
  <2>1. ASSUME NEW q \in Requests, InsertReservation(q)
        PROVE  Inserted
    BY <2>1 DEF InsertReservation, BookableWhileLocked
  <2>2. ASSUME NEW p \in Requests,
               (\E to \in Status : ChangeStatus(p, to)) \/ CancelReservation(p)
        PROVE  Inserted
    BY <2>2 DEF ChangeStatus, CancelReservation, Table
  <2>3. CASE UNCHANGED status
    BY <2>3
  <2>4. QED
    BY <2>1, <2>2, <2>3
    DEF BookingNext, Arrive, Replay, Begin, RefuseEarly, Serve, LockResource, RefuseUnbookable,
        SnapshotActive, PassChecks, FailChecks, InsertFails, Rollback, Meanwhile, UpdatePolicy,
        UpdateResource, ChangeVisibility, Tick, calendarOnly, bookingVars
<1>4. BookingInv /\ BookableWhileLocked /\ [BookingNext]_bookingVars => [Inserted]_bookingVars
  BY <1>3
<1>5. QED
  BY <1>1, <1>2, <1>4, BookingInvariant, PTL DEF BookingSpec, InsertOnlyBookable

----------------------------------------------------------------------------
(* Booking implements the calendar *)

\* Nothing the calendar shows has changed.
LEMMA SameCalendar ==
    ASSUME \A q \in Requests : /\ q \in Holding' <=> q \in Holding
                               /\ q \in Table' <=> q \in Table
                               /\ q \in Holding => ask'[q] = ask[q] /\ buffer'[q] = buffer[q]
    PROVE  heldNow' = heldNow /\ goneNow' = goneNow
<1>1. Holding' = Holding /\ Table' = Table
  BY DEF Holding, Table
<1>2. \A q \in Holding : RangeOf(q)' = RangeOf(q)
  BY DEF RangeOf, Holding
<1>3. ASSUME NEW r \in Resources
      PROVE  {<<q, RangeOf(q)'>> : q \in {h \in Holding' : ask'[h].resource = r}}
               = {<<q, RangeOf(q)>> : q \in {h \in Holding : ask[h].resource = r}}
  BY <1>1, <1>2 DEF Holding
<1>4. QED
  BY <1>1, <1>3 DEF heldNow, goneNow

\* An insert enters the range of the request into the calendar.
LEMMA InsertTakes ==
    ASSUME BookingInv, NEW q \in Requests, InsertReservation(q)
    PROVE  \E r \in Resources, range \in CalendarRanges : Promised!Take(r, q, range)
<1> USE DEF BookingInv
<1>1. /\ ask' = ask /\ pc[q] = "checked"
      /\ status'[q] \in Occupying
      /\ buffer'[q] = terms[q].buffer
      /\ \A p \in Requests : p # q => status'[p] = status[p] /\ buffer'[p] = buffer[p]
  BY DEF InsertReservation, BookingTypeOK, Occupying
<1> DEFINE r == ask[q].resource
           range == OccupancyRange(ask[q].start, ask[q].end, terms[q].buffer)
<1>2. ask[q] \in Asks /\ r \in Resources /\ range \in CalendarRanges
  BY <1>1, AsksAssumption DEF Bookkeeping, CalendarRanges
<1>3. /\ q \notin Table /\ q \notin Holding
      /\ Holding' = Holding \cup {q}
      /\ Table' = Table \cup {q}
  BY <1>1 DEF Table, Holding, Occupying, Bookkeeping
<1>4. /\ \A p \in Holding : RangeOf(p)' = RangeOf(p)
      /\ RangeOf(q)' = range
  BY <1>1, <1>3 DEF RangeOf, Holding
<1>5. q \notin goneNow /\ goneNow' = goneNow
  BY <1>3 DEF goneNow
<1>6. ASSUME NEW s \in Resources
      PROVE  q \notin {h[1] : h \in heldNow[s]}
  BY <1>3 DEF heldNow
<1>7. ASSUME NEW other \in heldNow[r]
      PROVE  ~RangesIntersect(other[2], range)
  <2>1. PICK p \in Holding : ask[p].resource = r /\ other = <<p, RangeOf(p)>>
    BY <1>2 DEF heldNow
  <2>2. QED
    BY <1>1, <2>1 DEF CheckedIsClear, ExclusionViolated
<1>8. heldNow' = [heldNow EXCEPT ![r] = @ \cup {<<q, range>>}]
  <2>1. ASSUME NEW s \in Resources
        PROVE  {<<p, RangeOf(p)'>> : p \in {h \in Holding' : ask'[h].resource = s}}
                 = IF s = r
                   THEN {<<p, RangeOf(p)>> : p \in {h \in Holding : ask[h].resource = s}}
                          \cup {<<q, range>>}
                   ELSE {<<p, RangeOf(p)>> : p \in {h \in Holding : ask[h].resource = s}}
    BY <1>1, <1>3, <1>4
  <2>2. QED
    BY <1>2, <2>1 DEF heldNow
<1>9. Promised!Take(r, q, range)
  BY <1>5, <1>6, <1>7, <1>8 DEF Promised!Take, Promised!HoldersOf, Promised!RangesIntersect,
     RangesIntersect
<1>10. QED
  BY <1>2, <1>9

\* A status write is invisible to the calendar or gives one range up.
LEMMA StatusWriteGivesUp ==
    ASSUME BookingInv, NEW p \in Requests,
           (\E to \in Status : ChangeStatus(p, to)) \/ CancelReservation(p)
    PROVE  \/ heldNow' = heldNow /\ goneNow' = goneNow
           \/ \E r \in Resources : Promised!GiveUp(r, p)
<1> USE DEF BookingInv
<1>1. /\ buffer' = buffer /\ ask' = ask /\ p \in Table
      /\ \A q \in Requests : q # p => status'[q] = status[q]
      /\ status'[p] \in Status
  BY DEF ChangeStatus, CancelReservation, BookingTypeOK, Status
<1>2. Table' = Table
  BY <1>1 DEF Table, Status
<1>3. p \in Holding' => p \in Holding
  <2>1. ASSUME NEW to \in Status, ChangeStatus(p, to)
        PROVE  p \in Holding' => p \in Holding
    <3>1. status'[p] = to /\ status[p] \in Status /\ CanTransition(status[p], to)
      BY <2>1 DEF ChangeStatus, BookingTypeOK, Table
    <3>2. QED
      BY <3>1, NoWayBack DEF Holding
  <2>2. CASE CancelReservation(p)
    BY <2>2 DEF CancelReservation, BookingTypeOK, Holding, Occupying
  <2>3. QED
    BY <2>1, <2>2
<1>4. CASE p \in Holding' \/ p \notin Holding
  <2>1. \A q \in Requests : q \in Holding' <=> q \in Holding
    BY <1>1, <1>3, <1>4 DEF Holding
  <2>2. QED
    BY <1>1, <1>2, <2>1, SameCalendar
<1>5. CASE p \in Holding /\ p \notin Holding'
  <2> DEFINE r == ask[p].resource
  <2>1. r \in Resources
    BY <1>5, AsksAssumption DEF Holding, Occupying, Bookkeeping
  <2>2. Holding' = Holding \ {p}
    BY <1>1, <1>5 DEF Holding
  <2>3. goneNow' = goneNow \cup {p}
    BY <1>1, <1>2, <1>5, <2>2 DEF goneNow
  <2>4. \A q \in Holding : RangeOf(q)' = RangeOf(q)
    BY <1>1 DEF RangeOf
  <2>5. <<p, RangeOf(p)>> \in heldNow[r]
    BY <1>5, <2>1 DEF heldNow
  <2>6. heldNow' = [heldNow EXCEPT ![r] = {x \in @ : x[1] # p}]
    <3>1. ASSUME NEW s \in Resources
          PROVE  {<<q, RangeOf(q)'>> : q \in {h \in Holding' : ask'[h].resource = s}}
                   = IF s = r
                     THEN {x \in {<<q, RangeOf(q)>> : q \in {h \in Holding : ask[h].resource = s}} :
                             x[1] # p}
                     ELSE {<<q, RangeOf(q)>> : q \in {h \in Holding : ask[h].resource = s}}
      BY <1>1, <2>2, <2>4
    <3>2. QED
      BY <2>1, <3>1 DEF heldNow
  <2>7. Promised!GiveUp(r, p)
    BY <2>3, <2>5, <2>6 DEF Promised!GiveUp, Promised!HoldersOf
  <2>8. QED
    BY <2>1, <2>7
<1>6. QED
  BY <1>4, <1>5

\* Every other step leaves the calendar alone.
LEMMA OtherStepsInvisible ==
    ASSUME BookingInv, [BookingNext]_bookingVars,
           \A q \in Requests : ~InsertReservation(q),
           \A p \in Requests : ~CancelReservation(p) /\ \A to \in Status : ~ChangeStatus(p, to)
    PROVE  heldNow' = heldNow /\ goneNow' = goneNow
<1> USE DEF BookingInv
<1>1. status' = status /\ buffer' = buffer
  BY DEF BookingNext, Arrive, Replay, Begin, RefuseEarly, Serve, LockResource, RefuseUnbookable,
     SnapshotActive, PassChecks, FailChecks, InsertFails, Rollback, Meanwhile, UpdatePolicy,
     UpdateResource, ChangeVisibility, Tick, calendarOnly, bookingVars
<1>2. \A q \in Requests : ask'[q] = ask[q] \/ pc[q] = "idle"
  BY DEF BookingNext, Arrive, Replay, Begin, RefuseEarly, Serve, LockResource, RefuseUnbookable,
     SnapshotActive, PassChecks, FailChecks, InsertFails, Rollback, Meanwhile, UpdatePolicy,
     UpdateResource, ChangeVisibility, Tick, bookingVars, BookingTypeOK
<1>3. \A q \in Holding : ask'[q] = ask[q]
  BY <1>2 DEF Holding, Occupying, Bookkeeping
<1>4. QED
  BY <1>1, <1>3, SameCalendar DEF Holding, Table

\* Every behaviour of Booking is a behaviour of the calendar: a range enters
\* where it meets no other, and what was given up stays given up.
THEOREM BookingImplementsCalendar == BookingSpec => ImplementsCalendar
<1>1. BookingInit => Promised!CalendarInit
  BY DEF BookingInit, Promised!CalendarInit, heldNow, goneNow, Holding, Table, Occupying
<1>2. BookingInv /\ [BookingNext]_bookingVars
        => [Promised!CalendarNext]_<<heldNow, goneNow>>
  <2>1. SUFFICES ASSUME BookingInv, [BookingNext]_bookingVars
                 PROVE  Promised!CalendarNext \/ (heldNow' = heldNow /\ goneNow' = goneNow)
    OBVIOUS
  <2>2. ASSUME NEW q \in Requests, InsertReservation(q)
        PROVE  Promised!CalendarNext
    BY <2>1, <2>2, InsertTakes DEF Promised!CalendarNext
  <2>3. ASSUME NEW p \in Requests,
               (\E to \in Status : ChangeStatus(p, to)) \/ CancelReservation(p)
        PROVE  Promised!CalendarNext \/ (heldNow' = heldNow /\ goneNow' = goneNow)
    BY <2>1, <2>3, StatusWriteGivesUp DEF Promised!CalendarNext
  <2>4. QED
    BY <2>1, <2>2, <2>3, OtherStepsInvisible
<1>3. QED
  BY <1>1, <1>2, BookingInvariant, PTL
  DEF BookingSpec, ImplementsCalendar, Promised!CalendarSpec, Promised!calendarVars

----------------------------------------------------------------------------
(* Idempotency *)

\* The unique index: two reservations never have one key.
KeysUnique ==
    \A p, q \in Table : ask[p].key # NoKey /\ ask[p].key = ask[q].key => p = q

\* Only an answered request has a reply, a reservation of the table with the
\* key the request was sent with.
RepliesKnown ==
    \A q \in Requests : reply[q] # Nobody =>
        pc[q] = "answered" /\ reply[q] \in Table /\ ask[reply[q]].key = ask[q].key

\* The payload of a request changes only when it arrives, and a reservation
\* never leaves the table.
LEMMA PayloadsStay ==
    ASSUME BookingInv, [BookingNext]_bookingVars
    PROVE  /\ \A q \in Requests : pc[q] # "idle" => ask'[q] = ask[q]
           /\ Table \subseteq Table'
<1> USE DEF BookingInv, BookingTypeOK
<1>1. \A q \in Requests : pc[q] # "idle" => ask'[q] = ask[q]
  BY DEF BookingNext, Arrive, Replay, Begin, RefuseEarly, Serve, LockResource, RefuseUnbookable,
     SnapshotActive, PassChecks, FailChecks, InsertReservation, InsertFails, Rollback, Meanwhile,
     ChangeStatus, CancelReservation, UpdatePolicy, UpdateResource, ChangeVisibility, Tick,
     bookingVars
<1>2. \A q \in Requests : status[q] # "none" => status'[q] # "none"
  <2>1. ASSUME NEW p \in Requests, InsertReservation(p)
        PROVE  \A q \in Requests : status[q] # "none" => status'[q] # "none"
    BY <2>1 DEF InsertReservation
  <2>2. ASSUME NEW p \in Requests, NEW to \in Status, ChangeStatus(p, to)
        PROVE  \A q \in Requests : status[q] # "none" => status'[q] # "none"
    BY <2>2 DEF ChangeStatus, Status
  <2>3. ASSUME NEW p \in Requests, CancelReservation(p)
        PROVE  \A q \in Requests : status[q] # "none" => status'[q] # "none"
    BY <2>3 DEF CancelReservation
  <2>4. CASE UNCHANGED status
    BY <2>4
  <2>5. QED
    BY <2>1, <2>2, <2>3, <2>4
    DEF BookingNext, Arrive, Replay, Begin, RefuseEarly, Serve, LockResource, RefuseUnbookable,
        SnapshotActive, PassChecks, FailChecks, InsertFails, Rollback, Meanwhile, UpdatePolicy,
        UpdateResource, ChangeVisibility, Tick, calendarOnly, bookingVars
<1>3. QED
  BY <1>1, <1>2 DEF Table

\* Only an insert adds to the table, and it found its key free.
LEMMA KeysStayUnique ==
    ASSUME BookingInv, KeysUnique, [BookingNext]_bookingVars
    PROVE  KeysUnique'
<1> USE DEF BookingInv, BookingTypeOK
<1>1. \A q \in Table : ask'[q] = ask[q]
  BY PayloadsStay DEF Table, Bookkeeping
<1>2. ASSUME NEW q \in Requests, InsertReservation(q)
      PROVE  KeysUnique'
  <2>1. Table' = Table \cup {q} /\ ask' = ask /\ ~KeyTaken(q)
    BY <1>2 DEF InsertReservation, Table
  <2>2. QED
    BY <2>1 DEF KeysUnique, KeyTaken
<1>3. CASE Table' = Table
  BY <1>1, <1>3 DEF KeysUnique
<1>4. CASE \A q \in Requests : ~InsertReservation(q)
  <2>1. Table' = Table
    <3>1. ASSUME NEW p \in Requests, NEW to \in Status, ChangeStatus(p, to)
          PROVE  Table' = Table
      BY <3>1 DEF ChangeStatus, Status, Table
    <3>2. ASSUME NEW p \in Requests, CancelReservation(p)
          PROVE  Table' = Table
      BY <3>2 DEF CancelReservation, Table
    <3>3. CASE UNCHANGED status
      BY <3>3 DEF Table
    <3>4. QED
      BY <1>4, <3>1, <3>2, <3>3
      DEF BookingNext, Arrive, Replay, Begin, RefuseEarly, Serve, LockResource,
          RefuseUnbookable, SnapshotActive, PassChecks, FailChecks, InsertFails, Rollback,
          Meanwhile, UpdatePolicy, UpdateResource, ChangeVisibility, Tick, calendarOnly,
          bookingVars
  <2>2. QED
    BY <1>3, <2>1
<1>5. QED
  BY <1>2, <1>4

\* A request is answered once: with what it found, with what it inserted, or
\* with an error.
LEMMA RepliesStayKnown ==
    ASSUME BookingInv, RepliesKnown, [BookingNext]_bookingVars
    PROVE  RepliesKnown'
<1> USE DEF BookingInv, BookingTypeOK
<1>1. ASSUME NEW p \in Requests, reply'[p] = reply[p], reply[p] # Nobody, pc'[p] = "answered"
      PROVE  reply'[p] \in Table' /\ ask'[reply'[p]].key = ask'[p].key
  <2>1. pc[p] # "idle" /\ reply[p] \in Table /\ ask[reply[p]].key = ask[p].key
    BY <1>1 DEF RepliesKnown
  <2>2. reply[p] \in Requests /\ pc[reply[p]] # "idle"
    BY <2>1 DEF Table, Bookkeeping
  <2>3. QED
    BY <1>1, <2>1, <2>2, PayloadsStay
<1>2. ASSUME NEW p \in Requests, pc[p] = "answered"
      PROVE  pc'[p] = "answered" /\ reply'[p] = reply[p]
  BY <1>2
  DEF BookingNext, Arrive, Replay, Begin, RefuseEarly, Serve, LockResource, RefuseUnbookable,
      SnapshotActive, PassChecks, FailChecks, InsertReservation, InsertFails, Rollback, Meanwhile,
      ChangeStatus, CancelReservation, UpdatePolicy, UpdateResource, ChangeVisibility, Tick,
      calendarOnly, bookingVars
<1>3. ASSUME NEW p \in Requests, pc[p] # "answered", reply'[p] # Nobody
      PROVE  \/ \E a \in Asks : Replay(p, a)
             \/ InsertReservation(p)
  <2>1. reply[p] = Nobody
    BY <1>3 DEF RepliesKnown
  <2>2. QED
    BY <1>3, <2>1
    DEF BookingNext, Arrive, Replay, Begin, RefuseEarly, Serve, LockResource, RefuseUnbookable,
        SnapshotActive, PassChecks, FailChecks, InsertReservation, InsertFails, Rollback,
        Meanwhile, ChangeStatus, CancelReservation, UpdatePolicy, UpdateResource,
        ChangeVisibility, Tick, calendarOnly, bookingVars
<1>4. ASSUME NEW p \in Requests, NEW a \in Asks, Replay(p, a)
      PROVE  /\ pc'[p] = "answered" /\ reply'[p] \in Table'
             /\ ask'[reply'[p]].key = ask'[p].key
  <2>1. PICK e \in Earlier(a) : reply' = [reply EXCEPT ![p] = e]
    BY <1>4 DEF Replay
  <2>2. e \in Table /\ e \in Requests /\ ask[e].key = a.key
    BY DEF Earlier, Table
  <2>3. e # p /\ pc[e] # "idle"
    BY <1>4, <2>2 DEF Replay, Table, Bookkeeping
  <2>4. QED
    BY <1>4, <2>1, <2>2, <2>3, PayloadsStay DEF Replay
<1>5. ASSUME NEW p \in Requests, InsertReservation(p)
      PROVE  /\ pc'[p] = "answered" /\ reply'[p] \in Table'
             /\ ask'[reply'[p]].key = ask'[p].key
  BY <1>5 DEF InsertReservation, Table
<1>6. QED
  BY <1>1, <1>2, <1>3, <1>4, <1>5 DEF RepliesKnown

\* Idempotency: requests of one customer with one key that are answered with a
\* reservation are answered with the same one, whether it was found by the
\* lookup or inserted under the unique index.
THEOREM OneReservationPerKey == BookingSpec => []SameKeySameReservation
<1>1. BookingInit => KeysUnique /\ RepliesKnown
  BY DEF BookingInit, KeysUnique, RepliesKnown, Table
<1>2. BookingInv /\ KeysUnique /\ RepliesKnown /\ [BookingNext]_bookingVars
        => KeysUnique' /\ RepliesKnown'
  BY KeysStayUnique, RepliesStayKnown
<1>3. KeysUnique /\ RepliesKnown => SameKeySameReservation
  BY DEF KeysUnique, RepliesKnown, SameKeySameReservation
<1>4. QED
  BY <1>1, <1>2, <1>3, BookingInvariant, PTL DEF BookingSpec

----------------------------------------------------------------------------
(* The limits of a customer *)

\* The reservations of a customer on a resource that count against a limit, the
\* ones still ahead, and the ones of a day.
CountedOn(r, c) ==
    {p \in Table : /\ ask[p].resource = r
                   /\ ask[p].customer = c
                   /\ status[p] \in Active}
AheadOn(r, c) == {p \in CountedOn(r, c) : ask[p].start > now}
OnDay(r, c, d) == {p \in CountedOn(r, c) : Day(ask[p].start) = d}

Customers == {a.customer : a \in Asks}
Days == {Day(a.start) : a \in Asks}

\* A request works with the limits of a policy the owner once set.
KnownTerms ==
    \A q \in Requests : pc[q] \in {"locked", "counting", "checked"} =>
        \E pol \in Policies : /\ terms[q].maxActive = pol.maxActive
                              /\ terms[q].maxDaily = pol.maxDaily

\* The snapshot of a request that counts has every reservation that counts on
\* the resource it holds: nothing is committed there while it waits for rows.
SnapshotComplete ==
    \A q \in Requests : pc[q] = "counting" /\ terms[q].maxActive # NoLimit =>
        AheadOn(ask[q].resource, ask[q].customer) \subseteq rows[q]

\* A request that passed its checks may insert without breaking a limit.
RoomLeft ==
    \A q \in Requests : pc[q] = "checked" =>
        LET r == ask[q].resource
            c == ask[q].customer
        IN /\ Below(Cardinality(AheadOn(r, c)), terms[q].maxActive)
           /\ Below(Cardinality(OnDay(r, c, Day(ask[q].start))), terms[q].maxDaily)

WithinActive(r, c) ==
    \E pol \in Policies : \/ pol.maxActive = NoLimit
                          \/ Cardinality(AheadOn(r, c)) <= pol.maxActive
WithinDaily(r, c, d) ==
    \E pol \in Policies : \/ pol.maxDaily = NoLimit
                          \/ Cardinality(OnDay(r, c, d)) <= pol.maxDaily

\* The inductive invariant behind the limits.  The table is finite because it
\* grows by one reservation at a time, however many requests there may be.
LimitsInv ==
    /\ IsFiniteSet(Table)
    /\ KnownTerms
    /\ SnapshotComplete
    /\ RoomLeft
    /\ \A r \in Resources, c \in Customers :
          /\ WithinActive(r, c)
          /\ \A d \in Days : WithinDaily(r, c, d)

\* No transition leads back into the statuses the limits count.
LEMMA NoWayBackToActive ==
    ASSUME NEW from \in Status, NEW to \in Status,
           CanTransition(from, to), to \in Active
    PROVE  from \in Active
BY DEF CanTransition, Transitions, Status, Active

\* Every step but an insert leaves the table as it is and counts no reservation
\* that was not counted before.
LEMMA CountsShrink ==
    ASSUME BookingInv, [BookingNext]_bookingVars, NEW q \in Requests,
           status'[q] \in Active, ~InsertReservation(q)
    PROVE  status[q] \in Active
<1> USE DEF BookingInv, BookingTypeOK
<1>1. ASSUME NEW p \in Requests, InsertReservation(p)
      PROVE  status[q] \in Active
  BY <1>1 DEF InsertReservation
<1>2. ASSUME NEW p \in Requests, NEW to \in Status, ChangeStatus(p, to)
      PROVE  status[q] \in Active
  <2>1. status[p] \in Status /\ CanTransition(status[p], to)
    BY <1>2 DEF ChangeStatus, Table
  <2>2. to \in Active => status[p] \in Active
    BY <2>1, NoWayBackToActive
  <2>3. QED
    BY <1>2, <2>2 DEF ChangeStatus
<1>3. ASSUME NEW p \in Requests, CancelReservation(p)
      PROVE  status[q] \in Active
  BY <1>3 DEF CancelReservation, Active
<1>4. CASE UNCHANGED status
  BY <1>4
<1>5. QED
  BY <1>1, <1>2, <1>3, <1>4
  DEF BookingNext, Arrive, Replay, Begin, RefuseEarly, Serve, LockResource,
      RefuseUnbookable, SnapshotActive, PassChecks, FailChecks, InsertFails, Rollback,
      Meanwhile, UpdatePolicy, UpdateResource, ChangeVisibility, Tick, calendarOnly,
      bookingVars

\* The clock never goes back.
LEMMA TimePasses ==
    ASSUME BookingInv, [BookingNext]_bookingVars
    PROVE  now' >= now
<1> USE DEF BookingInv, BookingTypeOK
<1>1. now' = now \/ now' = now + 1
  BY DEF BookingNext, Arrive, Replay, Begin, RefuseEarly, Serve, LockResource, RefuseUnbookable,
     SnapshotActive, PassChecks, FailChecks, InsertReservation, InsertFails, Rollback, Meanwhile,
     ChangeStatus, CancelReservation, UpdatePolicy, UpdateResource, ChangeVisibility, Tick,
     settingsVars, bookingVars
<1>2. QED
  BY <1>1

\* What a step counts was counted before, but for a reservation it inserts.
LEMMA CountedBefore ==
    ASSUME BookingInv, [BookingNext]_bookingVars, NEW r, NEW c, NEW d
    PROVE  \A p \in Requests : ~InsertReservation(p) =>
             /\ p \in AheadOn(r, c)' => p \in AheadOn(r, c)
             /\ p \in OnDay(r, c, d)' => p \in OnDay(r, c, d)
<1>1. SUFFICES ASSUME NEW p \in Requests, ~InsertReservation(p), p \in CountedOn(r, c)'
               PROVE  /\ p \in CountedOn(r, c) /\ ask'[p] = ask[p] /\ ask[p].start \in Nat
  <2>1. now \in Nat /\ now' \in Nat /\ now' >= now
    BY StepTyped, TimePasses DEF BookingInv, BookingTypeOK
  <2>2. QED
    BY <1>1, <2>1 DEF AheadOn, OnDay, CountedOn, Table
<1>2. status[p] \in Active
  BY <1>1, CountsShrink DEF CountedOn
<1>3. p \in Table /\ pc[p] # "idle" /\ ask[p] \in Asks
  BY <1>2 DEF Active, Table, BookingInv, Bookkeeping
<1>4. ask'[p] = ask[p]
  BY <1>3, PayloadsStay
<1>5. QED
  BY <1>1, <1>2, <1>3, <1>4, AsksAssumption DEF CountedOn

\* The table is finite, and its parts are no larger than the part that contains
\* them.
LEMMA PartsCounted ==
    ASSUME IsFiniteSet(Table), NEW S, S \subseteq Table, NEW T, T \subseteq S
    PROVE  /\ IsFiniteSet(S)
           /\ Cardinality(S) \in Nat /\ Cardinality(T) \in Nat
           /\ Cardinality(T) <= Cardinality(S)
<1>1. IsFiniteSet(S)
  BY FS_Subset
<1>2. IsFiniteSet(T) /\ Cardinality(T) <= Cardinality(S)
  BY <1>1, FS_Subset
<1>3. QED
  BY <1>1, <1>2, FS_CardinalityType

LEMMA FewerStillWithin ==
    ASSUME NEW n \in Nat, NEW m \in Nat, m <= n, NEW limit \in Limits, Below(n, limit)
    PROVE  Below(m, limit)
BY DEF Below, Limits

\* An insert adds its own reservation to the table, no other step adds any.
LEMMA TableStaysFinite ==
    ASSUME BookingInv, LimitsInv, [BookingNext]_bookingVars
    PROVE  IsFiniteSet(Table')
<1> USE DEF BookingInv, BookingTypeOK
<1>1. ASSUME NEW q \in Requests, InsertReservation(q)
      PROVE  IsFiniteSet(Table')
  <2>1. Table' = Table \cup {q}
    BY <1>1 DEF InsertReservation, Table
  <2>2. QED
    BY <2>1, FS_AddElement DEF LimitsInv
<1>2. ASSUME NEW p \in Requests,
             (\E to \in Status : ChangeStatus(p, to)) \/ CancelReservation(p)
      PROVE  IsFiniteSet(Table')
  <2>1. Table' = Table
    BY <1>2 DEF ChangeStatus, CancelReservation, Table, Status
  <2>2. QED
    BY <2>1 DEF LimitsInv
<1>3. CASE UNCHANGED status
  BY <1>3 DEF Table, LimitsInv
<1>4. QED
  BY <1>1, <1>2, <1>3
  DEF BookingNext, Arrive, Replay, Begin, RefuseEarly, Serve, LockResource,
      RefuseUnbookable, SnapshotActive, PassChecks, FailChecks, InsertFails, Rollback,
      Meanwhile, UpdatePolicy, UpdateResource, ChangeVisibility, Tick, calendarOnly,
      bookingVars

\* How a request may have got where it is: its limits are read with the lock and
\* stay, a snapshot stays until the checks, and the checks are passed at once.
LEMMA HowARequestGotThere ==
    ASSUME BookingInv, [BookingNext]_bookingVars, NEW q \in Requests
    PROVE  /\ pc'[q] = "locked" => LockResource(q) \/ (pc[q] = "locked" /\ terms'[q] = terms[q])
           /\ pc'[q] = "counting" => \/ SnapshotActive(q)
                                     \/ /\ pc[q] = "counting" /\ terms'[q] = terms[q]
                                        /\ rows'[q] = rows[q]
           /\ pc'[q] = "checked" => \/ PassChecks(q)
                                    \/ pc[q] = "checked" /\ terms'[q] = terms[q]
<1> USE DEF BookingInv, BookingTypeOK
<1>1. ASSUME NEW p \in Requests, Arrive(p)
      PROVE  pc'[q] # pc[q] => pc'[q] \in {"begun", "answered"}
  BY <1>1 DEF Arrive, Replay, Begin, RefuseEarly
<1>2. ASSUME NEW p \in Requests, Serve(p), p # q
      PROVE  pc'[q] = pc[q] /\ terms'[q] = terms[q] /\ rows'[q] = rows[q]
  BY <1>2 DEF Serve, LockResource, RefuseUnbookable, SnapshotActive, PassChecks, FailChecks,
     InsertReservation, InsertFails, Rollback
<1>3. ASSUME Serve(q)
      PROVE  LockResource(q) \/ SnapshotActive(q) \/ PassChecks(q) \/ pc'[q] = "answered"
  BY <1>3 DEF Serve, RefuseUnbookable, FailChecks, InsertReservation, InsertFails, Rollback
<1>4. LockResource(q) => pc'[q] = "locked"
  BY DEF LockResource
<1>5. SnapshotActive(q) => pc'[q] = "counting"
  BY DEF SnapshotActive
<1>6. PassChecks(q) => pc'[q] = "checked"
  BY DEF PassChecks
<1>7. ASSUME NEW p \in Requests, Arrive(p)
      PROVE  terms'[q] = terms[q] /\ rows'[q] = rows[q]
  BY <1>7 DEF Arrive, Replay, Begin, RefuseEarly
<1>8. ASSUME Meanwhile
      PROVE  pc'[q] = pc[q] /\ terms'[q] = terms[q] /\ rows'[q] = rows[q]
  BY <1>8 DEF Meanwhile, ChangeStatus, CancelReservation, UpdatePolicy, UpdateResource,
     ChangeVisibility, Tick
<1>9. QED
  BY <1>1, <1>2, <1>3, <1>4, <1>5, <1>6, <1>7, <1>8 DEF BookingNext, bookingVars

LEMMA TermsStayKnown ==
    ASSUME BookingInv, KnownTerms, [BookingNext]_bookingVars
    PROVE  KnownTerms'
<1>1. SUFFICES ASSUME NEW q \in Requests, pc'[q] \in {"locked", "counting", "checked"}
               PROVE  \E pol \in Policies : /\ terms'[q].maxActive = pol.maxActive
                                            /\ terms'[q].maxDaily = pol.maxDaily
  BY DEF KnownTerms
<1>2. CASE LockResource(q)
  <2>1. policy \in Policies /\ policy \in PolicyType
    BY PolicyAssumption DEF BookingInv, BookingTypeOK
  <2>2. /\ terms'[q].maxActive = policy.maxActive
        /\ terms'[q].maxDaily = policy.maxDaily
    BY <1>2, <2>1 DEF LockResource, BookingInv, BookingTypeOK, PolicyType
  <2>3. QED
    BY <2>1, <2>2
<1>3. CASE pc[q] \in {"locked", "counting", "checked"} /\ terms'[q] = terms[q]
  BY <1>3 DEF KnownTerms
<1>4. SnapshotActive(q) \/ PassChecks(q)
         => pc[q] \in {"locked", "counting"} /\ terms'[q] = terms[q]
  BY DEF SnapshotActive, PassChecks
<1>5. QED
  BY <1>1, <1>2, <1>3, <1>4, HowARequestGotThere

\* While a request counts or is checked no other request inserts on its
\* resource: this is what the resource lock is for.
LEMMA NothingAddedMeanwhile ==
    ASSUME BookingInv, [BookingNext]_bookingVars, NEW q \in Requests,
           pc[q] \in {"counting", "checked"}, ~InsertReservation(q)
    PROVE  /\ ask'[q] = ask[q]
           /\ AheadOn(ask[q].resource, ask[q].customer)'
                \subseteq AheadOn(ask[q].resource, ask[q].customer)
           /\ OnDay(ask[q].resource, ask[q].customer, Day(ask[q].start))'
                \subseteq OnDay(ask[q].resource, ask[q].customer, Day(ask[q].start))
<1> DEFINE r == ask[q].resource
           c == ask[q].customer
           d == Day(ask[q].start)
<1>1. ask'[q] = ask[q] /\ r \in Resources
  BY PayloadsStay, AsksAssumption DEF BookingInv, Bookkeeping
<1>2. ASSUME NEW p \in Requests, InsertReservation(p)
      PROVE  ask'[p].resource # r
  <2>1. p # q /\ pc[p] = "checked" /\ ask' = ask
    BY <1>2 DEF InsertReservation
  <2>2. QED
    BY <1>1, <2>1 DEF BookingInv, LockDiscipline
<1>3. r' = r /\ c' = c /\ d' = d
  BY <1>1 DEF Day
<1>4. ASSUME NEW p \in CountedOn(r, c)'
      PROVE  p \in Requests /\ ~InsertReservation(p)
  BY <1>2, <1>3, <1>4 DEF CountedOn, Table
<1>5. ASSUME NEW p \in AheadOn(r, c)'
      PROVE  p \in AheadOn(r, c)
  <2>1. p \in CountedOn(r, c)'
    BY <1>5 DEF AheadOn
  <2>2. \A rr, cc : rr = r /\ cc = c => p \in AheadOn(rr, cc)'
    BY <1>3, <1>5
  <2>3. QED
    BY <1>4, <2>1, <2>2, CountedBefore
<1>6. ASSUME NEW p \in OnDay(r, c, d)'
      PROVE  p \in OnDay(r, c, d)
  <2>1. p \in CountedOn(r, c)'
    BY <1>6 DEF OnDay
  <2>2. \A rr, cc, dd : rr = r /\ cc = c /\ dd = d => p \in OnDay(rr, cc, dd)'
    BY <1>3, <1>6
  <2>3. QED
    BY <1>4, <2>1, <2>2, CountedBefore
<1>7. QED
  BY <1>1, <1>5, <1>6

\* What is counted is in the table, so it can be counted.
LEMMA CountedInTable ==
    ASSUME NEW r, NEW c, NEW d
    PROVE  AheadOn(r, c) \subseteq Table /\ OnDay(r, c, d) \subseteq Table
BY DEF AheadOn, OnDay, CountedOn

LEMMA SnapshotStaysComplete ==
    ASSUME BookingInv, SnapshotComplete, [BookingNext]_bookingVars
    PROVE  SnapshotComplete'
<1>1. SUFFICES ASSUME NEW q \in Requests, pc'[q] = "counting", terms'[q].maxActive # NoLimit
               PROVE  AheadOn(ask[q].resource, ask[q].customer)' \subseteq rows'[q]
  BY DEF SnapshotComplete
<1>2. CASE SnapshotActive(q)
  <2>1. /\ rows'[q] = ActiveRowsOf(ask[q].customer)
        /\ status' = status /\ ask' = ask /\ now' = now
    BY <1>1, <1>2 DEF SnapshotActive, calendarOnly, settingsVars, BookingInv, BookingTypeOK
  <2>2. AheadOn(ask[q].resource, ask[q].customer)' = AheadOn(ask[q].resource, ask[q].customer)
    BY <2>1 DEF AheadOn, CountedOn, Table
  <2>3. QED
    BY <2>1, <2>2 DEF AheadOn, CountedOn, ActiveRowsOf
<1>3. CASE pc[q] = "counting" /\ terms'[q] = terms[q] /\ rows'[q] = rows[q]
  <2>1. ~InsertReservation(q)
    BY <1>3 DEF InsertReservation
  <2>2. QED
    BY <1>1, <1>3, <2>1, NothingAddedMeanwhile DEF SnapshotComplete
<1>4. QED
  BY <1>1, <1>2, <1>3, HowARequestGotThere

\* Who passes the checks has counted everything the limits are about on its
\* resource.
LEMMA PassedHasRoom ==
    ASSUME BookingInv, LimitsInv, NEW q \in Requests, PassChecks(q)
    PROVE  /\ Below(Cardinality(AheadOn(ask[q].resource, ask[q].customer)), terms[q].maxActive)
           /\ Below(Cardinality(OnDay(ask[q].resource, ask[q].customer, Day(ask[q].start))),
                    terms[q].maxDaily)
<1> DEFINE ahead == AheadOn(ask[q].resource, ask[q].customer)
           today == OnDay(ask[q].resource, ask[q].customer, Day(ask[q].start))
           locked == {p \in rows[q] : status[p] \in Active}
           daily == DailyRowsOf(ask[q].customer, ask[q].start)
<1>1. IsFiniteSet(Table) /\ rows[q] \subseteq Requests
  BY DEF LimitsInv, BookingInv, BookingTypeOK
<1>2. /\ terms[q].maxActive \in Limits /\ terms[q].maxDaily \in Limits
      /\ Below(Cardinality(locked), terms[q].maxActive)
      /\ Below(Cardinality(daily), terms[q].maxDaily)
  BY DEF PassChecks, WithinLimits, BookingInv, BookingTypeOK, PolicyType
<1>3. Below(Cardinality(ahead), terms[q].maxActive)
  <2>1. CASE terms[q].maxActive = NoLimit
    BY <2>1 DEF Below
  <2>2. CASE terms[q].maxActive # NoLimit
    <3>1. ahead \subseteq locked
      BY <2>2 DEF LimitsInv, SnapshotComplete, PassChecks, AheadOn, CountedOn
    <3>2. locked \subseteq Table
      BY <1>1 DEF Table, Active
    <3>3. Cardinality(ahead) \in Nat /\ Cardinality(locked) \in Nat
          /\ Cardinality(ahead) <= Cardinality(locked)
      BY <1>1, <3>1, <3>2, PartsCounted
    <3>4. QED
      BY <1>2, <3>3, FewerStillWithin
  <2>3. QED
    BY <2>1, <2>2
<1>4. Below(Cardinality(today), terms[q].maxDaily)
  <2>1. today \subseteq daily /\ daily \subseteq Table
    BY DEF OnDay, CountedOn, DailyRowsOf
  <2>2. Cardinality(today) \in Nat /\ Cardinality(daily) \in Nat
        /\ Cardinality(today) <= Cardinality(daily)
    BY <1>1, <2>1, PartsCounted
  <2>3. QED
    BY <1>2, <2>2, FewerStillWithin
<1>5. QED
  BY <1>3, <1>4

LEMMA RoomStays ==
    ASSUME BookingInv, LimitsInv, [BookingNext]_bookingVars
    PROVE  RoomLeft'
<1>1. SUFFICES ASSUME NEW q \in Requests, pc'[q] = "checked"
               PROVE  /\ Below(Cardinality(AheadOn(ask[q].resource, ask[q].customer)'),
                               terms'[q].maxActive)
                      /\ Below(Cardinality(OnDay(ask[q].resource, ask[q].customer,
                                                 Day(ask[q].start))'), terms'[q].maxDaily)
  BY DEF RoomLeft
<1> DEFINE ahead == AheadOn(ask[q].resource, ask[q].customer)
           today == OnDay(ask[q].resource, ask[q].customer, Day(ask[q].start))
<1>2. ahead \subseteq Table /\ today \subseteq Table /\ IsFiniteSet(Table)
  BY DEF AheadOn, OnDay, CountedOn, LimitsInv
<1>3. terms[q].maxActive \in Limits /\ terms[q].maxDaily \in Limits
  BY DEF BookingInv, BookingTypeOK, PolicyType
<1>4. ASSUME ahead' \subseteq ahead, today' \subseteq today, terms'[q] = terms[q],
             Below(Cardinality(ahead), terms[q].maxActive),
             Below(Cardinality(today), terms[q].maxDaily)
      PROVE  /\ Below(Cardinality(ahead'), terms'[q].maxActive)
             /\ Below(Cardinality(today'), terms'[q].maxDaily)
  <2>1. /\ Cardinality(ahead) \in Nat /\ Cardinality(ahead') \in Nat
        /\ Cardinality(ahead') <= Cardinality(ahead)
    BY <1>2, <1>4, PartsCounted
  <2>2. /\ Cardinality(today) \in Nat /\ Cardinality(today') \in Nat
        /\ Cardinality(today') <= Cardinality(today)
    BY <1>2, <1>4, PartsCounted
  <2>3. QED
    BY <1>3, <1>4, <2>1, <2>2, FewerStillWithin
<1>5. CASE PassChecks(q)
  <2>1. pc[q] = "counting" /\ terms' = terms /\ ~InsertReservation(q)
    BY <1>5 DEF PassChecks, InsertReservation
  <2>2. ahead' \subseteq ahead /\ today' \subseteq today
    BY <2>1, NothingAddedMeanwhile
  <2>3. QED
    BY <1>4, <1>5, <2>1, <2>2, PassedHasRoom
<1>6. CASE pc[q] = "checked" /\ terms'[q] = terms[q]
  <2>1. ~InsertReservation(q)
    BY <1>1 DEF InsertReservation, BookingInv, BookingTypeOK
  <2>2. ahead' \subseteq ahead /\ today' \subseteq today
    BY <1>6, <2>1, NothingAddedMeanwhile
  <2>3. QED
    BY <1>4, <1>6, <2>2 DEF LimitsInv, RoomLeft
<1>7. QED
  BY <1>1, <1>5, <1>6, HowARequestGotThere

\* A part that is no larger stays within a limit, and one below it may take one
\* more.
LEMMA NoMoreStillWithin ==
    ASSUME NEW S, IsFiniteSet(S), NEW T, T \subseteq S,
           NEW limit \in Limits, limit = NoLimit \/ Cardinality(S) <= limit
    PROVE  limit = NoLimit \/ Cardinality(T) <= limit
<1>1. Cardinality(S) \in Nat /\ Cardinality(T) \in Nat /\ Cardinality(T) <= Cardinality(S)
  BY FS_Subset, FS_CardinalityType
<1>2. QED
  BY <1>1 DEF Limits

LEMMA OneMoreWithin ==
    ASSUME NEW S, IsFiniteSet(S), NEW x, NEW T, T \subseteq S \cup {x},
           NEW limit \in Limits, Below(Cardinality(S), limit)
    PROVE  limit = NoLimit \/ Cardinality(T) <= limit
<1>1. Cardinality(S) \in Nat
  BY FS_CardinalityType
<1>2. /\ IsFiniteSet(S \cup {x})
      /\ Cardinality(S \cup {x}) = IF x \in S THEN Cardinality(S) ELSE Cardinality(S) + 1
  BY FS_AddElement
<1>3. Cardinality(S \cup {x}) <= Cardinality(S) + 1
  BY <1>1, <1>2
<1>4. limit = NoLimit \/ Cardinality(S \cup {x}) <= limit
  BY <1>1, <1>2 DEF Below, Limits
<1>5. QED
  BY <1>2, <1>4, NoMoreStillWithin

\* An insert counts one more where its checks found room, and nowhere else.
LEMMA InsertWithinLimits ==
    ASSUME BookingInv, LimitsInv, NEW q \in Requests, InsertReservation(q),
           NEW r \in Resources, NEW c \in Customers, NEW d \in Days
    PROVE  WithinActive(r, c)' /\ WithinDaily(r, c, d)'
<1>1. /\ pc[q] = "checked" /\ ask' = ask /\ now' = now
      /\ \A p \in Requests : p # q => status'[p] = status[p]
  BY DEF InsertReservation, settingsVars, BookingInv, BookingTypeOK
<1>2. CountedOn(r, c)' \subseteq CountedOn(r, c) \cup {q}
  BY <1>1 DEF CountedOn, Table
<1>3. /\ AheadOn(r, c)' \subseteq AheadOn(r, c) \cup {q}
      /\ OnDay(r, c, d)' \subseteq OnDay(r, c, d) \cup {q}
  <2>1. \A p \in AheadOn(r, c)' : p \in AheadOn(r, c) \cup {q}
    BY <1>1, <1>2 DEF AheadOn
  <2>2. \A p \in OnDay(r, c, d)' : p \in OnDay(r, c, d) \cup {q}
    BY <1>1, <1>2 DEF OnDay, Day
  <2>3. QED
    BY <2>1, <2>2
<1>4. IsFiniteSet(AheadOn(r, c)) /\ IsFiniteSet(OnDay(r, c, d))
  BY CountedInTable, PartsCounted DEF LimitsInv
<1>5. PICK pol \in Policies : terms[q].maxActive = pol.maxActive /\ terms[q].maxDaily = pol.maxDaily
  BY <1>1 DEF LimitsInv, KnownTerms
<1>6. \A other \in Policies : other.maxActive \in Limits /\ other.maxDaily \in Limits
  BY PolicyAssumption DEF PolicyType
<1>7. WithinActive(r, c)'
  <2>1. CASE q \in AheadOn(r, c)'
    <3>1. Below(Cardinality(AheadOn(r, c)), pol.maxActive)
      BY <1>1, <1>5, <2>1 DEF AheadOn, CountedOn, LimitsInv, RoomLeft
    <3>2. pol.maxActive = NoLimit \/ Cardinality(AheadOn(r, c)') <= pol.maxActive
      BY <1>3, <1>4, <1>6, <3>1, OneMoreWithin
    <3>3. QED
      BY <3>2 DEF WithinActive
  <2>2. CASE q \notin AheadOn(r, c)'
    <3>1. AheadOn(r, c)' \subseteq AheadOn(r, c)
      BY <1>3, <2>2
    <3>2. PICK old \in Policies : old.maxActive = NoLimit
                                  \/ Cardinality(AheadOn(r, c)) <= old.maxActive
      BY DEF LimitsInv, WithinActive
    <3>3. old.maxActive = NoLimit \/ Cardinality(AheadOn(r, c)') <= old.maxActive
      BY <1>4, <1>6, <3>1, <3>2, NoMoreStillWithin
    <3>4. QED
      BY <3>3 DEF WithinActive
  <2>3. QED
    BY <2>1, <2>2
<1>8. WithinDaily(r, c, d)'
  <2>1. CASE q \in OnDay(r, c, d)'
    <3>1. Below(Cardinality(OnDay(r, c, d)), pol.maxDaily)
      BY <1>1, <1>5, <2>1 DEF OnDay, CountedOn, Day, LimitsInv, RoomLeft
    <3>2. pol.maxDaily = NoLimit \/ Cardinality(OnDay(r, c, d)') <= pol.maxDaily
      BY <1>3, <1>4, <1>6, <3>1, OneMoreWithin
    <3>3. QED
      BY <3>2 DEF WithinDaily
  <2>2. CASE q \notin OnDay(r, c, d)'
    <3>1. OnDay(r, c, d)' \subseteq OnDay(r, c, d)
      BY <1>3, <2>2
    <3>2. PICK old \in Policies : old.maxDaily = NoLimit
                                  \/ Cardinality(OnDay(r, c, d)) <= old.maxDaily
      BY DEF LimitsInv, WithinDaily
    <3>3. old.maxDaily = NoLimit \/ Cardinality(OnDay(r, c, d)') <= old.maxDaily
      BY <1>4, <1>6, <3>1, <3>2, NoMoreStillWithin
    <3>4. QED
      BY <3>3 DEF WithinDaily
  <2>3. QED
    BY <2>1, <2>2
<1>9. QED
  BY <1>7, <1>8

\* Every other step counts no more than before.
LEMMA OtherStepsWithinLimits ==
    ASSUME BookingInv, LimitsInv, [BookingNext]_bookingVars,
           \A q \in Requests : ~InsertReservation(q),
           NEW r \in Resources, NEW c \in Customers, NEW d \in Days
    PROVE  WithinActive(r, c)' /\ WithinDaily(r, c, d)'
<1>1. /\ AheadOn(r, c)' \subseteq AheadOn(r, c)
      /\ OnDay(r, c, d)' \subseteq OnDay(r, c, d)
  <2>1. AheadOn(r, c)' \subseteq Requests /\ OnDay(r, c, d)' \subseteq Requests
    BY DEF AheadOn, OnDay, CountedOn, Table
  <2>2. QED
    BY <2>1, CountedBefore
<1>2. IsFiniteSet(AheadOn(r, c)) /\ IsFiniteSet(OnDay(r, c, d))
  BY CountedInTable, PartsCounted DEF LimitsInv
<1>3. \A pol \in Policies : pol.maxActive \in Limits /\ pol.maxDaily \in Limits
  BY PolicyAssumption DEF PolicyType
<1>4. PICK old \in Policies : old.maxActive = NoLimit
                              \/ Cardinality(AheadOn(r, c)) <= old.maxActive
  BY DEF LimitsInv, WithinActive
<1>5. old.maxActive = NoLimit \/ Cardinality(AheadOn(r, c)') <= old.maxActive
  BY <1>1, <1>2, <1>3, <1>4, NoMoreStillWithin
<1>6. PICK day \in Policies : day.maxDaily = NoLimit
                              \/ Cardinality(OnDay(r, c, d)) <= day.maxDaily
  BY DEF LimitsInv, WithinDaily
<1>7. day.maxDaily = NoLimit \/ Cardinality(OnDay(r, c, d)') <= day.maxDaily
  BY <1>1, <1>2, <1>3, <1>6, NoMoreStillWithin
<1>8. QED
  BY <1>5, <1>7 DEF WithinActive, WithinDaily

\* The limits of a customer hold among the reservations of one resource, for any
\* number of concurrent requests: each counts under the lock of the resource, and
\* what it counted can only become less until it inserts.
THEOREM LimitsHold == BookingSpec => []LimitsHoldPerResource
<1>1. ASSUME BookingInit
      PROVE  LimitsInv
  <2>1. Table = {} /\ \A q \in Requests : pc[q] = "idle"
    BY <1>1 DEF BookingInit, Table
  <2>2. \A r, c, d : AheadOn(r, c) = {} /\ OnDay(r, c, d) = {}
    BY <2>1 DEF AheadOn, OnDay, CountedOn
  <2>3. policy \in Policies /\ policy.maxActive \in Limits /\ policy.maxDaily \in Limits
    BY <1>1, PolicyAssumption DEF BookingInit, PolicyType
  <2>4. \A r, c, d : WithinActive(r, c) /\ WithinDaily(r, c, d)
    BY <2>2, <2>3, FS_EmptySet DEF WithinActive, WithinDaily, Limits
  <2>5. QED
    BY <2>1, <2>4, FS_EmptySet DEF LimitsInv, KnownTerms, SnapshotComplete, RoomLeft
<1>2. ASSUME BookingInv, LimitsInv, [BookingNext]_bookingVars
      PROVE  LimitsInv'
  <2>1. IsFiniteSet(Table') /\ KnownTerms' /\ SnapshotComplete' /\ RoomLeft'
    BY <1>2, TableStaysFinite, TermsStayKnown, SnapshotStaysComplete, RoomStays DEF LimitsInv
  <2>2. \A r \in Resources, c \in Customers, d \in Days :
            WithinActive(r, c)' /\ WithinDaily(r, c, d)'
    BY <1>2, InsertWithinLimits, OtherStepsWithinLimits
  <2>3. Days # {} \/ Customers = {}
    BY DEF Days, Customers
  <2>4. QED
    BY <2>1, <2>2, <2>3 DEF LimitsInv
<1>3. ASSUME BookingInv, LimitsInv
      PROVE  LimitsHoldPerResource
  <2>1. SUFFICES ASSUME NEW r \in Resources, NEW c \in Customers
                 PROVE  /\ WithinActive(r, c)
                        /\ \A q \in CountedOn(r, c) : WithinDaily(r, c, Day(ask[q].start))
    BY DEF LimitsHoldPerResource, Customers, WithinActive, WithinDaily, AheadOn, OnDay, CountedOn
  <2>2. \A q \in CountedOn(r, c) : Day(ask[q].start) \in Days
    BY <1>3 DEF CountedOn, Table, Days, BookingInv, Bookkeeping
  <2>3. QED
    BY <1>3, <2>1, <2>2 DEF LimitsInv
<1>4. QED
  BY <1>1, <1>2, <1>3, BookingInvariant, PTL DEF BookingSpec

------------------------------------------------------------------------------
(* Nobody waits in a circle *)

\* The request has what its next statement needs: PostgreSQL would grant it.
GoesOn(q) ==
    \/ pc[q] = "begun" /\ lock[ask[q].resource] = Nobody
    \/ pc[q] = "locked"
    \/ pc[q] = "counting" /\ \A p \in rows[q] : RowFree(p)
    \/ pc[q] = "checked"

\* A request waits for the one that holds its resource, or for one that holds a
\* row of the same customer and is about to insert.
WaitsFor(q, h) ==
    \/ pc[q] = "begun" /\ lock[ask[q].resource] = h
    \/ pc[q] = "counting" /\ pc[h] = "checked" /\ rows[q] \cap rows[h] # {}

\* Whoever cannot go on waits for a request that can, or for one that waits for
\* such a request: resources are waited for before reservation rows, and who has
\* both inserts without waiting.
NoCircularWait ==
    \A q \in Requests : pc[q] \notin {"idle", "answered"} =>
        \/ GoesOn(q)
        \/ \E h \in Requests : /\ WaitsFor(q, h)
                               /\ GoesOn(h) \/ \E k \in Requests : WaitsFor(h, k) /\ GoesOn(k)

\* Creating reservations of different resources for one customer locks the
\* resources and then the customer's rows: no set of requests ever waits in a
\* circle.
THEOREM BookingNeverDeadlocks == BookingSpec => []NoCircularWait
<1>1. BookingInv => NoCircularWait
  <2> SUFFICES ASSUME BookingInv PROVE NoCircularWait
    OBVIOUS
  <2> USE DEF BookingInv, BookingTypeOK, Bookkeeping
  <2>1. ASSUME NEW q \in Requests, pc[q] = "counting", ~GoesOn(q)
        PROVE  \E h \in Requests : WaitsFor(q, h) /\ GoesOn(h)
    <3>1. PICK p \in rows[q], h \in Requests : pc[h] = "checked" /\ p \in rows[h]
      BY <2>1 DEF GoesOn, RowFree
    <3> QED
      BY <2>1, <3>1 DEF WaitsFor, GoesOn
  <2>2. ASSUME NEW q \in Requests, pc[q] = "begun", ~GoesOn(q)
        PROVE  \E h \in Requests : WaitsFor(q, h) /\ pc[h] \in {"locked", "counting", "checked"}
    <3>1. ask[q] \in Asks /\ ask[q].resource \in Resources
      BY <2>2, AsksAssumption
    <3>2. lock[ask[q].resource] \in Requests
      BY <2>2, <3>1 DEF GoesOn
    <3> QED
      BY <2>2, <3>1, <3>2 DEF LockDiscipline, WaitsFor
  <2>3. \A q \in Requests : pc[q] \in {"locked", "checked"} => GoesOn(q)
    BY DEF GoesOn
  <2>4. \A q \in Requests : pc[q] \in {"idle", "begun", "locked", "counting", "checked", "answered"}
    BY DEF PC
  <2> HIDE DEF BookingInv, BookingTypeOK, Bookkeeping
  <2> QED
    BY <2>1, <2>2, <2>3, <2>4 DEF NoCircularWait
<1> QED
  BY BookingInvariant, <1>1, PTL
==============================================================================
