---------------------- MODULE ReservationLifecycleProofs ----------------------
(***************************************************************************)
(* Theorems about ReservationLifecycle, for any number of reservations,    *)
(* cancel requests and overlapping sweeps.  The order in which a sweep     *)
(* visits its batch, and its limit, matter only to the last two: that no   *)
(* sweep stalls, and that every run gets rid of a pending reservation.     *)
(***************************************************************************)
EXTENDS ReservationLifecycle, FiniteSetTheorems, NaturalsInduction, TLAPS

\* A cancel request that has loaded a reservation knows which, and its status.
LoadedKnown ==
    \A c \in Cancels : loaded[c] # Idle => loaded[c].row \in Rows /\ loaded[c].status \in Status

\* A reservation has at least the event of its creation.
Recorded == \A r \in Rows : Len(events[r]) > 0

\* The inductive invariant.
LifecycleInv ==
    /\ LifecycleTypeOK
    /\ LoadedKnown
    /\ Recorded
    /\ HistoryExplainsStatus
    /\ SessionFollowsGuest

\* A status and its event are written: the event starts at the status, or it is
\* a cancellation.
Writes(r, from, to) ==
    /\ status' = [status EXCEPT ![r] = to]
    /\ events' = [events EXCEPT ![r] = Append(@, <<from, to>>)]
    /\ from = status[r] \/ to = "cancelled"

\* What a write of a status keeps of the history, and that it is entered there.
LEMMA HistoryKept ==
    ASSUME LifecycleInv, NEW r \in Rows, NEW from \in Status \cup {"none"}, NEW to \in Status,
           Writes(r, from, to)
    PROVE  /\ status' \in [Rows -> Status]
           /\ events' \in [Rows -> Seq((Status \cup {"none"}) \X Status)]
           /\ Recorded'
           /\ HistoryExplainsStatus'
           /\ \A s \in Rows, t \in Status : Entered(s, t) => Entered(s, t)'
           /\ Entered(r, to)'
<1> DEFINE Event == (Status \cup {"none"}) \X Status
           e == <<from, to>>
<1>1. status \in [Rows -> Status] /\ events \in [Rows -> Seq(Event)]
  BY DEF LifecycleInv, LifecycleTypeOK
<1>2. \A s \in Rows : Len(events[s]) > 0
  BY DEF LifecycleInv, Recorded
<1> DEFINE Last(s) == events[s][Len(events[s])][2] = status[s]
           Chained(s) == \A i \in 2 .. Len(events[s]) :
                            events[s][i][2] # "cancelled" => events[s][i][1] = events[s][i - 1][2]
<1>3. \A s \in Rows : Last(s) /\ Chained(s)
  BY DEF LifecycleInv, HistoryExplainsStatus
<1>4. e \in Event /\ e[1] = from /\ e[2] = to
  OBVIOUS
<1>5. /\ status' \in [Rows -> Status] /\ status'[r] = to
      /\ \A s \in Rows \ {r} : status'[s] = status[s]
  BY <1>1 DEF Writes
<1>6. /\ events' \in [Rows -> Seq(Event)] /\ events'[r] = Append(events[r], e)
      /\ \A s \in Rows \ {r} : events'[s] = events[s]
  BY <1>1, <1>4 DEF Writes
<1> HIDE DEF e, Event
<1>7. /\ Len(events'[r]) = Len(events[r]) + 1
      /\ events'[r][Len(events[r]) + 1] = e
      /\ \A i \in 1 .. Len(events[r]) : events'[r][i] = events[r][i]
      /\ Len(events[r]) \in Nat /\ Len(events[r]) > 0
  BY <1>1, <1>2, <1>4, <1>6
<1>8. Recorded'
  <2> SUFFICES ASSUME NEW s \in Rows PROVE Len(events'[s]) > 0
    BY DEF Recorded
  <2>1. CASE s = r
    BY <1>7, <2>1
  <2>2. CASE s # r
    BY <1>2, <1>6, <2>2
  <2> QED BY <2>1, <2>2
<1>9. Last(r)'
  BY <1>4, <1>5, <1>7
<1>10. Chained(r)'
  <2> SUFFICES ASSUME NEW i \in 2 .. Len(events'[r]), events'[r][i][2] # "cancelled"
               PROVE  events'[r][i][1] = events'[r][i - 1][2]
    OBVIOUS
  <2>1. CASE i \in 2 .. Len(events[r])
    <3>1. events'[r][i] = events[r][i] /\ events'[r][i - 1] = events[r][i - 1]
      BY <1>7, <2>1
    <3> QED BY <1>3, <2>1, <3>1
  <2>2. CASE i = Len(events[r]) + 1
    <3>1. events'[r][i] = e /\ events'[r][i - 1] = events[r][Len(events[r])]
      BY <1>7, <2>2
    <3>2. from = status[r]
      BY <1>4, <3>1 DEF Writes
    <3> QED BY <1>3, <1>4, <3>1, <3>2
  <2> QED BY <1>7, <2>1, <2>2
<1>11. HistoryExplainsStatus'
  <2>1. ASSUME NEW s \in Rows PROVE Last(s)' /\ Chained(s)'
    <3>1. CASE s = r
      BY <1>9, <1>10, <3>1
    <3>2. CASE s # r
      <4>1. events'[s] = events[s] /\ status'[s] = status[s]
        BY <1>5, <1>6, <3>2
      <4> QED BY <1>3, <4>1
    <3> QED BY <3>1, <3>2
  <2> QED BY <2>1 DEF HistoryExplainsStatus
<1> HIDE DEF Last, Chained
<1>12. \A s \in Rows, t \in Status : Entered(s, t) => Entered(s, t)'
  <2> SUFFICES ASSUME NEW s \in Rows, NEW t \in Status, Entered(s, t)
               PROVE  Entered(s, t)'
    OBVIOUS
  <2>1. PICK i \in 1 .. Len(events[s]) : events[s][i][2] = t
    BY DEF Entered
  <2>2. CASE s = r
    <3>1. i \in 1 .. Len(events'[s]) /\ events'[s][i][2] = t
      BY <1>7, <2>1, <2>2
    <3> QED BY <3>1 DEF Entered
  <2>3. CASE s # r
    BY <1>6, <2>1, <2>3 DEF Entered
  <2> QED BY <2>2, <2>3
<1>13. Entered(r, to)'
  <2>1. Len(events'[r]) \in 1 .. Len(events'[r]) /\ events'[r][Len(events'[r])][2] = to
    BY <1>4, <1>7
  <2> QED BY <2>1 DEF Entered
<1> QED BY <1>5, <1>6, <1>8, <1>11, <1>12, <1>13 DEF Event

\* WriteStatus is such a write.
LEMMA WriteStatusWrites ==
    ASSUME LifecycleInv, NEW r \in Rows, NEW to \in Status, WriteStatus(r, to)
    PROVE  /\ Writes(r, status[r], to)
           /\ status[r] \in Status
           /\ checkedIn' \in [Rows -> BOOLEAN]
<1>1. Writes(r, status[r], to)
  BY DEF WriteStatus, Writes
<1>2. status[r] \in Status
  BY DEF LifecycleInv, LifecycleTypeOK
<1>3. checkedIn' \in [Rows -> BOOLEAN]
  BY DEF LifecycleInv, LifecycleTypeOK, WriteStatus
<1> QED BY <1>1, <1>2, <1>3

\* Nothing follows "completed" or "cancelled" in the table.
LEMMA EndsOfTheTable ==
    ASSUME NEW from \in {"completed", "cancelled"}, NEW to \in Status
    PROVE  ~CanTransition(from, to)
BY DEF CanTransition, Transitions, Status

\* A write that leaves the sessions alone and either follows the table or
\* cancels keeps what the sessions say.
LEMMA SessionsKept ==
    ASSUME LifecycleInv, NEW r \in Rows, NEW from \in Status \cup {"none"}, NEW to \in Status,
           Writes(r, from, to), CanTransition(status[r], to) \/ to = "cancelled",
           UNCHANGED <<session, checkedOut>>
    PROVE  SessionFollowsGuest'
<1> SUFFICES ASSUME NEW s \in Rows
             PROVE  /\ session[s] # "none" => Entered(s, "checked_in")'
                    /\ session[s] = "completed" <=> checkedOut[s]
                    /\ session[s] = "completed" => status'[s] \in {"completed", "cancelled"}
  BY DEF SessionFollowsGuest, Entered
<1>1. /\ session[s] # "none" => Entered(s, "checked_in")
      /\ session[s] = "completed" <=> checkedOut[s]
      /\ session[s] = "completed" => status[s] \in {"completed", "cancelled"}
  BY DEF LifecycleInv, SessionFollowsGuest
<1>2. Entered(s, "checked_in") => Entered(s, "checked_in")'
  BY HistoryKept DEF Status
<1>3. session[s] = "completed" => status'[s] \in {"completed", "cancelled"}
  BY <1>1, EndsOfTheTable DEF LifecycleInv, LifecycleTypeOK, Writes
<1> QED BY <1>1, <1>2, <1>3

\* The inductive invariant holds at the start: every reservation has the event
\* of its creation and no session.
LEMMA InvariantStarts == LifecycleInit => LifecycleInv
<1> SUFFICES ASSUME LifecycleInit PROVE LifecycleInv
  OBVIOUS
<1>1. status \in [Rows -> Status]
  BY DEF LifecycleInit, Status
<1>2. \A r \in Rows : <<"none", status[r]>> \in (Status \cup {"none"}) \X Status
  BY <1>1
<1>3. \A r \in Rows : /\ events[r] = << <<"none", status[r]>> >>
                      /\ Len(events[r]) = 1
                      /\ events[r] \in Seq((Status \cup {"none"}) \X Status)
  BY <1>2 DEF LifecycleInit
<1>4. events \in [Rows -> Seq((Status \cup {"none"}) \X Status)]
  BY <1>3 DEF LifecycleInit
<1>5. Idle \in [row: Rows \cup {NoRow}, status: Status \cup {"none"}]
  BY DEF Idle
<1>6. LifecycleTypeOK
  BY <1>1, <1>4, <1>5 DEF LifecycleInit, LifecycleTypeOK
<1>7. LoadedKnown /\ Recorded
  BY <1>3 DEF LifecycleInit, LoadedKnown, Recorded
<1>8. HistoryExplainsStatus
  <2> SUFFICES ASSUME NEW r \in Rows
               PROVE  /\ events[r][Len(events[r])][2] = status[r]
                      /\ \A i \in 2 .. Len(events[r]) : FALSE
    BY DEF HistoryExplainsStatus
  <2>1. events[r][1] = <<"none", status[r]>> /\ Len(events[r]) = 1
    BY <1>3
  <2> QED BY <2>1
<1>9. SessionFollowsGuest
  BY DEF LifecycleInit, SessionFollowsGuest
<1> QED BY <1>6, <1>7, <1>8, <1>9 DEF LifecycleInv

\* Every handler, every step of a sweep and the clock keep it.
LEMMA InvariantKept == LifecycleInv /\ [LifecycleNext]_lifecycleVars => LifecycleInv'
<1> SUFFICES ASSUME LifecycleInv, [LifecycleNext]_lifecycleVars
             PROVE  LifecycleInv'
  OBVIOUS
<1> USE DEF LifecycleInv
<1>1. ASSUME NEW r \in Rows, NEW to \in Status, PatchStatus(r, to)
      PROVE  LifecycleInv'
  <2>1. WriteStatus(r, to) /\ UNCHANGED <<now, bookable, session, checkedOut, loaded, batch,
                                        closed>>
    BY <1>1 DEF PatchStatus
  <2>2. Writes(r, status[r], to) /\ status[r] \in Status /\ checkedIn' \in [Rows -> BOOLEAN]
    BY <2>1, WriteStatusWrites
  <2>3. SessionFollowsGuest'
    BY <2>1, <2>2, SessionsKept DEF WriteStatus
  <2>4. LifecycleTypeOK'
    BY <2>1, <2>2, HistoryKept DEF LifecycleTypeOK
  <2>5. LoadedKnown'
    BY <2>1 DEF LoadedKnown
  <2> QED BY <2>2, <2>3, <2>4, <2>5, HistoryKept
<1>2. ASSUME NEW r \in Rows, CheckIn(r)
      PROVE  LifecycleInv'
  <2>1. /\ status[r] = "confirmed" /\ session[r] # "active" /\ WriteStatus(r, "checked_in")
        /\ session' = [session EXCEPT ![r] = "active"]
        /\ UNCHANGED <<now, bookable, checkedOut, loaded, batch, closed>>
    BY <1>2 DEF CheckIn, EligibleForCheckIn
  <2>2. /\ Writes(r, status[r], "checked_in") /\ status[r] \in Status
        /\ checkedIn' \in [Rows -> BOOLEAN] /\ "checked_in" \in Status
    BY <2>1, WriteStatusWrites DEF Status
  <2>3. /\ \A s \in Rows, t \in Status : Entered(s, t) => Entered(s, t)'
        /\ Entered(r, "checked_in")'
    BY <2>2, HistoryKept
  <2>4. session \in [Rows -> {"none", "active", "completed"}] /\ status \in [Rows -> Status]
    BY DEF LifecycleTypeOK
  <2>5. ~checkedOut[r]
    BY <2>1 DEF SessionFollowsGuest
  <2>6. SessionFollowsGuest'
    <3> SUFFICES ASSUME NEW s \in Rows
                 PROVE  /\ session'[s] # "none" => Entered(s, "checked_in")'
                        /\ session'[s] = "completed" <=> checkedOut'[s]
                        /\ session'[s] = "completed" => status'[s] \in {"completed", "cancelled"}
      BY DEF SessionFollowsGuest, Entered
    <3>1. CASE s = r
      BY <2>1, <2>3, <2>4, <2>5, <3>1
    <3>2. CASE s # r
      <4>1. session'[s] = session[s] /\ status'[s] = status[s] /\ checkedOut' = checkedOut
        BY <2>1, <2>2, <2>4, <3>2 DEF Writes
      <4>2. session[s] # "none" => Entered(s, "checked_in")'
        BY <2>2, <2>3 DEF SessionFollowsGuest
      <4> QED BY <4>1, <4>2 DEF SessionFollowsGuest
    <3> QED BY <3>1, <3>2
  <2>7. LifecycleTypeOK'
    BY <2>1, <2>2, HistoryKept DEF LifecycleTypeOK
  <2>8. LoadedKnown'
    BY <2>1 DEF LoadedKnown
  <2> QED BY <2>2, <2>6, <2>7, <2>8, HistoryKept
<1>3. ASSUME NEW r \in Rows, CheckOut(r)
      PROVE  LifecycleInv'
  <2>1. /\ session[r] = "active" /\ WriteStatus(r, "completed")
        /\ session' = [session EXCEPT ![r] = "completed"]
        /\ checkedOut' = [checkedOut EXCEPT ![r] = TRUE]
        /\ UNCHANGED <<now, bookable, loaded, batch, closed>>
    BY <1>3 DEF CheckOut
  <2>2. /\ Writes(r, status[r], "completed") /\ status[r] \in Status
        /\ checkedIn' \in [Rows -> BOOLEAN]
        /\ "completed" \in Status /\ "checked_in" \in Status
    BY <2>1, WriteStatusWrites DEF Status
  <2>3. \A s \in Rows : Entered(s, "checked_in") => Entered(s, "checked_in")'
    BY <2>2, HistoryKept
  <2>4. /\ session \in [Rows -> {"none", "active", "completed"}] /\ status \in [Rows -> Status]
        /\ checkedOut \in [Rows -> BOOLEAN]
    BY DEF LifecycleTypeOK
  <2>5. SessionFollowsGuest'
    <3> SUFFICES ASSUME NEW s \in Rows
                 PROVE  /\ session'[s] # "none" => Entered(s, "checked_in")'
                        /\ session'[s] = "completed" <=> checkedOut'[s]
                        /\ session'[s] = "completed" => status'[s] \in {"completed", "cancelled"}
      BY DEF SessionFollowsGuest, Entered
    <3>1. CASE s = r
      <4>1. session'[s] = "completed" /\ checkedOut'[s] /\ status'[s] = "completed"
        BY <2>1, <2>2, <2>4, <3>1 DEF Writes
      <4>2. Entered(s, "checked_in")'
        BY <2>1, <2>3, <3>1 DEF SessionFollowsGuest
      <4> QED BY <4>1, <4>2
    <3>2. CASE s # r
      <4>1. session'[s] = session[s] /\ status'[s] = status[s] /\ checkedOut'[s] = checkedOut[s]
        BY <2>1, <2>2, <2>4, <3>2 DEF Writes
      <4>2. session[s] # "none" => Entered(s, "checked_in")'
        BY <2>3 DEF SessionFollowsGuest
      <4> QED BY <4>1, <4>2 DEF SessionFollowsGuest
    <3> QED BY <3>1, <3>2
  <2>6. LifecycleTypeOK'
    BY <2>1, <2>2, HistoryKept DEF LifecycleTypeOK
  <2>7. LoadedKnown'
    BY <2>1 DEF LoadedKnown
  <2> QED BY <2>2, <2>5, <2>6, <2>7, HistoryKept
<1>4. ASSUME NEW c \in Cancels, NEW r \in Rows, CustomerCancel(c, r) \/ BusinessCancel(c, r)
      PROVE  LifecycleInv'
  <2>1. LoadForCancel(c, r)
    BY <1>4 DEF CustomerCancel, BusinessCancel
  <2>2. status[r] \in Status
    BY DEF LifecycleTypeOK
  <2>3. LoadedKnown' /\ LifecycleTypeOK'
    BY <2>1, <2>2 DEF LoadForCancel, LoadedKnown, LifecycleTypeOK
  <2>4. Recorded' /\ HistoryExplainsStatus' /\ SessionFollowsGuest'
    BY <2>1 DEF LoadForCancel, Recorded, HistoryExplainsStatus, SessionFollowsGuest, Entered
  <2> QED BY <2>3, <2>4
<1>5. ASSUME NEW c \in Cancels, WriteCancel(c)
      PROVE  LifecycleInv'
  <2> DEFINE r == loaded[c].row
             from == loaded[c].status
  <2>1. r \in Rows /\ from \in Status /\ "cancelled" \in Status
    BY <1>5 DEF WriteCancel, LoadedKnown, Status
  <2>2. /\ Writes(r, from, "cancelled") /\ loaded' = [loaded EXCEPT ![c] = Idle]
        /\ UNCHANGED <<now, bookable, session, checkedIn, checkedOut, batch, closed>>
    BY <1>5 DEF WriteCancel, Writes
  <2>3. Idle \in [row: Rows \cup {NoRow}, status: Status \cup {"none"}]
    BY DEF Idle
  <2>4. LoadedKnown'
    BY <2>2 DEF LoadedKnown, LifecycleTypeOK
  <2> HIDE DEF r, from
  <2>5. SessionFollowsGuest'
    BY <2>1, <2>2, SessionsKept
  <2>6. LifecycleTypeOK'
    BY <2>1, <2>2, <2>3, HistoryKept DEF LifecycleTypeOK
  <2> QED BY <2>1, <2>2, <2>4, <2>5, <2>6, HistoryKept
<1>6. ASSUME NEW w \in Sweeps, SweepStart(w)
      PROVE  LifecycleInv'
  <2>1. PICK b \in Batches : batch' = [batch EXCEPT ![w] = b]
    BY <1>6 DEF SweepStart
  <2>2. b \subseteq Rows
    BY DEF Batches
  <2>3. LifecycleTypeOK'
    BY <1>6, <2>1, <2>2 DEF SweepStart, LifecycleTypeOK
  <2>4. LoadedKnown' /\ Recorded' /\ HistoryExplainsStatus' /\ SessionFollowsGuest'
    BY <1>6 DEF SweepStart, LoadedKnown, Recorded, HistoryExplainsStatus, SessionFollowsGuest,
                Entered
  <2> QED BY <2>3, <2>4
<1>7. ASSUME NEW w \in Sweeps, NEW r \in Rows, SweepRow(w, r)
      PROVE  LifecycleInv'
  <2>1. /\ WriteStatus(r, "expired") /\ batch' = [batch EXCEPT ![w] = @ \ {r}]
        /\ UNCHANGED <<now, bookable, session, checkedOut, loaded, closed>>
    BY <1>7 DEF SweepRow
  <2>2. /\ Writes(r, status[r], "expired") /\ status[r] \in Status
        /\ checkedIn' \in [Rows -> BOOLEAN] /\ "expired" \in Status
    BY <2>1, WriteStatusWrites DEF Status
  <2>3. SessionFollowsGuest'
    BY <2>1, <2>2, SessionsKept DEF WriteStatus
  <2>4. LifecycleTypeOK'
    BY <2>1, <2>2, HistoryKept DEF LifecycleTypeOK
  <2>5. LoadedKnown'
    BY <2>1 DEF LoadedKnown
  <2> QED BY <2>2, <2>3, <2>4, <2>5, HistoryKept
<1>8. ASSUME NEW w \in Sweeps, NEW r \in Rows, SweepAborts(w, r) \/ SweepSkips(w, r)
      PROVE  LifecycleInv'
  <2>1. LifecycleTypeOK'
    BY <1>8 DEF SweepAborts, SweepSkips, LifecycleTypeOK
  <2>2. LoadedKnown' /\ Recorded' /\ HistoryExplainsStatus' /\ SessionFollowsGuest'
    BY <1>8 DEF SweepAborts, SweepSkips, LoadedKnown, Recorded, HistoryExplainsStatus,
                SessionFollowsGuest, Entered
  <2> QED BY <2>1, <2>2
<1>9. ASSUME \/ \E r \in Rows : CloseAccount(r)
             \/ ChangeResource \/ Tick \/ UNCHANGED lifecycleVars
      PROVE  LifecycleInv'
  <2>1. UNCHANGED <<status, events, session, checkedIn, checkedOut, loaded, batch>>
    BY <1>9 DEF CloseAccount, ChangeResource, Tick, lifecycleVars
  <2>2. now' \in Nat /\ bookable' \in BOOLEAN /\ closed' \subseteq Rows
    <3>1. CASE ChangeResource
      BY <3>1 DEF ChangeResource, LifecycleTypeOK
    <3>2. CASE (\E r \in Rows : CloseAccount(r)) \/ Tick \/ UNCHANGED lifecycleVars
      BY <3>2 DEF Tick, CloseAccount, lifecycleVars, LifecycleTypeOK
    <3> QED BY <1>9, <3>1, <3>2
  <2>3. LifecycleTypeOK'
    BY <2>1, <2>2 DEF LifecycleTypeOK
  <2>4. LoadedKnown' /\ Recorded' /\ HistoryExplainsStatus' /\ SessionFollowsGuest'
    BY <2>1 DEF LoadedKnown, Recorded, HistoryExplainsStatus, SessionFollowsGuest, Entered
  <2> QED BY <2>3, <2>4
<1> QED BY <1>1, <1>2, <1>3, <1>4, <1>5, <1>6, <1>7, <1>8, <1>9
       DEF LifecycleNext, Staff, SweepStep

\* The inductive invariant holds in every reachable state.
THEOREM LifecycleInvariant == LifecycleSpec => []LifecycleInv
BY InvariantStarts, InvariantKept, PTL DEF LifecycleSpec

\* Every variable keeps its type.
THEOREM LifecycleTypeCorrect == LifecycleSpec => []LifecycleTypeOK
<1>1. LifecycleInv => LifecycleTypeOK
  BY DEF LifecycleInv
<1> QED BY <1>1, LifecycleInvariant, PTL

\* The events of a reservation explain its status.
THEOREM HistoryExplains == LifecycleSpec => []HistoryExplainsStatus
<1>1. LifecycleInv => HistoryExplainsStatus
  BY DEF LifecycleInv
<1> QED BY <1>1, LifecycleInvariant, PTL

\* Sessions follow the guests, whatever staff and sweeps do in between.
THEOREM SessionsFollowGuests == LifecycleSpec => []SessionFollowsGuest
<1>1. LifecycleInv => SessionFollowsGuest
  BY DEF LifecycleInv
<1> QED BY <1>1, LifecycleInvariant, PTL

\* What a step does to the status of a reservation.
LEMMA StepsFollowTheTable ==
    ASSUME LifecycleInv, LifecycleNext, NEW s \in Rows, status'[s] # status[s]
    PROVE  CanTransition(status[s], status'[s]) \/ status'[s] = "cancelled"
<1> USE DEF LifecycleInv, LifecycleTypeOK
<1>1. ASSUME NEW r \in Rows, NEW to \in Status, WriteStatus(r, to)
      PROVE  CanTransition(status[s], status'[s])
  BY <1>1 DEF WriteStatus
<1>2. "checked_in" \in Status /\ "completed" \in Status /\ "expired" \in Status
  BY DEF Status
<1>3. ASSUME NEW c \in Cancels, WriteCancel(c)
      PROVE  status'[s] = "cancelled"
  BY <1>3 DEF WriteCancel
<1>4. ASSUME NEW r \in Rows, Staff(r)
      PROVE  CanTransition(status[s], status'[s])
  BY <1>1, <1>2, <1>4
     DEF Staff, PatchStatus, CheckIn, CheckOut, CustomerCancel, BusinessCancel, LoadForCancel
<1>5. ASSUME NEW w \in Sweeps, SweepStart(w) \/ SweepStep(w)
      PROVE  CanTransition(status[s], status'[s])
  BY <1>1, <1>2, <1>5 DEF SweepStart, SweepStep, SweepRow, SweepSkips, SweepAborts
<1> QED BY <1>3, <1>4, <1>5 DEF LifecycleNext, CloseAccount, ChangeResource, Tick

\* A status changes along the table or is overwritten by a cancellation.
THEOREM TableHolds == LifecycleSpec => TableOrCancelled
<1>1. ASSUME LifecycleInv, [LifecycleNext]_lifecycleVars
      PROVE  [\A r \in Rows : status'[r] # status[r]
                 => CanTransition(status[r], status'[r]) \/ status'[r] = "cancelled"]_lifecycleVars
  BY <1>1, StepsFollowTheTable DEF lifecycleVars
<1> QED BY <1>1, LifecycleInvariant, PTL DEF LifecycleSpec, TableOrCancelled

\* A session that is open when its reservation has ended is never closed.
THEOREM OrphansStayOpen == LifecycleSpec => OrphanSessionNeverCloses
<1>1. ASSUME LifecycleInv, LifecycleNext, NEW s \in Rows, session[s] = "active",
             status[s] \in Terminal
      PROVE  session'[s] = "active"
  <2>1. ASSUME NEW to \in Status PROVE ~CanTransition(status[s], to)
    BY <1>1 DEF Terminal, CanTransition
  <2>2. session \in [Rows -> {"none", "active", "completed"}] /\ "completed" \in Status
    BY <1>1 DEF LifecycleInv, LifecycleTypeOK, Status
  <2>3. ASSUME NEW r \in Rows, CheckIn(r)
        PROVE  session'[s] = "active"
    BY <1>1, <2>2, <2>3 DEF CheckIn
  <2>4. ASSUME NEW r \in Rows, CheckOut(r)
        PROVE  session'[s] = "active"
    BY <1>1, <2>1, <2>2, <2>4 DEF CheckOut, WriteStatus
  <2>5. ASSUME NEW r \in Rows, Staff(r)
        PROVE  session'[s] = "active"
    BY <1>1, <2>3, <2>4, <2>5
       DEF Staff, PatchStatus, CustomerCancel, BusinessCancel, LoadForCancel
  <2>6. ASSUME NEW w \in Sweeps, SweepStart(w) \/ SweepStep(w)
        PROVE  session'[s] = "active"
    BY <1>1, <2>6 DEF SweepStart, SweepStep, SweepRow, SweepSkips, SweepAborts
  <2> QED BY <1>1, <2>5, <2>6 DEF LifecycleNext, WriteCancel, CloseAccount, ChangeResource, Tick
<1>2. ASSUME LifecycleInv, [LifecycleNext]_lifecycleVars
      PROVE  [\A r \in Rows : session[r] = "active" /\ status[r] \in Terminal
                 => session'[r] = "active"]_lifecycleVars
  BY <1>1, <1>2 DEF lifecycleVars
<1> QED BY <1>2, LifecycleInvariant, PTL DEF LifecycleSpec, OrphanSessionNeverCloses

-------------------------------------------------------------------------------
(* Sweeps do not stall *)

\* Of a set of rows, some expire first.
LEMMA SomeExpireFirst ==
    ASSUME NEW b \in SUBSET Rows, b # {}
    PROVE  \E r \in b : \A s \in b : ExpiresAt[r] <= ExpiresAt[s]
<1> DEFINE times == {ExpiresAt[r] : r \in b}
<1>1. times \subseteq Nat /\ times # {}
  BY RowsAssumption
<1>2. PICK t \in times : \A u \in times : ~(<<u, t>> \in OpToRel(<, Nat))
  BY <1>1, NatLessThanWellFounded, WFMin
<1>3. \A u \in times : ~(u < t)
  BY <1>1, <1>2 DEF OpToRel
<1>4. PICK r \in b : ExpiresAt[r] = t
  BY DEF times
<1>5. ASSUME NEW s \in b
      PROVE  ExpiresAt[r] <= ExpiresAt[s]
  BY <1>3, <1>4, RowsAssumption
<1>6. QED
  BY <1>4, <1>5

\* A number of a bounded set is the largest.
LEMMA BoundedHasLargest ==
    ASSUME NEW N \in SUBSET Nat, N # {}, NEW bound \in Nat, \A n \in N : n <= bound
    PROVE  \E n \in N : \A m \in N : m <= n
<1> DEFINE gaps == {bound - n : n \in N}
<1>1. gaps \subseteq Nat /\ gaps # {}
  <2>1. \A n \in N : n \in Nat /\ bound - n \in Nat
    OBVIOUS
  <2>2. QED
    BY <2>1
<1>2. PICK g \in gaps : \A h \in gaps : ~(<<h, g>> \in OpToRel(<, Nat))
  BY <1>1, NatLessThanWellFounded, WFMin
<1>3. \A h \in gaps : ~(h < g)
  BY <1>1, <1>2 DEF OpToRel
<1>4. PICK n \in N : g = bound - n
  OBVIOUS
<1>5. ASSUME NEW m \in N
      PROVE  m <= n
  BY <1>3, <1>4
<1>6. QED
  BY <1>4, <1>5

\* The query of a run finds a row when there is an overdue one: the first rows,
\* up to the limit, are a batch.
LEMMA OverdueIsSelected ==
    ASSUME NEW o \in Rows, Overdue(o)
    PROVE  Batches \ {{}} # {}
<1> DEFINE overdue == {r \in Rows : Overdue(r)}
           Prefix(b) == /\ b \subseteq overdue /\ b # {} /\ IsFiniteSet(b)
                        /\ Cardinality(b) <= BatchLimit
                        /\ \A r \in b, s \in overdue \ b : ExpiresAt[r] <= ExpiresAt[s]
           sizes == {n \in 1..BatchLimit : \E b \in SUBSET overdue : Prefix(b) /\ Cardinality(b) = n}
<1>1. BatchLimit \in Nat /\ BatchLimit >= 1
  BY TimesAssumption
<1>2. \A r \in Rows : ExpiresAt[r] \in Nat
  BY RowsAssumption
<1>3. sizes # {}
  <2>1. PICK r \in overdue : \A s \in overdue : ExpiresAt[r] <= ExpiresAt[s]
    BY SomeExpireFirst
  <2>2. Prefix({r}) /\ Cardinality({r}) = 1
    BY <1>1, <2>1, FS_Singleton
  <2>3. QED
    BY <1>1, <2>1, <2>2
<1>4. PICK n \in sizes : \A m \in sizes : m <= n
  <2>1. sizes \in SUBSET Nat /\ \A m \in sizes : m <= BatchLimit
    BY <1>1
  <2> HIDE DEF sizes
  <2>2. QED
    BY <1>1, <1>3, <2>1, BoundedHasLargest
<1>5. PICK b \in SUBSET overdue : Prefix(b) /\ Cardinality(b) = n
  BY <1>4
<1>6. b # overdue => Cardinality(b) = BatchLimit
  <2> SUFFICES ASSUME b # overdue, Cardinality(b) # BatchLimit
               PROVE  FALSE
    OBVIOUS
  <2>1. PICK r \in overdue \ b : \A s \in overdue \ b : ExpiresAt[r] <= ExpiresAt[s]
    BY SomeExpireFirst
  <2>2. IsFiniteSet(b \cup {r}) /\ Cardinality(b \cup {r}) = n + 1
    BY <1>5, <2>1, FS_AddElement
  <2>3. n + 1 <= BatchLimit /\ n \in Nat
    BY <1>1, <1>4, <1>5
  <2>4. ASSUME NEW q \in b \cup {r}, NEW s \in overdue \ (b \cup {r})
        PROVE  ExpiresAt[q] <= ExpiresAt[s]
    BY <1>5, <2>1
  <2>5. Prefix(b \cup {r})
    BY <1>5, <2>1, <2>2, <2>3, <2>4
  <2>6. n + 1 \in sizes
    BY <1>1, <2>2, <2>3, <2>5
  <2>7. QED
    BY <1>4, <2>3, <2>6
<1>7. b \in Batches
  BY <1>5, <1>6 DEF Batches
<1>8. QED
  BY <1>5, <1>7

\* The overdue reservations whose customer is gone, and those a sweep may expire.
Stuck == {r \in Rows : Overdue(r) /\ r \in closed}
Expirable == {r \in Rows : Overdue(r) /\ r \notin closed}

\* The rows a sweep passes over come back in every batch.  As long as they are
\* fewer than a batch holds, they do not keep it from the others.
LEMMA StuckDoNotFillBatch ==
    ASSUME Expirable # {}, IsFiniteSet(Stuck), Cardinality(Stuck) < BatchLimit,
           NEW b \in Batches
    PROVE  b \cap Expirable # {}
<1> SUFFICES ASSUME b \cap Expirable = {} PROVE FALSE
  OBVIOUS
<1>1. b \subseteq Stuck
  BY DEF Batches, Stuck, Expirable
<1>2. Cardinality(b) = BatchLimit
  BY DEF Batches, Expirable
<1>3. /\ Cardinality(b) <= Cardinality(Stuck)
      /\ Cardinality(b) \in Nat /\ Cardinality(Stuck) \in Nat
  <2>1. IsFiniteSet(b) /\ Cardinality(b) <= Cardinality(Stuck)
    BY <1>1, FS_Subset
  <2>2. QED
    BY <2>1, FS_CardinalityType
<1>4. QED
  BY <1>2, <1>3, TimesAssumption

\* A run that has begun has a row to visit; one that has not finds a batch when
\* there is anything overdue, and in it a reservation it may expire, if there is
\* one and those without a customer do not fill the batch.
SweepsGoOn ==
    \A w \in Sweeps :
        /\ batch[w] # {} => NextOf(batch[w]) # {}
        /\ batch[w] = {} /\ (\E r \in Rows : Overdue(r)) => Batches \ {{}} # {}
        /\ Expirable # {} /\ IsFiniteSet(Stuck) /\ Cardinality(Stuck) < BatchLimit
              => \A b \in Batches : b \cap Expirable # {}

\* While a reservation is overdue, every worker that runs expire-pending has a
\* step to take, and no limit and no order of the rows keeps its batches from
\* the reservations it may expire, unless those without a customer fill them.
THEOREM SweepsNeverStall == LifecycleSpec => []SweepsGoOn
<1>1. LifecycleInv => SweepsGoOn
  BY SomeExpireFirst, OverdueIsSelected, StuckDoNotFillBatch
  DEF LifecycleInv, LifecycleTypeOK, SweepsGoOn, NextOf
<1>2. QED
  BY <1>1, LifecycleInvariant, PTL

\* Whatever left pending never returns to it, and no customer comes back.  Each
\* step of a run is taken at the first of the rows left to it.  If that row has a
\* customer it is not pending afterwards, also when the step aborts the run: the
\* run expired it, or finds that somebody else had moved it.  If the customer is
\* gone the row keeps the status it has, pending included, and only leaves the
\* batch: a run that meets no other rows gets nowhere.
PendingRunsOut ==
    [][/\ \A r \in Rows : status[r] # "pending" => status'[r] # "pending"
       /\ closed \subseteq closed'
       /\ \A w \in Sweeps : batch[w] # {} /\ batch'[w] # batch[w] =>
             \E r \in NextOf(batch[w]) :
                \/ r \notin closed /\ status'[r] # "pending"
                \/ r \in closed /\ status' = status /\ batch'[w] = batch[w] \ {r}]_lifecycleVars

\* What a run of expire-pending achieves: of the reservations with a customer
\* each step takes one out of the pending ones or finds it out, so runs that
\* abort again and again cannot go on for ever; the others stay.
THEOREM RunsGetSomewhere == LifecycleSpec => PendingRunsOut
<1> DEFINE StepAt(w, r) ==
              \/ r \notin closed /\ status'[r] # "pending"
              \/ r \in closed /\ status' = status /\ batch'[w] = batch[w] \ {r}
           Progress ==
              /\ \A r \in Rows : status[r] # "pending" => status'[r] # "pending"
              /\ closed \subseteq closed'
              /\ \A w \in Sweeps : batch[w] # {} /\ batch'[w] # batch[w] =>
                    \E r \in NextOf(batch[w]) : StepAt(w, r)
<1>1. ASSUME LifecycleInv, LifecycleNext, NEW r \in Rows, status[r] # "pending"
      PROVE  status'[r] # "pending"
  <2>1. status[r] \in Status
    BY <1>1 DEF LifecycleInv, LifecycleTypeOK
  <2>2. ~CanTransition(status[r], "pending")
    BY <2>1 DEF CanTransition, Transitions, Status
  <2>3. QED
    BY <1>1, <2>2, StepsFollowTheTable
<1>2. ASSUME LifecycleNext PROVE closed \subseteq closed'
  <2>1. ASSUME NEW r \in Rows, Staff(r) PROVE closed' = closed
    BY <2>1 DEF Staff, PatchStatus, CheckIn, CheckOut, CustomerCancel, BusinessCancel,
       LoadForCancel
  <2>2. ASSUME NEW w \in Sweeps, SweepStart(w) \/ SweepStep(w) PROVE closed' = closed
    BY <2>2 DEF SweepStart, SweepStep, SweepRow, SweepSkips, SweepAborts
  <2>3. QED
    BY <1>2, <2>1, <2>2 DEF LifecycleNext, WriteCancel, CloseAccount, ChangeResource, Tick
<1>3. ASSUME LifecycleInv, LifecycleNext, NEW w \in Sweeps, batch[w] # {}, batch'[w] # batch[w]
      PROVE  \E r \in NextOf(batch[w]) : StepAt(w, r)
  <2>1. batch \in [Sweeps -> SUBSET Rows] /\ status \in [Rows -> Status]
    BY <1>3 DEF LifecycleInv, LifecycleTypeOK
  <2>2. ASSUME NEW v \in Sweeps, SweepStart(v)
        PROVE  batch'[w] = batch[w]
    BY <1>3, <2>1, <2>2 DEF SweepStart
  <2>3. ASSUME NEW r \in Rows, Staff(r)
        PROVE  batch' = batch
    BY <2>3 DEF Staff, PatchStatus, CheckIn, CheckOut, CustomerCancel, BusinessCancel,
       LoadForCancel
  <2>4. PICK v \in Sweeps : SweepStep(v)
    BY <1>3, <2>2, <2>3 DEF LifecycleNext, WriteCancel, CloseAccount, ChangeResource, Tick
  <2>5. v = w
    BY <1>3, <2>1, <2>4 DEF SweepStep, SweepRow, SweepSkips, SweepAborts
  <2>6. PICK r \in Rows : SweepRow(w, r) \/ SweepSkips(w, r) \/ SweepAborts(w, r)
    BY <2>4, <2>5 DEF SweepStep
  <2>7. CASE SweepRow(w, r)
    BY <2>1, <2>7 DEF SweepRow, WriteStatus
  <2>8. CASE SweepSkips(w, r)
    BY <2>1, <2>8 DEF SweepSkips
  <2>9. CASE SweepAborts(w, r)
    <3>1. CanTransition("pending", "expired")
      BY DEF CanTransition, Transitions
    <3>2. QED
      BY <2>9, <3>1 DEF SweepAborts
  <2>10. QED
    BY <2>6, <2>7, <2>8, <2>9
<1>4. ASSUME LifecycleInv, [LifecycleNext]_lifecycleVars
      PROVE  [Progress]_lifecycleVars
  BY <1>1, <1>2, <1>3, <1>4
<1>5. QED
  BY <1>4, LifecycleInvariant, PTL DEF LifecycleSpec, PendingRunsOut
===============================================================================
