---------------------------- MODULE PromisesProofs ----------------------------
(***************************************************************************)
(* What the two abstract specifications promise, for any calendar and any  *)
(* set of payments and notices.  Booking implements the one and Payments   *)
(* the other (BookingProofs, PaymentsProofs), which makes this a check of  *)
(* the specifications themselves: that they say what a reader hopes.       *)
(***************************************************************************)
EXTENDS Calendar, Settlement, TLAPS

----------------------------------------------------------------------------
(* The calendar *)

\* What an entry is worth: nobody holds two ranges, and who gave up holds none.
CalendarInv ==
    /\ DOMAIN held = Resources
    /\ Disjoint
    /\ \A r, s \in Resources : \A x \in held[r], y \in held[s] :
          x[1] = y[1] => r = s /\ x = y
    /\ \A r \in Resources : \A x \in held[r] : x[1] \notin gone

\* Ranges are taken where they meet no other one, so they never meet; and nobody
\* holds a range after having given one up.
THEOREM CalendarStaysDisjoint == CalendarSpec => []CalendarInv
<1>1. CalendarInit => CalendarInv
  BY DEF CalendarInit, CalendarInv, Disjoint
<1>2. ASSUME CalendarInv, [CalendarNext]_calendarVars
      PROVE  CalendarInv'
  <2> USE <1>2 DEF CalendarInv
  <2>1. ASSUME NEW r \in Resources, NEW h, NEW range, Take(r, h, range)
        PROVE  CalendarInv'
    <3>1. /\ gone' = gone /\ h \notin gone
          /\ held' = [held EXCEPT ![r] = @ \cup {<<h, range>>}]
          /\ \A s \in Resources : \A x \in held[s] : x[1] # h
          /\ \A x \in held[r] : ~RangesIntersect(x[2], range) /\ ~RangesIntersect(range, x[2])
      BY <2>1 DEF Take, HoldersOf, RangesIntersect
    <3>2. /\ DOMAIN held' = Resources
          /\ \A s \in Resources : held'[s] = IF s = r THEN held[r] \cup {<<h, range>>}
                                                      ELSE held[s]
      BY <3>1
    <3>3. \A s \in Resources : \A x \in held'[s] :
              x \in held[s] \/ (s = r /\ x = <<h, range>>)
      BY <3>2
    <3>4. Disjoint'
      BY <3>1, <3>3 DEF Disjoint, RangesIntersect
    <3>5. \A s, t \in Resources : \A x \in held'[s], y \in held'[t] :
              x[1] = y[1] => s = t /\ x = y
      BY <3>1, <3>3
    <3>6. QED
      BY <3>1, <3>2, <3>3, <3>4, <3>5
  <2>2. ASSUME NEW r \in Resources, NEW h, GiveUp(r, h)
        PROVE  CalendarInv'
    <3>1. /\ DOMAIN held' = Resources
          /\ \A s \in Resources : held'[s] \subseteq held[s]
      BY <2>2 DEF GiveUp
    <3>2. \A s \in Resources : \A x \in held'[s] : x[1] # h
      <4>1. PICK e \in held[r] : e[1] = h
        BY <2>2 DEF GiveUp, HoldersOf
      <4>2. \A s \in Resources : \A x \in held'[s] : s # r => x[1] # h
        BY <3>1, <4>1
      <4>3. \A x \in held'[r] : x[1] # h
        BY <2>2 DEF GiveUp
      <4>4. QED
        BY <4>2, <4>3
    <3>3. gone' = gone \cup {h}
      BY <2>2 DEF GiveUp
    <3>4. QED
      BY <3>1, <3>2, <3>3 DEF Disjoint
  <2>3. CASE UNCHANGED calendarVars
    BY <2>3 DEF calendarVars, Disjoint
  <2>4. QED
    BY <2>1, <2>2, <2>3 DEF CalendarNext
<1>3. QED
  BY <1>1, <1>2, PTL DEF CalendarSpec

----------------------------------------------------------------------------
(* The settlement *)

SettlementInv ==
    /\ stage \in [Payments -> DOMAIN Leads]
    /\ pays \in [Payments -> Reservations]
    /\ Settled

\* Opening, notices and payments at the venue keep payments and reservations in
\* agreement, whatever the provider says and in whatever order.
THEOREM SettlementAgrees == SettlementSpec => []Settled
<1>1. SettlementInit => SettlementInv
  BY DEF SettlementInit, SettlementInv, Settled, Leads
<1>2. ASSUME SettlementInv, [SettlementNext]_settlementVars
      PROVE  SettlementInv'
  <2> USE <1>2 DEF SettlementInv, Settled, Leads
  <2>1. ASSUME NEW p \in Payments, Open(p)
        PROVE  SettlementInv'
    BY <2>1 DEF Open, OpenFor
  <2>2. ASSUME NEW n \in Notices, Collect(n)
        PROVE  SettlementInv'
    BY <2>2 DEF Collect
  <2>3. ASSUME NEW n \in Notices, Learn(n)
        PROVE  SettlementInv'
    BY <2>3 DEF Learn
  <2>4. ASSUME NEW r \in Reservations, PayAtVenue(r) \/ EndWait(r)
        PROVE  SettlementInv'
    BY <2>4 DEF PayAtVenue, EndWait
  <2>5. CASE UNCHANGED settlementVars
    BY <2>5 DEF settlementVars
  <2>6. QED
    BY <2>1, <2>2, <2>3, <2>4, <2>5 DEF SettlementNext
<1>3. SettlementInv => Settled
  BY DEF SettlementInv
<1>4. QED
  BY <1>1, <1>2, <1>3, PTL DEF SettlementSpec
===============================================================================
