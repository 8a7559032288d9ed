---------------------------- MODULE PaymentsProofs ----------------------------
(***************************************************************************)
(* Proofs about Payments, for every number of reservations, payments and   *)
(* webhooks: one payment in flight per reservation, payments and           *)
(* reservations that agree about the money, locks that are never waited    *)
(* for in a circle, and the settlement that all of it implements.          *)
(***************************************************************************)
EXTENDS Payments, TLAPS

----------------------------------------------------------------------------
(* The transition table *)

\* Money that was collected stays collected along the table, a finished payment
\* is never in flight again, and no move of the table starts from "none".
LEMMA PaymentMoves ==
    ASSUME NEW from \in PaymentStatus, NEW to \in PaymentStatus, CanPayTransition(from, to)
    PROVE  /\ from \in {"paid", "partially_refunded", "refunded"}
                => to \in {"partially_refunded", "refunded"}
           /\ to \in {"partially_refunded", "refunded"}
                => from \in {"paid", "partially_refunded"}
           /\ to \in ActivePayment => from \in ActivePayment
BY DEF CanPayTransition, PaymentTransitions, PaymentStatus, ActivePayment

\* No reservation becomes pending.
LEMMA NeverPendingAgain ==
    ASSUME NEW from \in Status, NEW to \in Status, CanTransition(from, to)
    PROVE  to # "pending"
BY DEF CanTransition, Transitions, Status

----------------------------------------------------------------------------
(* The steps of a webhook that move a payment *)

\* The end of a delivery touches locks only.
LEMMA ReleaseTyped ==
    ASSUME PaymentsTypeOK, NEW d \in Deliveries, Release(d)
    PROVE  /\ eventLock' \in [Events -> Deliveries \cup {Nobody}]
           /\ paymentLock' \in [Creates -> Deliveries \cup {Nobody}]
BY DEF PaymentsTypeOK, Release

\* ApplyResult, seen from outside: a payment makes a move of the table that does
\* not end in "paid", or stays what it was.
LEMMA ApplyMoves ==
    ASSUME PaymentsTypeOK, DeliveriesKnown, NEW d \in Deliveries, ApplyResult(d)
    PROVE  /\ message[d] \in Messages
           /\ message' = message
           /\ UNCHANGED <<reservationVars, createVars>>
           /\ \/ payment' = payment
              \/ LET p == message[d].payment
                     result == message[d].result
                 IN /\ payment[p] \in PaymentStatus
                    /\ CanPayTransition(payment[p], result)
                    /\ result # "paid"
                    /\ payment' = [payment EXCEPT ![p] = result]
<1>1. message[d] \in Messages /\ payment[message[d].payment] # "none"
  BY DEF ApplyResult, DeliveriesKnown
<1>2. payment[message[d].payment] \in PaymentStatus
  BY <1>1, MessagesAssumption DEF PaymentsTypeOK
<1>3. message' = message
  BY DEF ApplyResult, Acknowledge, Fail, Release
<1>4. QED
  BY <1>1, <1>2, <1>3 DEF ApplyResult

LEMMA ApplyTyped ==
    ASSUME PaymentsTypeOK, DeliveriesKnown, NEW d \in Deliveries, ApplyResult(d)
    PROVE  PaymentsTypeOK'
<1> USE DEF PaymentsTypeOK
<1>1. /\ message[d] \in Messages
      /\ message[d].payment \in Creates
      /\ message[d].result \in PaymentStatus
      /\ message[d].event \in Events
  BY ApplyMoves, MessagesAssumption DEF Events
<1>2. payment' \in [Creates -> PaymentStatus \cup {"none"}]
  BY <1>1, ApplyMoves
<1>3. /\ delivery' \in [Deliveries -> {"idle", "received", "inserted", "paying",
                                       "acknowledged", "failed"}]
      /\ processed' \subseteq Events
      /\ eventLock' \in [Events -> Deliveries \cup {Nobody}]
      /\ paymentLock' \in [Creates -> Deliveries \cup {Nobody}]
  <2>1. CASE Acknowledge(d)
    BY <1>1, <2>1, ReleaseTyped DEF Acknowledge
  <2>2. CASE Fail(d)
    BY <2>2, ReleaseTyped DEF Fail
  <2>3. CASE /\ paymentLock' = [paymentLock EXCEPT ![message[d].payment] = d]
             /\ delivery' = [delivery EXCEPT ![d] = "paying"]
             /\ UNCHANGED <<payment, message, eventLock, processed>>
    BY <2>3
  <2>4. QED
    BY <2>1, <2>2, <2>3 DEF ApplyResult
<1>4. QED
  BY <1>2, <1>3, ApplyMoves DEF reservationVars, createVars

----------------------------------------------------------------------------
(* Types *)

LEMMA PaymentsInitTyped ==
    ASSUME PaymentsInit
    PROVE  PaymentsTypeOK
BY DEF PaymentsInit, PaymentsTypeOK, Status

LEMMA PaymentsStepTyped ==
    ASSUME PaymentsTypeOK, DeliveriesKnown, [PaymentsNext]_paymentsVars
    PROVE  PaymentsTypeOK'
<1> USE DEF PaymentsTypeOK
<1>1. ASSUME NEW c \in Creates, CreateStep(c)
      PROVE  PaymentsTypeOK'
  <2>1. CASE LoadForPayment(c)
    BY <2>1 DEF LoadForPayment, reservationVars, webhookVars
  <2>2. CASE LockForPayment(c)
    BY <2>2 DEF LockForPayment, reservationVars, webhookVars
  <2>3. CASE InsertPayment(c)
    BY <2>3 DEF InsertPayment, reservationVars, webhookVars, PaymentStatus
  <2>4. QED  BY <1>1, <2>1, <2>2, <2>3 DEF CreateStep
<1>2. ASSUME NEW d \in Deliveries, WebhookStep(d)
      PROVE  PaymentsTypeOK'
  <2>1. CASE InsertEvent(d)
    BY <2>1 DEF InsertEvent, reservationVars, createVars
  <2>2. CASE ApplyResult(d)
    BY <2>2, ApplyTyped
  <2>3. CASE Settle(d)
    <3>1. /\ message[d] \in Messages
          /\ message[d].payment \in Creates
          /\ message[d].event \in Events
      BY <2>3, MessagesAssumption DEF Settle, DeliveriesKnown, Events
    <3>2. status' \in [Rows -> Status]
      BY <2>3 DEF Settle, Status
    <3>3. QED
      BY <2>3, <3>1, <3>2, ReleaseTyped
      DEF Settle, Acknowledge, Release, createVars, PaymentStatus
  <2>4. QED  BY <1>2, <2>1, <2>2, <2>3 DEF WebhookStep
<1>3. ASSUME NEW d \in Deliveries, NEW m \in Messages, Receive(d, m)
      PROVE  PaymentsTypeOK'
  BY <1>3 DEF Receive, reservationVars, createVars
<1>4. ASSUME NEW r \in Rows, Meanwhile(r)
      PROVE  PaymentsTypeOK'
  <2>1. CASE MarkPaidAtVenue(r)
    BY <2>1 DEF MarkPaidAtVenue, createVars, webhookVars
  <2>2. ASSUME NEW to \in Status, ChangeStatus(r, to)
        PROVE  PaymentsTypeOK'
    BY <2>2 DEF ChangeStatus, createVars, webhookVars
  <2>3. CASE CancelReservation(r)
    BY <2>3 DEF CancelReservation, createVars, webhookVars, Status
  <2>4. QED  BY <1>4, <2>1, <2>2, <2>3 DEF Meanwhile
<1>5. CASE UNCHANGED paymentsVars
  BY <1>5 DEF paymentsVars, reservationVars, createVars, webhookVars
<1>6. QED
  BY <1>1, <1>2, <1>3, <1>4, <1>5 DEF PaymentsNext

----------------------------------------------------------------------------
(* One payment in flight *)

\* Only the insert brings a payment into being, and none disappears.
LEMMA StepDeliveriesKnown ==
    ASSUME PaymentsTypeOK, DeliveriesKnown, [PaymentsNext]_paymentsVars
    PROVE  DeliveriesKnown'
<1> USE MessagesAssumption DEF PaymentsTypeOK, DeliveriesKnown
<1>1. ASSUME NEW c \in Creates, CreateStep(c)
      PROVE  DeliveriesKnown'
  <2>1. CASE InsertPayment(c)
    BY <2>1 DEF InsertPayment, webhookVars
  <2>2. CASE LoadForPayment(c) \/ LockForPayment(c)
    BY <2>2 DEF LoadForPayment, LockForPayment, webhookVars
  <2>3. QED  BY <1>1, <2>1, <2>2 DEF CreateStep
<1>2. ASSUME NEW d \in Deliveries, WebhookStep(d)
      PROVE  DeliveriesKnown'
  <2>1. CASE InsertEvent(d)
    BY <2>1 DEF InsertEvent
  <2>2. CASE ApplyResult(d)
    <3>1. message' = message /\ \A e \in Deliveries : e # d => delivery'[e] = delivery[e]
      BY <2>2 DEF ApplyResult, Acknowledge, Fail, Release
    <3>2. delivery[d] # "idle"
      BY <2>2 DEF ApplyResult
    <3>3. \A p \in Creates : payment[p] # "none" => payment'[p] # "none"
      BY <2>2, ApplyMoves DEF PaymentStatus
    <3>4. QED
      BY <3>1, <3>2, <3>3
  <2>3. CASE Settle(d)
    BY <2>3 DEF Settle, Acknowledge, Release
  <2>4. QED  BY <1>2, <2>1, <2>2, <2>3 DEF WebhookStep
<1>3. ASSUME NEW d \in Deliveries, NEW m \in Messages, Receive(d, m)
      PROVE  DeliveriesKnown'
  BY <1>3 DEF Receive
<1>4. ASSUME NEW r \in Rows, Meanwhile(r)
      PROVE  DeliveriesKnown'
  BY <1>4 DEF Meanwhile, MarkPaidAtVenue, ChangeStatus, CancelReservation, webhookVars
<1>5. CASE UNCHANGED paymentsVars
  BY <1>5 DEF paymentsVars, webhookVars
<1>6. QED
  BY <1>1, <1>2, <1>3, <1>4, <1>5 DEF PaymentsNext

\* A step of a webhook brings no payment into being and none into flight.
LEMMA WebhooksOnlyLand ==
    ASSUME PaymentsTypeOK, DeliveriesKnown, NEW d \in Deliveries, WebhookStep(d)
    PROVE  /\ UNCHANGED createVars
           /\ \A p \in Creates : /\ payment'[p] # "none" => payment[p] # "none"
                                 /\ payment'[p] \in ActivePayment => payment[p] \in ActivePayment
<1> USE MessagesAssumption DEF PaymentsTypeOK, DeliveriesKnown, ActivePayment
<1>1. CASE InsertEvent(d)
  BY <1>1 DEF InsertEvent
<1>2. CASE ApplyResult(d)
  <2>1. UNCHANGED createVars
    BY <1>2 DEF ApplyResult
  <2>2. CASE payment' = payment
    BY <2>1, <2>2
  <2>3. ASSUME NEW q \in Creates, NEW to \in PaymentStatus,
               payment[q] \in PaymentStatus, CanPayTransition(payment[q], to),
               payment' = [payment EXCEPT ![q] = to]
        PROVE  \A p \in Creates :
                  /\ payment'[p] # "none" => payment[p] # "none"
                  /\ payment'[p] \in ActivePayment => payment[p] \in ActivePayment
    <3>1. to \in ActivePayment => payment[q] \in ActivePayment
      BY <2>3, PaymentMoves
    <3>2. QED
      BY <2>3, <3>1 DEF PaymentStatus
  <2>4. QED
    BY <1>2, <2>1, <2>2, <2>3, ApplyMoves
<1>3. CASE Settle(d)
  BY <1>3 DEF Settle
<1>4. QED
  BY <1>1, <1>2, <1>3 DEF WebhookStep

\* The create requests keep their order when payments only land.
LEMMA LandingKeepsOrder ==
    ASSUME CreatesInOrder, OneActivePayment, UNCHANGED createVars,
           \A p \in Creates : /\ payment'[p] # "none" => payment[p] # "none"
                              /\ payment'[p] \in ActivePayment => payment[p] \in ActivePayment
    PROVE  CreatesInOrder' /\ OneActivePayment'
BY DEF CreatesInOrder, OneActivePayment, createVars, ActiveOf, ActivePayment

LEMMA StepCreates ==
    ASSUME PaymentsTypeOK, DeliveriesKnown, CreatesInOrder, OneActivePayment,
           [PaymentsNext]_paymentsVars
    PROVE  CreatesInOrder' /\ OneActivePayment'
<1>1. ASSUME NEW c \in Creates, CreateStep(c)
      PROVE  CreatesInOrder' /\ OneActivePayment'
  <2> USE PaymentNamesAssumption
      DEF PaymentsTypeOK, CreatesInOrder, OneActivePayment, ActiveOf, ActivePayment
  <2>1. CASE LoadForPayment(c)
    BY <2>1 DEF LoadForPayment
  <2>2. CASE LockForPayment(c)
    BY <2>2 DEF LockForPayment
  <2>3. CASE InsertPayment(c)
    <3>1. payment' \in [Creates -> PaymentStatus \cup {"none"}]
          /\ \A p \in Creates : p # c => payment'[p] = payment[p]
      BY <2>3 DEF InsertPayment, PaymentStatus
    <3>2. \A p \in Creates : target[p] = target[c] => payment[p] \notin {"pending", "processing"}
      BY <2>3 DEF InsertPayment
    <3>3. rowLock[target[c]] = c
      BY <2>3 DEF InsertPayment
    <3>4. \A p \in Creates : p # c /\ target[p] = target[c] => creating[p] # "locked"
      BY <3>3
    <3>5. OneActivePayment'
      BY <2>3, <3>1, <3>2 DEF InsertPayment
    <3>6. CreatesInOrder'
      <4>1. \A p \in Creates : payment'[p] # "none" => creating'[p] = "answered"
        BY <2>3, <3>1 DEF InsertPayment
      <4>2. \A r \in Rows, p \in Creates :
                rowLock'[r] = p <=> creating'[p] = "locked" /\ target'[p] = r
        BY <2>3, <3>3, <3>4 DEF InsertPayment
      <4>3. \A p \in Creates : creating'[p] = "locked"
                => creating[p] = "locked" /\ target[p] # target[c]
        BY <2>3, <3>4 DEF InsertPayment
      <4>4. QED
        BY <2>3, <3>1, <4>1, <4>2, <4>3 DEF InsertPayment
    <3>7. QED
      BY <3>5, <3>6
  <2>4. QED  BY <1>1, <2>1, <2>2, <2>3 DEF CreateStep
<1>2. ASSUME NEW d \in Deliveries, WebhookStep(d)
      PROVE  CreatesInOrder' /\ OneActivePayment'
  BY <1>2, WebhooksOnlyLand, LandingKeepsOrder
<1>3. CASE UNCHANGED <<payment, createVars>>
  BY <1>3, LandingKeepsOrder
<1>4. QED
  BY <1>1, <1>2, <1>3
  DEF PaymentsNext, Receive, Meanwhile, MarkPaidAtVenue, ChangeStatus, CancelReservation,
      paymentsVars

----------------------------------------------------------------------------
(* The reservation's side *)

\* A step other than a settlement collects no money, and loses none.
LEMMA CollectedByWebhook ==
    ASSUME PaymentsTypeOK, DeliveriesKnown, CreatesInOrder, NEW d \in Deliveries, ApplyResult(d)
    PROVE  Collected' = Collected
<1> USE MessagesAssumption DEF PaymentsTypeOK, Collected
<1>1. CASE payment' = payment
  BY <1>1
<1>2. ASSUME NEW q \in Creates, NEW to \in PaymentStatus,
             payment[q] \in PaymentStatus, CanPayTransition(payment[q], to), to # "paid",
             payment' = [payment EXCEPT ![q] = to]
      PROVE  Collected' = Collected
  <2>1. payment[q] \in {"paid", "partially_refunded", "refunded"}
          <=> to \in {"paid", "partially_refunded", "refunded"}
    BY <1>2, PaymentMoves
  <2>2. QED
    BY <1>2, <2>1
<1>3. QED
  BY <1>1, <1>2, ApplyMoves

LEMMA StepWrittenThrough ==
    ASSUME PaymentsTypeOK, DeliveriesKnown, CreatesInOrder, CollectedIsWrittenThrough,
           [PaymentsNext]_paymentsVars
    PROVE  CollectedIsWrittenThrough'
<1>1. ASSUME Collected' = Collected, UNCHANGED <<target, paymentStatus, method>>
      PROVE  CollectedIsWrittenThrough'
  BY <1>1 DEF CollectedIsWrittenThrough, Collected
<1>2. ASSUME NEW c \in Creates, CreateStep(c)
      PROVE  CollectedIsWrittenThrough'
  <2>1. UNCHANGED <<target, paymentStatus, method>>
    BY <1>2 DEF CreateStep, LoadForPayment, LockForPayment, InsertPayment, reservationVars
  <2>2. Collected' = Collected
    <3>1. CASE InsertPayment(c)
      BY <3>1 DEF InsertPayment, Collected, CreatesInOrder, PaymentsTypeOK
    <3>2. CASE LoadForPayment(c) \/ LockForPayment(c)
      BY <3>2 DEF LoadForPayment, LockForPayment, Collected
    <3>3. QED  BY <1>2, <3>1, <3>2 DEF CreateStep
  <2>3. QED  BY <1>1, <2>1, <2>2
<1>3. ASSUME NEW d \in Deliveries, WebhookStep(d)
      PROVE  CollectedIsWrittenThrough'
  <2>1. CASE InsertEvent(d)
    BY <1>1, <2>1 DEF InsertEvent, Collected, reservationVars, createVars
  <2>2. CASE ApplyResult(d)
    <3>1. UNCHANGED <<target, paymentStatus, method>>
      BY <2>2, ApplyMoves DEF reservationVars, createVars
    <3>2. QED
      BY <1>1, <2>2, <3>1, CollectedByWebhook
  <2>3. CASE Settle(d)
    <3>1. message[d].payment \in Creates
      BY <2>3, MessagesAssumption DEF Settle, DeliveriesKnown
    <3>2. Collected' = Collected \cup {message[d].payment}
      BY <2>3, <3>1 DEF Settle, Collected, PaymentsTypeOK
    <3>3. QED
      BY <2>3, <3>1, <3>2 DEF Settle, CollectedIsWrittenThrough, PaymentsTypeOK, createVars
  <2>4. QED  BY <1>3, <2>1, <2>2, <2>3 DEF WebhookStep
<1>4. ASSUME NEW r \in Rows, MarkPaidAtVenue(r)
      PROVE  CollectedIsWrittenThrough'
  <2>1. Collected' = Collected
    BY <1>4 DEF MarkPaidAtVenue, Collected
  <2>2. QED
    BY <1>4, <2>1 DEF MarkPaidAtVenue, CollectedIsWrittenThrough, PaymentsTypeOK, createVars
<1>5. CASE UNCHANGED <<payment, target, paymentStatus, method>>
  BY <1>1, <1>5 DEF Collected
<1>6. QED
  BY <1>2, <1>3, <1>4, <1>5
  DEF PaymentsNext, Receive, Meanwhile, ChangeStatus, CancelReservation, paymentsVars,
      reservationVars, createVars

LEMMA StepPaidNotPending ==
    ASSUME PaymentsTypeOK, PaidIsNotPending, [PaymentsNext]_paymentsVars
    PROVE  PaidIsNotPending'
<1> USE DEF PaymentsTypeOK, PaidIsNotPending
<1>1. ASSUME NEW d \in Deliveries, Settle(d)
      PROVE  PaidIsNotPending'
  BY <1>1 DEF Settle
<1>2. ASSUME NEW r \in Rows, MarkPaidAtVenue(r)
      PROVE  PaidIsNotPending'
  BY <1>2 DEF MarkPaidAtVenue
<1>3. ASSUME NEW r \in Rows, NEW to \in Status, ChangeStatus(r, to)
      PROVE  PaidIsNotPending'
  BY <1>3, NeverPendingAgain DEF ChangeStatus
<1>4. ASSUME NEW r \in Rows, CancelReservation(r)
      PROVE  PaidIsNotPending'
  BY <1>4 DEF CancelReservation
<1>5. CASE UNCHANGED reservationVars
  BY <1>5 DEF reservationVars
<1>6. QED
  BY <1>1, <1>2, <1>3, <1>4, <1>5
  DEF PaymentsNext, CreateStep, LoadForPayment, LockForPayment, InsertPayment, WebhookStep,
      InsertEvent, ApplyResult, Receive, Meanwhile, paymentsVars

----------------------------------------------------------------------------
(* Processed events *)

\* Between its two steps a settlement owns a payment that is still in flight,
\* and carries a "paid": what Settle writes is a move of the table.
SettlesUnderLock ==
    \A d \in Deliveries : delivery[d] = "paying" =>
        /\ message[d].result = "paid"
        /\ paymentLock[message[d].payment] = d
        /\ payment[message[d].payment] \in ActivePayment

\* What AtOrBeyond is, result by result.
LEMMA BeyondByResult ==
    /\ AtOrBeyond("pending") = PaymentStatus \ {"pending"}
    /\ AtOrBeyond("processing") = PaymentStatus \ {"pending"}
    /\ AtOrBeyond("paid") = {"paid", "refunded", "partially_refunded"}
    /\ AtOrBeyond("failed") = {"failed"}
    /\ AtOrBeyond("cancelled") = {"cancelled"}
    /\ AtOrBeyond("refunded") = {"refunded"}
    /\ AtOrBeyond("partially_refunded") = {"partially_refunded", "refunded"}
BY DEF AtOrBeyond, PaymentTransitions

\* A payment at or beyond a result stays there along the table; a move to the
\* result and a final status equal to it are there.
LEMMA BeyondKept ==
    ASSUME NEW result \in PaymentStatus, NEW from \in PaymentStatus, NEW to \in PaymentStatus,
           from \in AtOrBeyond(result), CanPayTransition(from, to)
    PROVE  to \in AtOrBeyond(result)
BY BeyondByResult DEF CanPayTransition, PaymentTransitions, PaymentStatus

LEMMA BeyondReached ==
    ASSUME NEW result \in PaymentStatus, NEW from \in PaymentStatus,
           CanPayTransition(from, result) \/ (from = result /\ from \notin ActivePayment)
    PROVE  result \in AtOrBeyond(result)
BY BeyondByResult DEF CanPayTransition, PaymentTransitions, PaymentStatus, ActivePayment

\* A step of a webhook keeps the locks of the others, and every settlement
\* that goes on under way.
LEMMA SettlesKept ==
    ASSUME PaymentsTypeOK, DeliveriesKnown, CreatesInOrder, SettlesUnderLock,
           [PaymentsNext]_paymentsVars
    PROVE  SettlesUnderLock'
<1> USE PaymentNamesAssumption, MessagesAssumption
    DEF PaymentsTypeOK, DeliveriesKnown, SettlesUnderLock
<1>1. ASSUME NEW c \in Creates, CreateStep(c)
      PROVE  SettlesUnderLock'
  BY <1>1 DEF CreateStep, LoadForPayment, LockForPayment, InsertPayment, webhookVars,
     CreatesInOrder, ActivePayment
<1>2. ASSUME NEW d \in Deliveries, InsertEvent(d)
      PROVE  SettlesUnderLock'
  BY <1>2 DEF InsertEvent
<1>3. ASSUME NEW d \in Deliveries, ApplyResult(d)
      PROVE  SettlesUnderLock'
  <2>1. message[d] \in Messages /\ message[d].payment \in Creates
    BY <1>3 DEF ApplyResult
  <2>2. ASSUME NEW e \in Deliveries, e # d, delivery'[e] = "paying"
        PROVE  /\ delivery[e] = "paying" /\ message'[e] = message[e]
               /\ message[e].payment # message[d].payment
               /\ paymentLock'[message[e].payment] = e
    <3>1. delivery[e] = "paying" /\ message' = message
      BY <1>3, <2>2 DEF ApplyResult, Acknowledge, Fail, Release
    <3>2. message[e].payment \in Creates /\ paymentLock[message[e].payment] = e
      BY <3>1
    <3>3. message[e].payment # message[d].payment
      BY <1>3, <3>2 DEF ApplyResult
    <3>4. paymentLock'[message[e].payment] = e
      BY <1>3, <2>1, <2>2, <3>2, <3>3 DEF ApplyResult, Acknowledge, Fail, Release
    <3>5. QED  BY <3>1, <3>3, <3>4
  <2>3. ASSUME NEW p \in Creates, p # message[d].payment
        PROVE  payment'[p] = payment[p]
    BY <1>3, <2>1, <2>3 DEF ApplyResult
  <2>4. ASSUME delivery'[d] = "paying"
        PROVE  /\ message'[d].result = "paid"
               /\ paymentLock'[message'[d].payment] = d
               /\ payment'[message'[d].payment] \in ActivePayment
    <3>1. /\ CanPayTransition(payment[message[d].payment], "paid")
          /\ message[d].result = "paid"
          /\ paymentLock' = [paymentLock EXCEPT ![message[d].payment] = d]
          /\ UNCHANGED <<payment, message>>
      BY <1>3, <2>4 DEF ApplyResult, Acknowledge, Fail
    <3>2. payment[message[d].payment] \in PaymentStatus
      BY <1>3, <2>1 DEF ApplyResult
    <3>3. payment[message[d].payment] \in ActivePayment
      BY <3>1, <3>2 DEF CanPayTransition, PaymentTransitions, PaymentStatus, ActivePayment
    <3>4. QED  BY <2>1, <3>1, <3>3
  <2>5. ASSUME NEW e \in Deliveries, delivery'[e] = "paying"
        PROVE  /\ message'[e].result = "paid"
               /\ paymentLock'[message'[e].payment] = e
               /\ payment'[message'[e].payment] \in ActivePayment
    <3>1. CASE e = d
      BY <2>4, <2>5, <3>1
    <3>2. CASE e # d
      <4>1. /\ delivery[e] = "paying" /\ message'[e] = message[e]
            /\ message[e].payment # message[d].payment
            /\ paymentLock'[message[e].payment] = e
        BY <2>2, <2>5, <3>2
      <4>2. message[e].payment \in Creates
        BY <4>1
      <4>3. QED  BY <2>3, <4>1, <4>2
    <3>3. QED  BY <3>1, <3>2
  <2>6. QED  BY <2>5
<1>4. ASSUME NEW d \in Deliveries, Settle(d)
      PROVE  SettlesUnderLock'
  <2>1. /\ message[d].payment \in Creates /\ message' = message
        /\ paymentLock[message[d].payment] = d
    BY <1>4 DEF Settle, Acknowledge, Release
  <2>2. ASSUME NEW e \in Deliveries, delivery'[e] = "paying"
        PROVE  e # d /\ delivery[e] = "paying"
    BY <1>4, <2>2 DEF Settle, Acknowledge
  <2>3. ASSUME NEW e \in Deliveries, delivery'[e] = "paying"
        PROVE  /\ message[e].payment \in Creates /\ message[e].payment # message[d].payment
               /\ paymentLock'[message[e].payment] = e
               /\ payment'[message[e].payment] = payment[message[e].payment]
    BY <1>4, <2>1, <2>2, <2>3 DEF Settle, Acknowledge, Release
  <2>4. QED  BY <2>1, <2>2, <2>3
<1>5. ASSUME NEW d \in Deliveries, NEW m \in Messages, Receive(d, m)
      PROVE  SettlesUnderLock'
  BY <1>5 DEF Receive
<1>6. CASE UNCHANGED <<payment, delivery, message, paymentLock>>
  BY <1>6
<1>7. QED
  BY <1>1, <1>2, <1>3, <1>4, <1>5, <1>6
  DEF PaymentsNext, WebhookStep, Meanwhile, MarkPaidAtVenue, ChangeStatus, CancelReservation,
      paymentsVars, webhookVars

\* A payment of which the server has been told moves along the table.
LEMMA PaymentsFollowTable ==
    ASSUME PaymentsTypeOK, DeliveriesKnown, CreatesInOrder, SettlesUnderLock,
           [PaymentsNext]_paymentsVars, NEW p \in Creates, payment[p] # "none"
    PROVE  payment'[p] = payment[p] \/ CanPayTransition(payment[p], payment'[p])
<1> USE MessagesAssumption DEF PaymentsTypeOK, DeliveriesKnown
<1>1. ASSUME NEW c \in Creates, CreateStep(c)
      PROVE  payment'[p] = payment[p]
  BY <1>1 DEF CreateStep, LoadForPayment, LockForPayment, InsertPayment, CreatesInOrder
<1>2. ASSUME NEW d \in Deliveries, ApplyResult(d)
      PROVE  payment'[p] = payment[p] \/ CanPayTransition(payment[p], payment'[p])
  BY <1>2, ApplyMoves
<1>3. ASSUME NEW d \in Deliveries, Settle(d)
      PROVE  payment'[p] = payment[p] \/ CanPayTransition(payment[p], payment'[p])
  <2>1. message[d].payment \in Creates /\ payment[message[d].payment] \in ActivePayment
    BY <1>3 DEF Settle, SettlesUnderLock
  <2>2. payment' = [payment EXCEPT ![message[d].payment] = "paid"]
    BY <1>3 DEF Settle
  <2>3. CanPayTransition(payment[message[d].payment], "paid")
    BY <2>1 DEF CanPayTransition, PaymentTransitions, ActivePayment
  <2>4. QED  BY <2>1, <2>2, <2>3
<1>4. CASE UNCHANGED payment
  BY <1>4
<1>5. QED
  BY <1>1, <1>2, <1>3, <1>4
  DEF PaymentsNext, WebhookStep, InsertEvent, Receive, Meanwhile, MarkPaidAtVenue,
      ChangeStatus, CancelReservation, paymentsVars

\* The event a step stores as processed is that of a delivery whose result the
\* payment has, after the step.
LEMMA NewlyProcessed ==
    ASSUME PaymentsTypeOK, DeliveriesKnown, SettlesUnderLock, [PaymentsNext]_paymentsVars,
           NEW m \in Messages, m.event \in processed', m.event \notin processed
    PROVE  payment'[m.payment] \in AtOrBeyond(m.result)
<1> USE MessagesAssumption DEF PaymentsTypeOK, DeliveriesKnown
<1>1. ASSUME NEW d \in Deliveries, ApplyResult(d)
      PROVE  payment'[m.payment] \in AtOrBeyond(m.result)
  <2>1. message[d] \in Messages /\ payment[message[d].payment] \in PaymentStatus
    BY <1>1 DEF ApplyResult
  <2>2. Acknowledge(d)
    BY <1>1 DEF ApplyResult, Fail
  <2>3. m = message[d]
    BY <2>1, <2>2, EventsAssumption DEF Acknowledge
  <2>4. /\ \/ CanPayTransition(payment[m.payment], m.result)
           \/ payment[m.payment] = m.result /\ payment[m.payment] \notin ActivePayment
        /\ payment'[m.payment] = m.result
    BY <1>1, <2>1, <2>2, <2>3 DEF ApplyResult, Fail, Acknowledge
  <2>5. QED  BY <2>1, <2>3, <2>4, BeyondReached
<1>2. ASSUME NEW d \in Deliveries, Settle(d)
      PROVE  payment'[m.payment] \in AtOrBeyond(m.result)
  <2>1. message[d] \in Messages /\ message[d].result = "paid"
    BY <1>2 DEF Settle, SettlesUnderLock
  <2>2. m = message[d]
    BY <1>2, <2>1, EventsAssumption DEF Settle, Acknowledge
  <2>3. payment'[m.payment] = "paid"
    BY <1>2, <2>1, <2>2 DEF Settle
  <2>4. QED  BY <2>1, <2>2, <2>3, BeyondByResult
<1>3. CASE UNCHANGED processed
  BY <1>3
<1>4. QED
  BY <1>1, <1>2, <1>3
  DEF PaymentsNext, CreateStep, LoadForPayment, LockForPayment, InsertPayment, WebhookStep,
      InsertEvent, Receive, Meanwhile, MarkPaidAtVenue, ChangeStatus, CancelReservation,
      paymentsVars, webhookVars

----------------------------------------------------------------------------
(* The theorems *)

\* The inductive invariant of the payments holds in every reachable state.
THEOREM PaymentsInvariant == PaymentsSpec => []PaymentsInv
<1>1. PaymentsInit => PaymentsInv
  <2>1. SUFFICES ASSUME PaymentsInit PROVE PaymentsInv
    OBVIOUS
  <2>2. CreatesInOrder /\ DeliveriesKnown
    BY <2>1, PaymentNamesAssumption DEF PaymentsInit, CreatesInOrder, DeliveriesKnown
  <2>3. OneActivePayment /\ CollectedIsWrittenThrough /\ PaidIsNotPending
    BY <2>1 DEF PaymentsInit, OneActivePayment, CollectedIsWrittenThrough, Collected,
       PaidIsNotPending
  <2>4. QED
    BY <2>1, <2>2, <2>3, PaymentsInitTyped DEF PaymentsInv
<1>2. PaymentsInv /\ [PaymentsNext]_paymentsVars => PaymentsInv'
  BY PaymentsStepTyped, StepDeliveriesKnown, StepCreates, StepWrittenThrough,
     StepPaidNotPending DEF PaymentsInv
<1>3. QED
  BY <1>1, <1>2, PTL DEF PaymentsSpec

\* A reservation never has two payments in flight: the lookup under the
\* reservation lock is enough, the partial unique index never refuses.
THEOREM AtMostOneInFlight == PaymentsSpec => []OneActivePayment
<1>1. PaymentsInv => OneActivePayment
  BY DEF PaymentsInv
<1>2. QED
  BY <1>1, PaymentsInvariant, PTL

\* Collected money is always visible on the reservation, and a reservation said
\* to be paid through the provider has a collected payment.
THEOREM TablesAgree == PaymentsSpec => []CollectedIsWrittenThrough
<1>1. PaymentsInv => CollectedIsWrittenThrough
  BY DEF PaymentsInv
<1>2. QED
  BY <1>1, PaymentsInvariant, PTL

\* A paid reservation never waits for approval.
THEOREM PaidNeverPending == PaymentsSpec => []PaidIsNotPending
<1>1. PaymentsInv => PaidIsNotPending
  BY DEF PaymentsInv
<1>2. QED
  BY <1>1, PaymentsInvariant, PTL

\* Collected money is never forgotten, in whatever order messages arrive.
THEOREM CollectedForGood == PaymentsSpec => CollectedStays
<1> DEFINE Kept == \A p \in Creates :
             p \in Collected => payment'[p] \in {"paid", "partially_refunded", "refunded"}
<1>1. ASSUME PaymentsInv, [PaymentsNext]_paymentsVars
      PROVE  Kept
  <2> USE <1>1 DEF PaymentsInv
  <2>1. ASSUME NEW c \in Creates, CreateStep(c)
        PROVE  Kept
    BY <2>1 DEF CreateStep, LoadForPayment, LockForPayment, InsertPayment, Collected,
       CreatesInOrder, PaymentsTypeOK
  <2>2. ASSUME NEW d \in Deliveries, ApplyResult(d)
        PROVE  Kept
    BY <2>2, CollectedByWebhook DEF Collected
  <2>3. ASSUME NEW d \in Deliveries, Settle(d)
        PROVE  Kept
    BY <2>3 DEF Settle, Collected, PaymentsTypeOK
  <2>4. CASE UNCHANGED payment
    BY <2>4 DEF Collected
  <2>5. QED
    BY <2>1, <2>2, <2>3, <2>4
    DEF PaymentsNext, WebhookStep, InsertEvent, Receive, Meanwhile, MarkPaidAtVenue,
        ChangeStatus, CancelReservation, paymentsVars
<1>2. PaymentsInv /\ [PaymentsNext]_paymentsVars => [Kept]_paymentsVars
  BY <1>1
<1>3. QED
  BY <1>2, PaymentsInvariant, PTL DEF PaymentsSpec, CollectedStays

\* An event that is stored as processed has really taken effect: no settlement
\* overwrites what another webhook did meanwhile, because the payment is locked
\* from the check of its move to the commit.
THEOREM ProcessedIsApplied == PaymentsSpec => []ProcessedTookEffect
<1>1. PaymentsInit => SettlesUnderLock /\ ProcessedTookEffect
  BY DEF PaymentsInit, SettlesUnderLock, ProcessedTookEffect
<1>2. ASSUME PaymentsInv, PaymentsInv', SettlesUnderLock, ProcessedTookEffect,
             [PaymentsNext]_paymentsVars
      PROVE  SettlesUnderLock' /\ ProcessedTookEffect'
  <2> USE <1>2 DEF PaymentsInv
  <2>1. SettlesUnderLock'
    BY SettlesKept
  <2>2. ASSUME NEW m \in Messages, m.event \in processed'
        PROVE  payment'[m.payment] \in AtOrBeyond(m.result)
    <3>1. CASE m.event \notin processed
      BY <2>2, <3>1, NewlyProcessed
    <3>2. CASE m.event \in processed
      <4>1. m.payment \in Creates /\ m.result \in PaymentStatus
        BY MessagesAssumption
      <4>2. payment[m.payment] \in AtOrBeyond(m.result)
        BY <3>2 DEF ProcessedTookEffect
      <4>3. payment[m.payment] \in PaymentStatus
        BY <4>1, <4>2, BeyondByResult DEF PaymentStatus
      <4>4. payment'[m.payment] \in PaymentStatus \cup {"none"}
        BY <4>1 DEF PaymentsTypeOK
      <4>5. \/ payment'[m.payment] = payment[m.payment]
            \/ CanPayTransition(payment[m.payment], payment'[m.payment])
        BY <4>1, <4>3, PaymentsFollowTable DEF PaymentStatus
      <4>6. CASE payment'[m.payment] = payment[m.payment]
        BY <4>2, <4>6
      <4>7. CASE CanPayTransition(payment[m.payment], payment'[m.payment])
        <5>1. payment'[m.payment] \in PaymentStatus
          BY <4>3, <4>4, <4>7 DEF CanPayTransition, PaymentTransitions, PaymentStatus
        <5>2. QED  BY <4>1, <4>2, <4>3, <4>7, <5>1, BeyondKept
      <4>8. QED  BY <4>5, <4>6, <4>7
    <3>3. QED  BY <3>1, <3>2
  <2>3. QED  BY <2>1, <2>2 DEF ProcessedTookEffect
<1>3. PaymentsInv /\ PaymentsInv' /\ SettlesUnderLock /\ ProcessedTookEffect
        /\ [PaymentsNext]_paymentsVars => SettlesUnderLock' /\ ProcessedTookEffect'
  BY <1>2
<1>4. QED
  BY <1>1, <1>3, PaymentsInvariant, PTL DEF PaymentsSpec

------------------------------------------------------------------------------
(* Nobody waits in a circle *)

\* A webhook holds the event it inserted until its transaction ends, and the
\* payment from the result until the reservation is settled.
WebhookLocks ==
    /\ \A e \in Events, d \in Deliveries :
          eventLock[e] = d <=> delivery[d] \in {"inserted", "paying"} /\ message[d].event = e
    /\ \A p \in Creates, d \in Deliveries :
          paymentLock[p] = d <=> delivery[d] = "paying" /\ message[d].payment = p

\* What a transaction has to wait for is free, or it waits for nothing.
CreateGoesOn(c) == \/ creating[c] = "locked"
                   \/ creating[c] = "loaded" /\ rowLock[target[c]] = Nobody
WebhookGoesOn(d) == \/ delivery[d] = "received" /\ eventLock[message[d].event] = Nobody
                    \/ delivery[d] = "inserted" /\ paymentLock[message[d].payment] = Nobody
                    \/ delivery[d] = "paying" /\ rowLock[target[message[d].payment]] = Nobody

\* Whoever cannot go on waits for a transaction that is further: events are
\* waited for before payments, payments before reservations, and a create that
\* holds its reservation waits for nothing.  So somebody always goes on.
NoCircularWait ==
    /\ \A c \in Creates : creating[c] = "loaded" =>
          CreateGoesOn(c) \/ \E h \in Creates : rowLock[target[c]] = h /\ creating[h] = "locked"
    /\ \A d \in Deliveries :
          /\ delivery[d] = "received" =>
                \/ WebhookGoesOn(d)
                \/ \E h \in Deliveries : /\ eventLock[message[d].event] = h
                                         /\ delivery[h] \in {"inserted", "paying"}
          /\ delivery[d] = "inserted" =>
                \/ WebhookGoesOn(d)
                \/ \E h \in Deliveries : /\ paymentLock[message[d].payment] = h
                                         /\ delivery[h] = "paying"
          /\ delivery[d] = "paying" =>
                \/ WebhookGoesOn(d)
                \/ \E h \in Creates : /\ rowLock[target[message[d].payment]] = h
                                      /\ creating[h] = "locked"
    /\ (\/ \E c \in Creates : creating[c] \in {"loaded", "locked"}
        \/ \E d \in Deliveries : delivery[d] \in {"received", "inserted", "paying"})
          => (\E c \in Creates : CreateGoesOn(c)) \/ \E d \in Deliveries : WebhookGoesOn(d)

\* Every step keeps the locks with the webhooks that hold them.
LEMMA StepWebhookLocks ==
    ASSUME PaymentsInv, WebhookLocks, [PaymentsNext]_paymentsVars
    PROVE  WebhookLocks'
<1> USE PaymentNamesAssumption, MessagesAssumption
    DEF PaymentsInv, PaymentsTypeOK, DeliveriesKnown, WebhookLocks
<1>1. CASE UNCHANGED <<delivery, message, eventLock, paymentLock>>
  BY <1>1
<1>2. ASSUME NEW d \in Deliveries, Release(d), NEW to \in {"acknowledged", "failed"},
             delivery' = [delivery EXCEPT ![d] = to]
      PROVE  WebhookLocks'
  BY <1>2 DEF Release
<1>3. ASSUME NEW d \in Deliveries, InsertEvent(d)
      PROVE  WebhookLocks'
  <2>1. message[d].event \in Events
    BY <1>3 DEF InsertEvent, Events
  <2> QED
    BY <1>3, <2>1 DEF InsertEvent
<1>4. ASSUME NEW d \in Deliveries, ApplyResult(d)
      PROVE  WebhookLocks'
  <2>1. CASE Acknowledge(d) \/ Fail(d)
    BY <1>2, <2>1 DEF Acknowledge, Fail
  <2>2. CASE ~(Acknowledge(d) \/ Fail(d))
    <3>1. /\ delivery[d] = "inserted" /\ paymentLock[message[d].payment] = Nobody
          /\ paymentLock' = [paymentLock EXCEPT ![message[d].payment] = d]
          /\ delivery' = [delivery EXCEPT ![d] = "paying"]
          /\ UNCHANGED <<message, eventLock>>
      BY <1>4, <2>2 DEF ApplyResult
    <3>2. message[d].payment \in Creates
      BY <3>1
    <3> QED
      BY <3>1, <3>2
  <2> QED
    BY <2>1, <2>2
<1>5. ASSUME NEW d \in Deliveries, Settle(d)
      PROVE  WebhookLocks'
  BY <1>2, <1>5 DEF Settle, Acknowledge
<1>6. ASSUME NEW d \in Deliveries, NEW m \in Messages, Receive(d, m)
      PROVE  WebhookLocks'
  BY <1>6 DEF Receive
<1> QED
  BY <1>1, <1>3, <1>4, <1>5, <1>6
  DEF PaymentsNext, CreateStep, LoadForPayment, LockForPayment, InsertPayment, WebhookStep,
      Meanwhile, MarkPaidAtVenue, ChangeStatus, CancelReservation, paymentsVars, webhookVars

\* PaymentService locks the reservation alone to create a payment, and event,
\* payment and reservation in that order to apply a webhook: no set of these
\* transactions ever waits in a circle.
THEOREM PaymentsNeverDeadlock == PaymentsSpec => []NoCircularWait
<1>1. PaymentsInit => WebhookLocks
  BY PaymentNamesAssumption DEF PaymentsInit, WebhookLocks
<1>2. PaymentsInv /\ WebhookLocks /\ [PaymentsNext]_paymentsVars => WebhookLocks'
  BY StepWebhookLocks
<1>3. PaymentsInv /\ WebhookLocks => NoCircularWait
  <2> SUFFICES ASSUME PaymentsInv, WebhookLocks PROVE NoCircularWait
    OBVIOUS
  <2> USE PaymentNamesAssumption, MessagesAssumption
      DEF PaymentsInv, PaymentsTypeOK, DeliveriesKnown, CreateGoesOn, WebhookGoesOn
  <2>1. ASSUME NEW c \in Creates, creating[c] = "loaded"
        PROVE  \/ CreateGoesOn(c)
               \/ \E h \in Creates : rowLock[target[c]] = h /\ creating[h] = "locked"
    BY <2>1 DEF CreatesInOrder
  <2>2. ASSUME NEW d \in Deliveries, delivery[d] = "received"
        PROVE  \/ WebhookGoesOn(d)
               \/ \E h \in Deliveries : /\ eventLock[message[d].event] = h
                                        /\ delivery[h] \in {"inserted", "paying"}
    <3>1. message[d].event \in Events
      BY <2>2 DEF Events
    <3> QED
      BY <2>2, <3>1 DEF WebhookLocks
  <2>3. ASSUME NEW d \in Deliveries, delivery[d] = "inserted"
        PROVE  \/ WebhookGoesOn(d)
               \/ \E h \in Deliveries : /\ paymentLock[message[d].payment] = h
                                        /\ delivery[h] = "paying"
    BY <2>3 DEF WebhookLocks
  <2>4. ASSUME NEW d \in Deliveries, delivery[d] = "paying"
        PROVE  \/ WebhookGoesOn(d)
               \/ \E h \in Creates : /\ rowLock[target[message[d].payment]] = h
                                     /\ creating[h] = "locked"
    BY <2>4 DEF CreatesInOrder
  <2>5. ASSUME \/ \E c \in Creates : creating[c] \in {"loaded", "locked"}
               \/ \E d \in Deliveries : delivery[d] \in {"received", "inserted", "paying"}
        PROVE  (\E c \in Creates : CreateGoesOn(c)) \/ \E d \in Deliveries : WebhookGoesOn(d)
    BY <2>1, <2>2, <2>3, <2>4, <2>5
  <2> HIDE DEF PaymentsInv, PaymentsTypeOK, DeliveriesKnown, CreateGoesOn, WebhookGoesOn
  <2> QED
    BY <2>1, <2>2, <2>3, <2>4, <2>5 DEF NoCircularWait
<1> QED
  BY PaymentsInvariant, <1>1, <1>2, <1>3, PTL DEF PaymentsSpec

------------------------------------------------------------------------------
(* The payments implement the settlement *)

\* An event that a webhook is about to apply has not taken effect.
FirstToApply ==
    \A d \in Deliveries : delivery[d] \in {"inserted", "paying"} =>
        message[d].event \notin processed

\* The lock on the event's row keeps every other webhook from applying it meanwhile.
LEMMA StepFirstToApply ==
    ASSUME PaymentsInv, WebhookLocks, FirstToApply, [PaymentsNext]_paymentsVars
    PROVE  FirstToApply'
<1> USE PaymentNamesAssumption, MessagesAssumption
    DEF PaymentsInv, PaymentsTypeOK, DeliveriesKnown, FirstToApply
<1>1. CASE UNCHANGED <<delivery, message, processed>>
  BY <1>1
<1>2. ASSUME NEW d \in Deliveries, message' = message, NEW to \in {"acknowledged", "failed"},
             delivery[d] \in {"inserted", "paying"}, delivery' = [delivery EXCEPT ![d] = to],
             processed' \in {processed, processed \cup {message[d].event}}
      PROVE  FirstToApply'
  <2>1. ASSUME NEW e \in Deliveries, e # d, delivery[e] \in {"inserted", "paying"}
        PROVE  message[e].event # message[d].event
    <3>1. message[e].event \in Events /\ message[d].event \in Events
      BY <1>2, <2>1 DEF Events
    <3>2. QED
      BY <1>2, <2>1, <3>1 DEF WebhookLocks
  <2>2. QED
    BY <1>2, <2>1
<1>3. ASSUME NEW d \in Deliveries, InsertEvent(d)
      PROVE  FirstToApply'
  BY <1>3 DEF InsertEvent
<1>4. ASSUME NEW d \in Deliveries, ApplyResult(d)
      PROVE  FirstToApply'
  <2>1. CASE Acknowledge(d)
    BY <1>2, <1>4, <2>1 DEF ApplyResult, Acknowledge, Release
  <2>2. CASE Fail(d)
    BY <1>2, <1>4, <2>2 DEF ApplyResult, Fail, Release
  <2>3. CASE /\ delivery' = [delivery EXCEPT ![d] = "paying"]
             /\ UNCHANGED <<message, processed>>
    BY <1>4, <2>3 DEF ApplyResult
  <2>4. QED
    BY <1>4, <2>1, <2>2, <2>3 DEF ApplyResult
<1>5. ASSUME NEW d \in Deliveries, Settle(d)
      PROVE  FirstToApply'
  BY <1>2, <1>5 DEF Settle, Acknowledge, Release
<1>6. ASSUME NEW d \in Deliveries, NEW m \in Messages, Receive(d, m)
      PROVE  FirstToApply'
  BY <1>6 DEF Receive
<1>7. QED
  BY <1>1, <1>3, <1>4, <1>5, <1>6
  DEF PaymentsNext, CreateStep, LoadForPayment, LockForPayment, InsertPayment, WebhookStep,
      Meanwhile, MarkPaidAtVenue, ChangeStatus, CancelReservation, paymentsVars, webhookVars

\* The stages, status by status.
LEMMA StageByStatus ==
    /\ StageOf("none") = "none"
    /\ StageOf("pending") = "open" /\ StageOf("processing") = "open"
    /\ StageOf("paid") = "collected" /\ StageOf("partially_refunded") = "collected"
    /\ StageOf("refunded") = "returned"
    /\ StageOf("failed") = "void" /\ StageOf("cancelled") = "void"
BY DEF StageOf

\* A move of the table that does not collect the payment moves its stage as the
\* settlement allows, or is inside of a stage.
LEMMA TableFollowsStages ==
    ASSUME NEW from \in PaymentStatus, NEW to \in PaymentStatus,
           CanPayTransition(from, to), to # "paid"
    PROVE  \/ StageOf(to) = StageOf(from)
           \/ StageOf(to) \in Promised!Leads[StageOf(from)] \ {"open", "collected"}
BY StageByStatus DEF CanPayTransition, PaymentTransitions, PaymentStatus, Promised!Leads

\* One payment changes, and its stage with it.
LEMMA StageChanges ==
    ASSUME PaymentsTypeOK, NEW p \in Creates, NEW s, payment' = [payment EXCEPT ![p] = s]
    PROVE  stageNow' = [stageNow EXCEPT ![p] = StageOf(s)]
BY DEF stageNow, PaymentsTypeOK

\* A webhook that commits another result than "paid" is a notice taking effect.
LEMMA ApplyLearns ==
    ASSUME PaymentsInv, FirstToApply, NEW d \in Deliveries, ApplyResult(d)
    PROVE  \/ UNCHANGED <<stageNow, target, paidNow, waitingNow, processed>>
           \/ Promised!Learn(NoticeOf(message[d]))
<1> USE DEF PaymentsInv
<1> DEFINE n == NoticeOf(message[d])
           p == message[d].payment
           result == message[d].result
<1>1. /\ message[d] \in Messages /\ p \in Creates /\ result \in PaymentStatus
      /\ message[d].event \notin processed
      /\ payment[p] \in PaymentStatus
  BY MessagesAssumption DEF ApplyResult, DeliveriesKnown, FirstToApply, PaymentsTypeOK
<1>2. UNCHANGED <<target, paidNow, waitingNow>>
  BY DEF ApplyResult, reservationVars, createVars, paidNow, waitingNow
<1>3. n.event = message[d].event /\ n.payment = p /\ n.stage = StageOf(result)
  BY DEF NoticeOf
<1>4. CASE payment' = payment /\ processed' = processed
  BY <1>2, <1>4 DEF stageNow
<1>5. CASE payment[p] = result /\ Acknowledge(d) /\ payment' = payment
  <2>1. stageNow' = stageNow /\ stageNow[p] = n.stage
    BY <1>1, <1>3, <1>5 DEF stageNow
  <2>2. QED
    BY <1>1, <1>2, <1>3, <1>5, <2>1 DEF Promised!Learn, Acknowledge
<1>6. CASE /\ CanPayTransition(payment[p], result) /\ result # "paid"
           /\ payment' = [payment EXCEPT ![p] = result]
           /\ Acknowledge(d)
  <2>1. stageNow' = [stageNow EXCEPT ![p] = n.stage]
    BY <1>1, <1>3, <1>6, StageChanges
  <2>2. stageNow[p] = StageOf(payment[p])
    BY <1>1 DEF stageNow
  <2>3. \/ stageNow[p] = n.stage
        \/ n.stage \in Promised!Leads[stageNow[p]] \ {"open", "collected"}
    BY <1>1, <1>3, <1>6, <2>2, TableFollowsStages
  <2>4. stageNow[p] = n.stage => stageNow' = stageNow
    BY <2>1 DEF stageNow
  <2>5. processed' = processed \cup {n.event}
    BY <1>3, <1>6 DEF Acknowledge
  <2> HIDE DEF n, p, result
  <2>6. Promised!Learn(n)
    BY <1>1, <1>2, <1>3, <2>1, <2>3, <2>4, <2>5 DEF Promised!Learn
  <2>7. QED
    BY <2>6 DEF n
<1>7. QED
  BY <1>4, <1>5, <1>6 DEF ApplyResult, Fail

\* A settlement collects the payment that it has locked.
LEMMA SettleCollects ==
    ASSUME PaymentsInv, SettlesUnderLock, FirstToApply, NEW d \in Deliveries, Settle(d)
    PROVE  Promised!Collect(NoticeOf(message[d]))
<1> USE DEF PaymentsInv
<1> DEFINE n == NoticeOf(message[d])
           p == message[d].payment
<1>1. /\ message[d] \in Messages /\ p \in Creates
      /\ message[d].event \notin processed
      /\ message[d].result = "paid" /\ payment[p] \in ActivePayment
      /\ target[p] \in Rows
  BY MessagesAssumption
  DEF Settle, DeliveriesKnown, FirstToApply, SettlesUnderLock, PaymentsTypeOK
<1>2. n.event = message[d].event /\ n.payment = p /\ n.stage = "collected"
  BY <1>1, StageByStatus DEF NoticeOf
<1>3. stageNow[p] = "open"
  BY <1>1, StageByStatus DEF stageNow, ActivePayment
<1>4. stageNow' = [stageNow EXCEPT ![p] = "collected"]
  <2>1. payment' = [payment EXCEPT ![p] = "paid"]
    BY DEF Settle
  <2>2. stageNow' = [stageNow EXCEPT ![p] = StageOf("paid")]
    BY <1>1, <2>1, StageChanges
  <2>3. QED
    BY <2>2, StageByStatus
<1>5. paidNow' = paidNow \cup {target[p]} /\ waitingNow' = waitingNow \ {target[p]}
  BY <1>1 DEF Settle, PaymentsTypeOK, paidNow, waitingNow
<1>6. processed' = processed \cup {n.event} /\ target' = target
  BY <1>2 DEF Settle, Acknowledge, createVars
<1> HIDE DEF n, p
<1>7. Promised!Collect(n)
  BY <1>1, <1>2, <1>3, <1>4, <1>5, <1>6 DEF Promised!Collect
<1>8. QED
  BY <1>7 DEF n

\* An insert opens a payment, or was rolled back.
LEMMA InsertOpens ==
    ASSUME PaymentsInv, NEW c \in Creates, InsertPayment(c)
    PROVE  \/ UNCHANGED <<stageNow, target, paidNow, waitingNow, processed>>
           \/ Promised!Open(c)
<1> USE DEF PaymentsInv
<1>1. UNCHANGED <<target, paidNow, waitingNow, processed>>
  BY DEF InsertPayment, reservationVars, webhookVars, paidNow, waitingNow
<1>2. CASE payment' = payment
  BY <1>1, <1>2 DEF stageNow
<1>3. CASE payment' = [payment EXCEPT ![c] = "pending"]
  <2>1. payment[c] = "none" /\ ActiveOf(target[c]) = {}
    BY DEF InsertPayment, CreatesInOrder
  <2>2. \A q \in Creates : payment[q] \in PaymentStatus \cup {"none"}
    BY DEF PaymentsTypeOK
  <2>3. \A q \in Creates : stageNow[q] = "open" => payment[q] \in ActivePayment
    BY <2>2, StageByStatus DEF stageNow, ActivePayment, PaymentStatus
  <2>4. Promised!OpenFor(target[c]) = {}
    BY <2>1, <2>3 DEF Promised!OpenFor, ActiveOf
  <2>5. stageNow[c] = "none"
    BY <2>1, StageByStatus DEF stageNow
  <2>6. stageNow' = [stageNow EXCEPT ![c] = "open"]
    BY <1>3, StageChanges, StageByStatus
  <2>7. QED
    BY <1>1, <2>4, <2>5, <2>6 DEF Promised!Open
<1>4. QED
  BY <1>2, <1>3 DEF InsertPayment, PaymentsTypeOK

\* What happens to a reservation meanwhile is a payment at the venue or the end
\* of its wait.
LEMMA MeanwhileAllowed ==
    ASSUME PaymentsInv, NEW r \in Rows, Meanwhile(r)
    PROVE  Promised!PayAtVenue(r) \/ Promised!EndWait(r)
<1> USE DEF PaymentsInv, PaymentsTypeOK
<1>1. CASE MarkPaidAtVenue(r)
  BY <1>1 DEF MarkPaidAtVenue, Promised!PayAtVenue, stageNow, paidNow, waitingNow, createVars,
     webhookVars
<1>2. ASSUME NEW to \in Status, to # "pending", status' = [status EXCEPT ![r] = to],
             UNCHANGED <<paymentStatus, payment, target, processed>>
      PROVE  Promised!EndWait(r)
  BY <1>2 DEF Promised!EndWait, stageNow, paidNow, waitingNow
<1>3. ASSUME NEW to \in Status, ChangeStatus(r, to)
      PROVE  Promised!EndWait(r)
  <2>1. to # "pending"
    BY <1>3, NeverPendingAgain DEF ChangeStatus
  <2>2. QED
    BY <1>2, <1>3, <2>1 DEF ChangeStatus, createVars, webhookVars
<1>4. CASE CancelReservation(r)
  BY <1>2, <1>4 DEF CancelReservation, Status, createVars, webhookVars
<1>5. QED
  BY <1>1, <1>3, <1>4 DEF Meanwhile

\* Every behaviour of Payments is one of the settlement: whatever is repeated,
\* reordered, refused or rolled back, a notice takes effect at most once, and in
\* the payment, its reservation and the list of processed events together.
THEOREM PaymentsImplementSettlement == PaymentsSpec => ImplementsSettlement
<1> DEFINE Inv == PaymentsInv /\ SettlesUnderLock /\ WebhookLocks /\ FirstToApply
<1>1. PaymentsInit => SettlesUnderLock /\ WebhookLocks /\ FirstToApply
  BY PaymentNamesAssumption DEF PaymentsInit, SettlesUnderLock, WebhookLocks, FirstToApply
<1>2. Inv /\ [PaymentsNext]_paymentsVars => SettlesUnderLock' /\ WebhookLocks' /\ FirstToApply'
  BY SettlesKept, StepWebhookLocks, StepFirstToApply DEF PaymentsInv
<1>3. PaymentsInit => Promised!SettlementInit
  BY StageByStatus
  DEF PaymentsInit, Promised!SettlementInit, stageNow, paidNow, waitingNow
<1>4. Inv /\ [PaymentsNext]_paymentsVars
        => [Promised!SettlementNext]_<<stageNow, target, paidNow, waitingNow, processed>>
  <2> SUFFICES ASSUME Inv, [PaymentsNext]_paymentsVars
               PROVE  \/ Promised!SettlementNext
                      \/ UNCHANGED <<stageNow, target, paidNow, waitingNow, processed>>
    OBVIOUS
  <2>1. CASE UNCHANGED <<payment, target, paymentStatus, status, processed>>
    BY <2>1 DEF stageNow, paidNow, waitingNow
  <2>2. ASSUME NEW c \in Creates, InsertPayment(c)
        PROVE  \/ Promised!SettlementNext
               \/ UNCHANGED <<stageNow, target, paidNow, waitingNow, processed>>
    BY <2>2, InsertOpens DEF Promised!SettlementNext
  <2>3. ASSUME NEW d \in Deliveries, ApplyResult(d) \/ Settle(d)
        PROVE  \/ Promised!SettlementNext
               \/ UNCHANGED <<stageNow, target, paidNow, waitingNow, processed>>
    <3>1. message[d] \in Messages
      BY <2>3 DEF ApplyResult, Settle, PaymentsInv, DeliveriesKnown
    <3>2. NoticeOf(message[d]) \in {NoticeOf(m) : m \in Messages}
      BY <3>1
    <3>3. QED
      BY <2>3, <3>2, ApplyLearns, SettleCollects DEF Promised!SettlementNext
  <2>4. ASSUME NEW r \in Rows, Meanwhile(r)
        PROVE  Promised!SettlementNext
    BY <2>4, MeanwhileAllowed DEF Promised!SettlementNext
  <2>5. QED
    BY <2>1, <2>2, <2>3, <2>4
    DEF PaymentsNext, CreateStep, LoadForPayment, LockForPayment, WebhookStep, InsertEvent,
        Receive, paymentsVars, reservationVars, createVars, webhookVars
<1>5. QED
  BY <1>1, <1>2, <1>3, <1>4, PaymentsInvariant, PTL
  DEF PaymentsSpec, ImplementsSettlement, Promised!SettlementSpec, Promised!settlementVars
==============================================================================
