------------------------------ MODULE Payments ------------------------------
(***************************************************************************)
(* Paying for reservations: customers create payments, the provider's      *)
(* webhooks move them, and a paid one is written through to its            *)
(* reservation, while staff and customers change the same reservation.     *)
(*                                                                         *)
(* A payment row is named by the create request that inserts it.  Both     *)
(* handlers are transactions of several steps that lock rows in opposite   *)
(* orders: a create locks the reservation and looks at its payments, a     *)
(* webhook locks its event, then the payment, then the reservation.        *)
(* Webhooks arrive in any order and any number of times.                   *)
(***************************************************************************)
EXTENDS ReservationStatus, FiniteSets

CONSTANTS
    Rows,        \* reservations
    Creates,     \* runs of createPayment, and the payments they insert
    Deliveries,  \* runs of the webhook action
    Messages,    \* what the provider sends: [event, payment, result]
    NoMessage,   \* nothing received yet
    Nobody       \* no transaction holds the lock

\* The cases of the PaymentStatus enum.
PaymentStatus == {"pending", "processing", "paid", "failed", "cancelled",
                  "refunded", "partially_refunded"}

ASSUME PaymentNamesAssumption ==
    Nobody \notin Creates \cup Deliveries /\ NoMessage \notin Messages
ASSUME MessagesAssumption ==
    \A m \in Messages : m.payment \in Creates /\ m.result \in PaymentStatus
\* The provider's id of an event stands for one content.
ASSUME EventsAssumption ==
    \A m, n \in Messages : m.event = n.event => m = n

VARIABLES
    status,         \* status[r]
    paymentStatus,  \* paymentStatus[r]: reservations.payment_status
    method,         \* method[r]: reservations.payment_method
    payment,        \* payment[p]: payments.status, "none" if not inserted
    target,         \* target[p]: payments.reservation_id
    creating,       \* creating[c]: how far the create request is
    rowLock,        \* rowLock[r]: the create that holds the reservation row
    delivery,       \* delivery[d]: how far the webhook call is
    message,        \* message[d]: what it carries
    eventLock,      \* eventLock[e]: the webhook that inserted e, uncommitted
    paymentLock,    \* paymentLock[p]: the webhook that holds the payment row
    processed       \* the events stored with status processed

reservationVars == <<status, paymentStatus, method>>
createVars == <<target, creating, rowLock>>
webhookVars == <<delivery, message, eventLock, paymentLock, processed>>
paymentsVars == <<reservationVars, payment, createVars, webhookVars>>

Events == {m.event : m \in Messages}

\* Variant: the lookup of an active payment forgets the ones in processing.
OnlyPending == {"pending"}

\* PaymentStatus::active(); the other statuses are the terminal ones.
ActivePayment == {"pending", "processing"}

\* PaymentTransitionService::TRANSITIONS.
PaymentTransitions ==
    [pending            |-> {"processing", "paid", "failed", "cancelled"},
     processing         |-> {"paid", "failed", "cancelled"},
     paid               |-> {"refunded", "partially_refunded"},
     failed             |-> {},
     cancelled          |-> {},
     refunded           |-> {},
     partially_refunded |-> {"refunded"}]

\* Variant: results are taken in the order they arrive.
AnyPaymentTransition(from, to) == from # to

\* PaymentTransitionService::canTransition.
CanPayTransition(from, to) == from # to /\ to \in PaymentTransitions[from]

----------------------------------------------------------------------------

PaymentsInit ==
    /\ status \in [Rows -> {"pending", "confirmed"}]
    /\ paymentStatus = [r \in Rows |-> "pay_at_venue"]
    /\ method = [r \in Rows |-> "venue"]
    /\ payment = [c \in Creates |-> "none"]
    /\ target \in [Creates -> Rows]
    /\ creating = [c \in Creates |-> "idle"]
    /\ rowLock = [r \in Rows |-> Nobody]
    /\ delivery = [d \in Deliveries |-> "idle"]
    /\ message = [d \in Deliveries |-> NoMessage]
    /\ eventLock = [e \in Events |-> Nobody]
    /\ paymentLock = [c \in Creates |-> Nobody]
    /\ processed = {}

(* Creating a payment *)

\* assertReservationPayable on the model the route has loaded.
Payable(r) == status[r] \in {"pending", "confirmed"} /\ paymentStatus[r] # "paid"

LoadForPayment(c) ==
    /\ creating[c] = "idle"
    /\ creating' = [creating EXCEPT ![c] = IF Payable(target[c]) THEN "loaded" ELSE "answered"]
    /\ UNCHANGED <<reservationVars, payment, target, rowLock, webhookVars>>

\* The committed payments of a reservation that are still active.
ActiveOf(r) == {p \in Creates : target[p] = r /\ payment[p] \in ActivePayment}

\* Variant: the reservation is read without FOR UPDATE.
LookForPayment(c) ==
    /\ creating[c] = "loaded"
    /\ \/ /\ ActiveOf(target[c]) # {}
          /\ creating' = [creating EXCEPT ![c] = "answered"]
          /\ UNCHANGED rowLock
       \/ /\ ActiveOf(target[c]) = {}
          /\ creating' = [creating EXCEPT ![c] = "locked"]
          /\ rowLock' = [rowLock EXCEPT ![target[c]] = c]
    /\ UNCHANGED <<reservationVars, payment, target, webhookVars>>

\* The reservation row is locked; an active payment is returned instead of a
\* new one.  Whether the reservation is payable is not asked again.
LockForPayment(c) ==
    /\ creating[c] = "loaded"
    /\ rowLock[target[c]] = Nobody
    /\ \/ /\ ActiveOf(target[c]) # {}
          /\ creating' = [creating EXCEPT ![c] = "answered"]
          /\ UNCHANGED rowLock
       \/ /\ ActiveOf(target[c]) = {}
          /\ creating' = [creating EXCEPT ![c] = "locked"]
          /\ rowLock' = [rowLock EXCEPT ![target[c]] = c]
    /\ UNCHANGED <<reservationVars, payment, target, webhookVars>>

\* The payment is inserted and the provider asked; when the provider refuses,
\* everything is rolled back.
InsertPayment(c) ==
    /\ creating[c] = "locked"
    /\ \E accepted \in BOOLEAN :
          payment' = [payment EXCEPT ![c] = IF accepted THEN "pending" ELSE @]
    /\ rowLock' = [rowLock EXCEPT ![target[c]] = Nobody]
    /\ creating' = [creating EXCEPT ![c] = "answered"]
    /\ UNCHANGED <<reservationVars, target, webhookVars>>

----------------------------------------------------------------------------
(* Webhooks *)

\* The provider speaks of a payment it has been told of.  An event known as
\* processed is acknowledged at once.
Receive(d, m) ==
    /\ delivery[d] = "idle"
    /\ payment[m.payment] # "none"
    /\ message' = [message EXCEPT ![d] = m]
    /\ delivery' = [delivery EXCEPT ![d] =
                      IF m.event \in processed THEN "acknowledged" ELSE "received"]
    /\ UNCHANGED <<reservationVars, payment, createVars, eventLock, paymentLock, processed>>

\* Inserting the event waits for a transaction that inserted the same one; if
\* that committed, the unique index makes this call fail.
InsertEvent(d) ==
    LET e == message[d].event IN
    /\ delivery[d] = "received"
    /\ eventLock[e] = Nobody
    /\ \/ /\ e \in processed
          /\ delivery' = [delivery EXCEPT ![d] = "failed"]
          /\ UNCHANGED eventLock
       \/ /\ e \notin processed
          /\ delivery' = [delivery EXCEPT ![d] = "inserted"]
          /\ eventLock' = [eventLock EXCEPT ![e] = d]
    /\ UNCHANGED <<reservationVars, payment, createVars, message, paymentLock, processed>>

\* The end of the transaction: every lock of the delivery is released.
Release(d) ==
    /\ eventLock' = [e \in Events |-> IF eventLock[e] = d THEN Nobody ELSE eventLock[e]]
    /\ paymentLock' = [p \in Creates |-> IF paymentLock[p] = d THEN Nobody ELSE paymentLock[p]]
    /\ UNCHANGED message

Acknowledge(d) ==
    /\ delivery' = [delivery EXCEPT ![d] = "acknowledged"]
    /\ processed' = processed \cup {message[d].event}
    /\ Release(d)

\* Variant: the event is marked processed although applying it failed.
FailDone(d) ==
    /\ delivery' = [delivery EXCEPT ![d] = "failed"]
    /\ processed' = processed \cup {message[d].event}
    /\ Release(d)

\* Variant: a failure leaves the event row locked.
FailHolding(d) ==
    /\ delivery' = [delivery EXCEPT ![d] = "failed"]
    /\ UNCHANGED <<eventLock, paymentLock, message, processed>>

\* The exception is rethrown inside the transaction: the event row with its
\* status "failed" is rolled back with everything else.
Fail(d) ==
    /\ delivery' = [delivery EXCEPT ![d] = "failed"]
    /\ Release(d)
    /\ UNCHANGED processed

\* applyGatewayResult on the locked payment: the same terminal status again is
\* accepted silently, a move the table does not have is an exception, a paid
\* payment goes on to its reservation, any other result commits.
ApplyResult(d) ==
    LET p == message[d].payment
        result == message[d].result
    IN
    /\ delivery[d] = "inserted"
    /\ paymentLock[p] = Nobody
    /\ \/ /\ payment[p] = result /\ payment[p] \notin ActivePayment
          /\ Acknowledge(d)
          /\ UNCHANGED payment
       \/ /\ ~CanPayTransition(payment[p], result)
          /\ ~(payment[p] = result /\ payment[p] \notin ActivePayment)
          /\ Fail(d)
          /\ UNCHANGED payment
       \/ /\ CanPayTransition(payment[p], result)
          /\ result # "paid"
          /\ payment' = [payment EXCEPT ![p] = result]
          /\ Acknowledge(d)
       \/ /\ CanPayTransition(payment[p], result)
          /\ result = "paid"
          /\ paymentLock' = [paymentLock EXCEPT ![p] = d]
          /\ delivery' = [delivery EXCEPT ![d] = "paying"]
          /\ UNCHANGED <<payment, message, eventLock, processed>>
    /\ UNCHANGED <<reservationVars, createVars>>

\* applyReservationPaymentSuccess: the reservation row is locked, marked paid
\* whatever its status, and confirmed if it was pending.
Settle(d) ==
    LET p == message[d].payment
        r == target[p]
    IN
    /\ delivery[d] = "paying"
    /\ rowLock[r] = Nobody
    /\ payment' = [payment EXCEPT ![p] = "paid"]
    /\ paymentStatus' = [paymentStatus EXCEPT ![r] = "paid"]
    /\ method' = [method EXCEPT ![r] = "mock"]
    /\ status' = [status EXCEPT ![r] = IF @ = "pending" THEN "confirmed" ELSE @]
    /\ Acknowledge(d)
    /\ UNCHANGED createVars

----------------------------------------------------------------------------
(* The reservation meanwhile *)

\* Variant: staff may mark a pending reservation paid, and it stays pending.
MarkPendingPaid(r) ==
    /\ rowLock[r] = Nobody
    /\ paymentStatus[r] # "paid"
    /\ status[r] \in {"pending", "confirmed", "checked_in", "completed"}
    /\ paymentStatus' = [paymentStatus EXCEPT ![r] = "paid"]
    /\ method' = [method EXCEPT ![r] = "venue"]
    /\ UNCHANGED <<status, payment, createVars, webhookVars>>

\* MarkReservationPaidAtVenueAction.  A pending reservation is accepted by the
\* guard, but confirming it names an enum case that does not exist, so the
\* error rolls the payment back: only the other three statuses get through.
MarkPaidAtVenue(r) ==
    /\ rowLock[r] = Nobody
    /\ paymentStatus[r] \in {"pay_at_venue", "unpaid"}
    /\ status[r] \in {"confirmed", "checked_in", "completed"}
    /\ paymentStatus' = [paymentStatus EXCEPT ![r] = "paid"]
    /\ method' = [method EXCEPT ![r] = "venue"]
    /\ UNCHANGED <<status, payment, createVars, webhookVars>>

\* ChangeReservationStatusAction, with its row lock.
ChangeStatus(r, to) ==
    /\ rowLock[r] = Nobody
    /\ CanTransition(status[r], to)
    /\ status' = [status EXCEPT ![r] = to]
    /\ UNCHANGED <<paymentStatus, method, payment, createVars, webhookVars>>

\* Variant: the cancellation saves every column of the model it had loaded.
CancelSavingWholeRow(r) ==
    /\ rowLock[r] = Nobody
    /\ status' = [status EXCEPT ![r] = "cancelled"]
    /\ paymentStatus' = [paymentStatus EXCEPT ![r] = "pay_at_venue"]
    /\ UNCHANGED <<method, payment, createVars, webhookVars>>

\* CancelReservationAction: checked on the model it had loaded (every row is
\* cancellable at first), then the changed columns are written over the row.
\* Its payments are left as they are.
CancelReservation(r) ==
    /\ rowLock[r] = Nobody
    /\ status' = [status EXCEPT ![r] = "cancelled"]
    /\ UNCHANGED <<paymentStatus, method, payment, createVars, webhookVars>>

----------------------------------------------------------------------------

CreateStep(c) == LoadForPayment(c) \/ LockForPayment(c) \/ InsertPayment(c)

WebhookStep(d) == InsertEvent(d) \/ ApplyResult(d) \/ Settle(d)

Meanwhile(r) ==
    \/ MarkPaidAtVenue(r)
    \/ \E to \in Status : ChangeStatus(r, to)
    \/ CancelReservation(r)

PaymentsNext ==
    \/ \E c \in Creates : CreateStep(c)
    \/ \E d \in Deliveries : WebhookStep(d) \/ \E m \in Messages : Receive(d, m)
    \/ \E r \in Rows : Meanwhile(r)

PaymentsSpec == PaymentsInit /\ [][PaymentsNext]_paymentsVars

\* PHP runs a request to its end once it began, and PostgreSQL grants a lock
\* that was released; each delivery takes each lock once.
PaymentsFairSpec ==
    /\ PaymentsSpec
    /\ \A c \in Creates : WF_paymentsVars(LockForPayment(c) \/ InsertPayment(c))
    /\ \A d \in Deliveries : WF_paymentsVars(WebhookStep(d))

----------------------------------------------------------------------------
(* Properties *)

PaymentsTypeOK ==
    /\ status \in [Rows -> Status]
    /\ paymentStatus \in [Rows -> {"pay_at_venue", "paid"}]
    /\ method \in [Rows -> {"venue", "mock"}]
    /\ payment \in [Creates -> PaymentStatus \cup {"none"}]
    /\ target \in [Creates -> Rows]
    /\ creating \in [Creates -> {"idle", "loaded", "locked", "answered"}]
    /\ rowLock \in [Rows -> Creates \cup {Nobody}]
    /\ delivery \in [Deliveries -> {"idle", "received", "inserted", "paying",
                                    "acknowledged", "failed"}]
    /\ message \in [Deliveries -> Messages \cup {NoMessage}]
    /\ eventLock \in [Events -> Deliveries \cup {Nobody}]
    /\ paymentLock \in [Creates -> Deliveries \cup {Nobody}]
    /\ processed \subseteq Events

\* The reservation has at most one payment in flight: the lock on the
\* reservation and the lookup are enough, the partial unique index
\* payments_one_active_per_reservation_idx never has to refuse an insert.
OneActivePayment ==
    \A p, q \in Creates :
        payment[p] \in {"pending", "processing"} /\ payment[q] \in {"pending", "processing"}
            /\ target[p] = target[q] => p = q

\* The payments the customer's money has reached, in whole or in part.
Collected == {p \in Creates : payment[p] \in {"paid", "partially_refunded", "refunded"}}

\* The two tables agree: a reservation with a collected payment says "paid",
\* one that says it was paid through the provider has such a payment, and
\* nothing a stale cancellation or a later mark at the venue writes breaks it.
CollectedIsWrittenThrough ==
    \A r \in Rows :
        /\ \A p \in Collected : target[p] = r => paymentStatus[r] = "paid"
        /\ paymentStatus[r] = "paid" /\ method[r] = "mock" => \E p \in Collected : target[p] = r

\* A payment row exists once its request is answered, the row lock belongs to
\* the create between its lookup and its insert, and what the lookup saw, no
\* active payment, stays true that long.
CreatesInOrder ==
    /\ \A c \in Creates : payment[c] # "none" => creating[c] = "answered"
    /\ \A r \in Rows, c \in Creates :
          rowLock[r] = c <=> creating[c] = "locked" /\ target[c] = r
    /\ \A c \in Creates : creating[c] = "locked" => ActiveOf(target[c]) = {}

\* Every delivery speaks of a payment that exists.
DeliveriesKnown ==
    \A d \in Deliveries :
        delivery[d] # "idle" => message[d] \in Messages /\ payment[message[d].payment] # "none"

\* A paid reservation is never left waiting for approval (and so never expires
\* as a pending one): payment and confirmation are one transaction.
PaidIsNotPending ==
    \A r \in Rows : paymentStatus[r] = "paid" => status[r] # "pending"

\* The inductive invariant: why payments and reservations agree.  One payment
\* at a time follows from the reservation lock and the lookup under it.
PaymentsInv ==
    /\ PaymentsTypeOK
    /\ CreatesInOrder
    /\ DeliveriesKnown
    /\ OneActivePayment
    /\ CollectedIsWrittenThrough
    /\ PaidIsNotPending

\* What a payment may be once a result was applied to it.
AtOrBeyond(result) ==
    IF result \in {"pending", "processing"}
    THEN PaymentStatus \ {"pending"}
    ELSE {result} \cup PaymentTransitions[result]
         \cup UNION {PaymentTransitions[s] : s \in PaymentTransitions[result]}

\* An event that is stored as processed has really taken effect, so the
\* provider may stop repeating it.
ProcessedTookEffect ==
    \A m \in Messages : m.event \in processed => payment[m.payment] \in AtOrBeyond(m.result)

\* Money that was collected is not forgotten because a "failed" or "cancelled"
\* message of the provider overtakes or repeats.
CollectedStays ==
    [][\A p \in Creates : p \in Collected => payment'[p] \in {"paid", "partially_refunded",
                                                             "refunded"}]_paymentsVars

\* Every webhook call that entered the server is answered: event, payment and
\* reservation locks are never waited for in a circle.
EveryDeliveryAnswered ==
    \A d \in Deliveries :
        delivery[d] = "received" ~> delivery[d] \in {"acknowledged", "failed"}

\* tests/Feature/Api/V1/Payment/PaymentApiTest.php, "cannot pay cancelled
\* reservation": no payment comes into being for a cancelled reservation.
CancelledNotPayable ==
    [][\A p \in Creates : payment[p] = "none" /\ payment'[p] # "none"
            => status[target[p]] # "cancelled"]_paymentsVars

----------------------------------------------------------------------------
(* The settlement that is implemented *)

\* The stage of a payment: the difference between pending and processing, and
\* between paid and partially refunded, is the provider's.
StageOf(s) ==
    CASE s = "none" -> "none"
      [] s \in {"pending", "processing"} -> "open"
      [] s \in {"paid", "partially_refunded"} -> "collected"
      [] s = "refunded" -> "returned"
      [] OTHER -> "void"

stageNow == [p \in Creates |-> StageOf(payment[p])]
paidNow == {r \in Rows : paymentStatus[r] = "paid"}
waitingNow == {r \in Rows : status[r] = "pending"}
NoticeOf(m) == [event |-> m.event, payment |-> m.payment, stage |-> StageOf(m.result)]

Promised == INSTANCE Settlement WITH
    Payments <- Creates, Reservations <- Rows, Notices <- {NoticeOf(m) : m \in Messages},
    stage <- stageNow, pays <- target, paid <- paidNow, waiting <- waitingNow,
    applied <- processed

\* Concurrent creates and repeated, reordered or failed webhooks implement the
\* settlement: a webhook that commits is one notice taking effect for the first
\* time, in all its tables at once, and every other step of it is invisible.
ImplementsSettlement == Promised!SettlementSpec

=============================================================================
