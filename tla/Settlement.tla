------------------------------ MODULE Settlement ------------------------------
(***************************************************************************)
(* What the payments of reservations promise, without requests, locks or   *)
(* repeated messages: the provider speaks of a payment in notices, and     *)
(* each notice takes effect at most once and as a whole.  A reservation    *)
(* has one open payment at a time; the step that collects it also marks    *)
(* the reservation paid and ends its wait for approval.  What was          *)
(* collected can only be returned, and a payment that came to nothing      *)
(* stays so.                                                               *)
(***************************************************************************)

CONSTANTS Payments,      \* identities of payments
          Reservations,  \* what they pay for
          Notices        \* [event, payment, stage]: what the provider may say

\* Where a payment can go from each of its stages.
Leads == [none |-> {"open"}, open |-> {"collected", "void"},
          collected |-> {"returned"}, void |-> {}, returned |-> {}]

VARIABLES stage,    \* stage[p]
          pays,     \* pays[p]: the reservation of payment p
          paid,     \* reservations that are marked paid
          waiting,  \* reservations that wait for approval
          applied   \* the events of the notices that took effect

settlementVars == <<stage, pays, paid, waiting, applied>>

SettlementInit ==
    /\ stage = [p \in Payments |-> "none"]
    /\ pays \in [Payments -> Reservations]
    /\ paid = {}
    /\ waiting \subseteq Reservations
    /\ applied = {}

OpenFor(r) == {p \in Payments : stage[p] = "open" /\ pays[p] = r}

\* A payment is opened where the reservation has no open one.
Open(p) ==
    /\ stage[p] = "none"
    /\ OpenFor(pays[p]) = {}
    /\ stage' = [stage EXCEPT ![p] = "open"]
    /\ UNCHANGED <<pays, paid, waiting, applied>>

\* Money arrives: payment, reservation and event change together.
Collect(n) ==
    /\ n.event \notin applied
    /\ n.stage = "collected" /\ stage[n.payment] = "open"
    /\ stage' = [stage EXCEPT ![n.payment] = "collected"]
    /\ paid' = paid \cup {pays[n.payment]}
    /\ waiting' = waiting \ {pays[n.payment]}
    /\ applied' = applied \cup {n.event}
    /\ UNCHANGED pays

\* Any other notice moves its payment one stage, or says what is known.
Learn(n) ==
    /\ n.event \notin applied
    /\ \/ stage[n.payment] = n.stage /\ UNCHANGED stage
       \/ /\ n.stage \in Leads[stage[n.payment]] \ {"open", "collected"}
          /\ stage' = [stage EXCEPT ![n.payment] = n.stage]
    /\ applied' = applied \cup {n.event}
    /\ UNCHANGED <<pays, paid, waiting>>

\* A guest who need not wait pays at the venue.
PayAtVenue(r) ==
    /\ r \notin waiting
    /\ paid' = paid \cup {r}
    /\ UNCHANGED <<stage, pays, waiting, applied>>

\* A reservation is approved, rejected, cancelled or expires: for good.
EndWait(r) ==
    /\ waiting' = waiting \ {r}
    /\ UNCHANGED <<stage, pays, paid, applied>>

SettlementNext ==
    \/ \E p \in Payments : Open(p)
    \/ \E n \in Notices : Collect(n) \/ Learn(n)
    \/ \E r \in Reservations : PayAtVenue(r) \/ EndWait(r)

SettlementSpec == SettlementInit /\ [][SettlementNext]_settlementVars

\* What follows for a reader of the settlement: a reservation has at most one
\* open payment, one whose payment was collected is marked paid, and nobody who
\* paid waits for approval.
Settled ==
    /\ \A p, q \in Payments :
          stage[p] = "open" /\ stage[q] = "open" /\ pays[p] = pays[q] => p = q
    /\ \A p \in Payments : stage[p] \in {"collected", "returned"} => pays[p] \in paid
    /\ paid \cap waiting = {}

===============================================================================
