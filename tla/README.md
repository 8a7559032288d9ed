# Rezera: a verification project

Rezera is a multi-tenant reservation platform: a Laravel (PHP) API on PostgreSQL, a
Flutter client and a Filament back office. Businesses offer resources (courts, tables,
rooms); customers book, pay for and use time slots of them. This directory holds TLA+
modules of its core logic, TLC configurations that check them on small instances, and
TLAPS proofs of what holds for every size. `PROJECT.json` lists components, runs,
theorems, hazards and, for every definition, the source lines it models.

The program runs as many PHP workers (HTTP requests, queue jobs, the scheduler) that
share nothing but the database. All concurrency is therefore between **database
transactions** under READ COMMITTED: a statement sees what was committed when it
started, `SELECT ... FOR UPDATE` and `UPDATE` wait for whoever holds the row, locks last
until commit or rollback, and unique or exclusion constraints wait for, then judge,
concurrent inserts. The models use exactly these rules; one action is the stretch of a
handler between two points where another transaction can come in between.

## Inventory

| Component | State | Operations | Hard behaviour | What makes it correct |
|---|---|---|---|---|
| Reservation creation (`CreateReservationAction`, rules engine, conflict service, table constraints) | `reservations`, row locks on `resources` and `reservations` | book | concurrent requests, settings changing under way, retries with an idempotency key | no double booking; one reservation per key; limits; every request answered |
| Reservation status, check-in, check-out | `status`, timestamps, `reservation_events`, `reservation_sessions` | confirm, reject, cancel, check in, check out, no-show | cancellation decides on a stale model and writes without a lock | transitions follow the table; history explains the status; sessions agree with it |
| Expiry of pending reservations (`reservations:expire-pending`, minutely) | its batch | expire | stale batch, overlapping runs, abort at the first changed row | what was confirmed never expires; overdue does not stay pending |
| Payments | `payments`, `payment_webhook_events`, `reservations.payment_status` | create, webhook, settle, paid at venue | repeated and reordered webhooks, opposite lock orders, two tables | one payment in flight; tables agree; processed means applied |
| Loyalty and referrals | accounts, ledger lines, redemptions, referrals, queued listeners | earn, reverse, redeem, adjust, expire, qualify, award | a sweep on a balance it read without a lock, jobs run again after a crash, awards in two transactions | no update lost, nothing paid twice, a referral is rewarded or known to be lost |
| Subscriptions | `business_subscriptions`, payments of upgrades, queued listeners | subscribe, upgrade, downgrade, cancel, resume, fulfil, hourly command | lists made before rows change, fulfilment long after the request, a command that ends at the first exception | one subscription in force; an end is final; a payment takes effect once |
| Notifications, saved searches | notifications, deliveries, alerts, job queue | notify, deliver, alert, invalidate | crash between send and record, job before commit, a job given to two workers | one notification per key; repeats explained by faults; alerts not silent |
| Booking settings, resources, visibility | `booking_policies`, `resources`, business statuses | update | changes between two statements of a create | the checks hold at the moment of the insert |
| Availability | none (reads) | compute | three formulas for one overlap | agrees with the conflict query and the constraint |
| Promotions, pricing | `promo_codes`, redemptions; none | validate, redeem; split, sum | limits; boundaries of intervals | limits hold; every minute priced once |
| Staff, invitations, verification, QR tokens, reviews | members, requests, tokens, reviews | invite, accept, submit, approve, rotate, moderate | checks on loaded rows, cached rating | one check, one transaction each |
| Authentication, favorites, discovery, calendar, analytics, administration, HTTP layer | own rows or none | CRUD and reads | little interaction | not modelled |

Components interact through the database rows (a payment confirms a reservation, the
visibility of a business decides whether it may be booked), through events dispatched
after commit to queued listeners (a completed visit earns points, a succeeded payment
activates a plan, a status change notifies), and through the scheduler in
`bootstrap/app.php`.

## Modules

| Module | What it models |
|---|---|
| `ReservationStatus` | the eight statuses, the transition table and the sets the code derives from it |
| `Occupancy` | the three formulas that compare time slots, with their buffers |
| `Calendar` | **abstract specification**: per resource a set of disjoint ranges; a range is taken where it meets none, and given up for good |
| `Settlement` | **abstract specification**: notices about payments take effect at most once, in payment and reservation together |
| `Booking` | `CreateReservationAction::execute` as a process per request, and everything that changes a reservation, a setting or a resource meanwhile |
| `ReservationLifecycle` | staff, check-in and check-out, cancellation, and the expiry sweep |
| `Payments` | payment creation, webhooks, settlement, and the reservation meanwhile |
| `Loyalty` | accounts and their ledger, rewards, referrals, the listeners of visits and refunds, the expiry sweep |
| `Subscriptions` | requests of owners, paid upgrades, the hourly lifecycle command |
| `Notifications` | `notifyUser` from listeners and from saved-search evaluations, the delivery job, both queue drivers |
| `Sums` | the SUM of a column, used by `Loyalty` |
| `...Proofs` | theorems about each of the six state machines, about `Sums`, and (`PromisesProofs`) about the two abstract specifications |
| `MC...` | values for the constants of each of them |

Definitions whose comment begins with "Variant:" are not part of any specification. Each
is an operator with one plausible bug, used to see that a property notices it.

### Booking

A request goes `idle -> begun -> locked -> counting -> checked -> answered`; the header
of the module says which statements each step stands for. Code and model:

- `Replay`, `Begin`, `RefuseEarly`: the idempotency lookup, visibility and the advance
  rules, all before the transaction. Rules on the payload alone (duration, step, note)
  are an assumption on the constant `Asks`.
- `LockResource`: `lockForUpdate` on the resource; `terms` are the settings read then.
- `SnapshotActive`, then `PassChecks` / `FailChecks`: the locking read of the customer's
  active rows is two actions because its snapshot is taken when the statement starts
  while the rows are obtained later. Rows inserted in between are not seen; rows whose
  status changed are dropped. The limits, the conflict query and the availability engine
  (which reads the *current* policy, not `terms`) are decided together after it: for one
  resource nothing that could turn a pass into a failure commits in between, because the
  resource row is locked.
- `InsertReservation` / `InsertFails`: the insert, with the exclusion constraint and the
  unique index of the key; failures release all locks (`Rollback`).
- `ChangeStatus`, `CancelReservation`, `UpdatePolicy`, `UpdateResource`,
  `ChangeVisibility`, `Tick` happen at any time, subject to the locks.

Minutes are natural numbers, a day has `DayLength` minutes, opening hours are a set of
minutes. Promo codes, prices and texts are left out: they do not decide the slot.

### ReservationLifecycle

`WriteStatus` is the body of `ChangeReservationStatusAction` on the locked row; staff
PATCHes, check-in, check-out and the sweep go through it. A cancellation is two actions,
`CustomerCancel` or `BusinessCancel` (checks on the loaded model, with the settings and the
deadline) and `WriteCancel` (an UPDATE by primary key with no further check). A sweep is
`SweepStart` (its query) and one `SweepRow`, `SweepSkips` or `SweepAborts` per reservation:
it expires, or its customer is gone and it is passed over, or it has changed and the
exception ends the run. `events[r]` is the sequence of rows in `reservation_events`.

`closed` are the reservations whose customer was soft-deleted. No handler of the repository
deletes a user, though the model (`User`) and the command are written for it, so
`CloseAccount` is a step of the environment. A pending reservation that is passed over stays
pending for good and is listed by every later run. As many of them as the command lists
(200 by default) would fill every batch, and no other reservation would expire any more: with
a batch of one, TLC finds exactly this. `lifecycle` therefore has fewer of them than a batch
holds, and `SweepsNeverStall` names the condition.

### Payments

A create is `LoadForPayment`, `LockForPayment`, `InsertPayment`; a webhook call is
`Receive`, `InsertEvent`, `ApplyResult` and, for a payment that becomes paid, `Settle`.
Uncommitted event rows and locked payment and reservation rows are variables
(`eventLock`, `paymentLock`, `rowLock`). `Messages` are the webhooks the provider may
send; each of the `Deliveries` carries any of them, so messages repeat, overtake one
another and get lost. `MarkPaidAtVenue` excludes a pending reservation although the
code's guard accepts it: confirming it names `ReservationEventSource::StaffAction`, a case
that enum does not have, so the error rolls the transaction back. Not modelled:
`synchronizeStatus` (the only gateway, a mock, reports the stored status, which the
transition table refuses).

### Loyalty

`books[a]` is an account with its ledger; every credit or debit of the code locks the
account row and goes through `Written`, which adds a line and the balance after it, and
`Posted`, which first looks for a line of the same source and type as the code does. The
listener of a completed visit is a job with the steps `Earn`, `Look`, `Qualify`, `Award`
(one transaction each, the guard of `qualifyFromReservation` between them), the listener
of a refund is `Reverse`. `WorkerDies` sends a job back to its start while it has tries
left; what it committed stays. `SweepAccount` reads the balance that `SweepLine` later
writes from: `expireDuePoints` holds no lock in between, and the lines it writes do not
continue the account as it is by then. `Redeem` locks reward and account together.
`Adjust` uses the manager as the source of its line, as the code does, and counts every
call that was answered with success.

`Reversals` keeps the rounding of the code: the quotient is a float that is rounded
down, so where the exact share is whole the model allows the value one below it.

### Subscriptions

A row of `business_subscriptions` is `sub[i]`; its period and trial ends are separate
variables that `PeriodEnds` and `TrialEnds` set. An owner's request first finds the
subscription in force without a lock (`Begin`, with the branch of
`SubscribeBusinessAction`), then acts on it in one transaction: `Create`, `Downgrade`,
`CancelAtEnd`, `CancelNow`, `Resume`, or, for an upgrade, a payment whose success queues
`Fulfil`. `Created` is `createSubscription` under the lock of the business: what is in
force expires. The command is `SweepQuery` (one query per phase: trials, cancellations,
pending plans) and `SweepStatus`, `SweepPlan`, `SweepRenew` per row. `SweepStatus` ends
the run when the transition is refused, as the uncaught exception does.

### Notifications

A sender is a listener of a reservation event (its steps are separate transactions) or an
evaluation of a saved search (its steps are inside one transaction, which `Commit` ends).
`Lookup`, `Insert` and `Dispatch` are `NotificationService::notifyUser`. A delivery job is
`Load`, `Claim`, `Call`, `Record`, `Finish`; `DeliveryDies` brings it back after
`retry_after`, and `Overtaken` gives a copy to a second worker while the first still
runs, because `retry_after` (90 s) is shorter than the workers' timeout (120 s). `queue`
is the configured driver: with redis a job is visible when it is queued, with the
database driver when its transaction commits. The delivery job also drops the notification
of a user who was deleted (`DeliverNotificationJob.php:45`); users are not deleted in this
module, so that case is left out. `Settings` are the pairs of a driver and a
set of senders with something to send that a behaviour may start from. `Invalidate` is a
change of filters, which deletes alerts.

## Runs

| Run | Question | Bounds | Result |
|---|---|---|---|
| `booking_conflicts` | double booking, constraint, bookable at insert, calendar | 3 requests, 1 resource, 3 slots (touching, nested), 2 policies, clock 0 | holds |
| `booking_answers` | idempotency, limits per resource, liveness | 3 requests, 2 customers, 2 resources, one key, active and daily limit of two, clock 0..1, fairness | holds |
| `booking_active_limit` | documented limit over all resources | 2 resources | **violated** |
| `lifecycle` | history, sessions, what the table keeps, sweep liveness | 2 reservations (one may lose its customer), 1 cancel request, 2 sweeps of batch 2, clock 0..1, fairness | holds |
| `lifecycle_terminal` | documented finality of terminal statuses | same, no customer lost, no fairness needed | **violated** |
| `payments` | consistency and liveness of payments, settlement | 1 reservation, 2 creates, 5 webhooks, 3 deliveries, fairness | holds |
| `loyalty` | books, counters, referrals and their settling | 2 customers, 2 visits, 1 manager, 1 sweep, stock 2, 2 tries, 1 death, 1 adjustment, fairness | holds |
| `loyalty_balance` | documented balance as the total of the ledger | same, no fairness | **violated** |
| `loyalty_referral` | documented reward of the first visit | 2 visits of one customer, no death, nothing but the listeners, fairness | **violated** |
| `subscriptions` | one in force, final ends, paid once, cancellations happen | 1 business, 3 rows, 3 requests, 3 plans, 2 ends of periods, 2 tries, 1 death, fairness | holds |
| `subscriptions_pending` | documented application of a pending plan | 2 businesses, 3 rows, 4 requests, one wish each, fairness | **violated** |
| `notifications` | keys, repeats, alerts, what is never delivered | an event dispatched twice or a match found by two evaluations, 2 copies of a job, 3 tries, 2 faults, both drivers, fairness | holds |

Why the bounds are enough to be interesting: the hazards of creation need two requests
and a third that comes between; slots of one and two minutes with buffers 0 and 1 give
every order of two half-open ranges (before, touching, touching only through the buffer,
nested). A limit of two lets a request get past the count while its customer has a
reservation, whose row it then holds: creates for two courts wait for each other's rows,
which with a limit of one they never would. A sweep of batch two with two rows, one due
before the other, shows overlap, a first row that is passed over, and an abort at the first
row with the second as the rest of the batch. Three deliveries allow a duplicate together with an overtaking message. Two visits of one
referred customer are what it takes to miss a referral, one death what it takes to strand
one; one sweep between two other writers of the account shows its stale balance. Three
rows are the first, its successor and the successor of that; two period ends poison one
row and make another due. Two faults are enough for a job that is overtaken and whose
copy dies. In `notifications` the two keys never run together (`OneKey`), since nothing is
shared between keys, and listeners run with one driver, since they dispatch outside of
transactions; the theorems need neither restriction. The code tries a delivery three times
(`DeliverNotificationJob`, `$tries`), and so does the run: with two faults no job is at its
last try because of them alone, and `DeliverySettles` asks of a job at its end, not of one
that is still queued.

Two configurations belong to no run of `PROJECT.json`: `MCPaymentsCancelled.cfg` and
`MCLoyaltyAdjustment.cfg`. Each refutes the one property it lists within seconds, see below.

`CHECK_DEADLOCK FALSE` is set everywhere because a model whose requests are all answered
and whose clock is at its bound has really stopped.

What bounds the state space: the clock (`MaxTime`), the finite sets of requests, creates,
deliveries, cancel requests, senders and rows, and the bounds on faults and periods named
in the modules (`MaxDeaths`, `MaxFaults`, `MaxEnds`, `MaxGranted`, `Copies`, `Ids`). A
sweep, the hourly command and an evaluation run any number of times.

### Fairness

Weak fairness everywhere, and only of what the deployment keeps running. Two liveness
properties have the form `[]<>(nobody is under way)`: requests do not return to their
start and senders and jobs end once, so it says that each of them comes to its end.

- `BookingFairSpec`, `PaymentsFairSpec`: a step of a request that has begun is eventually
  taken, since PHP runs it to its end and PostgreSQL grants a released lock. Nothing is
  assumed about clients, staff or the provider.
- `LifecycleFairSpec`: time passes and the scheduler starts the command again and again
  (`everyMinute`); not that a run meets no changed row.
- `LoyaltyFairSpec`: the workers take the next step of a queued listener. Sweeps, managers
  and redemptions are not assumed to happen.
- `SubFairSpec`: the command is started again and again (`hourly`) and takes its steps; an
  aborted run is simply followed by the next one.
- `NotifyFairSpec`: workers take the next step of a sender that started and of a delivery
  that is queued. Dying and being overtaken are never forced and never excluded.

### What the violated runs show

- **Active limit.** The count locks only rows that exist already and only one resource is
  locked: two requests for two resources both pass with a limit of one.
  `LimitsHoldPerResource` is what the code does guarantee.
- **Terminal statuses.** A cancellation loaded before a reservation was completed,
  expired or rejected overwrites that status with `cancelled`. `TableOrCancelled` and
  `HistoryExplainsStatus` say what remains: this is the only such write.
- **Balance.** `expireDuePoints` reads accounts without a lock and writes balances from
  what it read: what was credited or spent meanwhile disappears from the balance while its
  line stays in the ledger. `StatementContinues` is what holds instead: expiries are the
  only lines that do not continue the account.
- **Referrals.** Which visit is the first is asked by the queued listener, after the commit,
  by looking for other completed reservations of the customer. When two are completed before
  the first listener looks, each finds the other one, both return, and the referral stays
  registered for good. Nothing fails in this trace. A worker that dies between `Qualify` and
  `Award` loses a referral too: the run after it looks for registered referrals only.
  `ReferralSettles` says that these two are the only ways, `LostReferralsStayLost` that
  nothing makes up for them later.
- **Pending plans.** The owner of a cafe schedules the end of one plan and then starts
  another; the first row expires with its schedule. Once its period is over every run of the
  command lists it for cancellation, the table refuses, and the exception ends the run before
  its last phase: the downgrade the owner of a diner chose is never applied. `PoisonStays`
  proves it for any number of businesses.

Two more, of the configurations that no run lists:

- **Paying for a cancelled reservation** (`CancelledNotPayable`, `MCPaymentsCancelled.cfg`;
  `tests/Feature/Api/V1/Payment/PaymentApiTest.php:253` claims it). `PaymentService.php:34`
  looks at the model the route had loaded and does not look again under the lock, so a
  reservation cancelled in between gets a payment.
- **Adjustments** (`AdjustmentsApplied`, `MCLoyaltyAdjustment.cfg`; `lang/en/loyalty.php:8`).
  A manager's second adjustment of one account has the source and type of the first, is taken
  for a repetition (`LoyaltyService.php:305`), and is answered with success without effect.

### What the passing runs show beside the invariants

- A referral whose customer completes one visit is rewarded, whoever dies, unless the worker
  dies between the two transactions of the reward or the job fails (`ReferralSettles`).
- A cancellation at the end of a period happens unless its owner takes it back or the command
  renews the period for a pending plan meanwhile, or an expired row with a schedule ends all
  runs of the command (`CancellationsHappen`).
- A paid upgrade of a subscription that ended meanwhile gives the plan to the ended row
  (the exception named in `PaymentTakesEffectOnce`).
- A sender that died between the insert and the dispatch, a delivery job that ran before
  the commit (redis), and a second alert after a change of filters leave notifications in
  the inbox that nothing delivers (`UndeliveredStays`).
- A delivery that was accepted may end with the status "processing": a run that was
  overtaken and then dies has overwritten the "sent" of the run that overtook it, and no
  job is left to correct it. `DeliverySettles` therefore speaks of what the provider
  accepted (`sends`) and not of the row.
- A guest whose status was set by hand keeps a session nobody can close
  (`OrphanSessionNeverCloses`).

Met while reading, without a run: a retry with the same idempotency key that arrives while
the first call is running ends in an error although the reservation exists by then; a
status PATCH to `checked_in` opens no session; the documentation says a checked-in
reservation cannot become a no-show, the transition table allows it; payment at the venue
of a pending reservation always fails, as told above.

## Proofs

Each proof module proves its theorems from the named assumptions on constants in the
module it extends, for every value of those constants: any number of requests, rows,
customers, senders, workers that die, any order of messages. Every one has the same shape:
an inductive invariant holds at first, each action keeps it, and the properties follow.

**`BookingProofs`.** `BookingInv` is
`BookingTypeOK /\ Bookkeeping /\ LockDiscipline /\ CheckedIsClear /\ HoldingDisjoint`.
That held ranges are disjoint is not inductive alone: an insert keeps it only if nothing
came into the slot since the check. `CheckedIsClear` says so, and is kept by other inserts
because `LockDiscipline` allows one request past the lock per resource. Status changes
keep both since no transition leads back to a blocking status (`NoWayBack`). The
arithmetic is three lemmas about `Occupancy`: two ranges intersect iff they share an
instant, the conflict query is exactly the exclusion constraint, and the availability
test is implied by it. So, for creation through this action, the exclusion constraint
never fires. `BookingImplementsCalendar` shows that every step is a step of `Calendar` or
a stutter under the mapping `heldNow`, `goneNow`. `BlocksOnlyOnce` and
`OnlyBookableInserted` are action properties; the second needs that the owner's UPDATE
waits for the row that a request past `LockResource` holds. `OneReservationPerKey` adds to
the invariant that keys in the table are unique and that every reply is a reservation with
the key of its request.

`LimitsHold` is about cardinalities of sets that every change of a policy, of a status and
of the clock redefines. The set of rows of one customer on one resource grows in
`InsertReservation` alone, and there it has been counted under the lock of the resource:
what the request counted is a superset of what is there when it inserts, since others may
only have left it, so that one row more is still within the limit that was read.

`BookingNeverDeadlocks` states with hand-written guards (`GoesOn`) that a request in a
transaction has a step it need not wait for, or waits for a request that has one, or for
one that waits for such a request. The guards are those of the actions, without ENABLED,
which the provers cannot treat; TLC compared them with ENABLED on the instances of the
runs. The model locks the rows of the locking read all at once; PostgreSQL locks them one
by one, in the order in which the query without ORDER BY (`ReservationRulesEngine.php:214`)
finds them. The theorem is about the order of the statements, resource before rows, and
not about the order within that statement.

**`PaymentsProofs`.** `PaymentsInv` is the conjunction of `PaymentsTypeOK`,
`CreatesInOrder`, `DeliveriesKnown`, `OneActivePayment`, `CollectedIsWrittenThrough` and
`PaidIsNotPending`. One payment in flight needs `CreatesInOrder`: between the lookup and
the insert the create owns the reservation row, so the "no active payment" it has seen
stays true; a webhook can only land payments (`WebhooksOnlyLand`), since no move of the
table leads back to an active status. The two tables agree because the only move into
"paid" is `Settle`, and no step takes `paid` from a reservation. `ProcessedIsApplied` needs
`SettlesUnderLock`: a settlement writes "paid" without asking the table again, which is a
move of the table only because its payment has been locked since the check. With it all
payments follow the table, and what is at or beyond a result stays there.
`PaymentsNeverDeadlock` is the argument behind `EveryDeliveryAnswered`: creates and
webhooks take their locks in opposite orders, but a create that owns its reservation reads
payments without locking them, so it waits for nobody, and the other waits go from events
to payments to reservations.

`PaymentsImplementSettlement` is the second refinement. The mapping keeps of a payment its
stage (`StageOf`: pending and processing are both open, paid and partially refunded both
collected), of a reservation whether it is paid and whether it waits for approval, and the
processed events. A create is one `Open` at its insert; a webhook is one `Collect` or
`Learn` at its commit; the lookups, the inserted event, the locked payment and everything
that is rolled back are stutters. It needs `SettlesUnderLock`, the locks of the deadlock
argument, and `FirstToApply`: what a webhook is about to apply has not taken effect, since
its event row keeps every other webhook with that event out.

**`PromisesProofs`.** The abstract specifications are themselves shown to say what they
should: in a calendar no two ranges meet and nobody holds two (`CalendarStaysDisjoint`); in
a settlement a reservation has one open payment, is marked paid once one was collected, and
does not wait when it is paid (`SettlementAgrees`).

**`ReservationLifecycleProofs`.** `LifecycleInv` is the types, `HistoryExplainsStatus`,
`SessionFollowsGuest`, and `LoadedKnown`: a cancellation under way has loaded a
reservation that exists, with a status it had. Every write of a status, locked or not,
appends the event that leads to it (`Writes`), and `HistoryKept` and `SessionsKept` say
once what such a write does to the history and the session. A sweep and a PATCH keep a
closed session's status because the table has no move from "completed".

The last two are what `OverduePendingLeaves` rests on. `SweepsNeverStall`: a run that has
begun has a row to visit; while anything is overdue the query of a new run finds a batch
(`OverdueIsSelected`, whatever the limit), and in it a reservation it may expire, if there is
one and the overdue rows without a customer are fewer than the limit (`StuckDoNotFillBatch`).
`RunsGetSomewhere`: nothing returns to pending, and every step of a run, the one that aborts
it too, is taken at a row with a customer, which is not pending afterwards, or passes over a
row without one, which keeps its status and leaves the batch. So each run that finds a
reservation it may expire costs the table one or meets one that somebody moved, and aborts
cannot repeat for ever.

**`LoyaltyProofs`.** `LoyaltyInv` adds to the types that every book is good (its balance is
that of its last line, and every line but an expiry continues the one before), that a
sweep never holds a negative balance (`SweepsHold`, which is why an expiry overdraws
nothing whatever it overwrites), that lines of referrals stand for rewarded referrals, and
that jobs run in order. `WrittenKeepsBooks` and `PostedKeepsBooks` are proved once and
carry every credit and debit.

`CountersAreExplained` needs a second invariant, `Counters`: the numbers under which
redemptions are booked are used once, so that no debit is taken for a repetition, and one
line changes the two sums of a book by as much as it changes `lifetime_earned`. The sums
are `SumOf`, about which `SumsProofs` shows what the argument uses. `BalanceTotalsUntilExpiry`
is the positive half of the violated `BalanceIsLedgerTotal`: the documented balance is
right until points expire. `ReferralsAreDecided` is what `ReferralSettles` promises of a
state in which the jobs of a customer have come to rest; it needs `Looked`, which remembers
why a job that has finished did not qualify the referral.

**`SumsProofs`.** What the fold computes is defined by recursion over a finite set. The
induction theorems of the library take an operator and cannot be used; the same induction
without an operator is: if a fact failed for some subset of a finite set, it would fail for
a smallest one (`SmallestSubset`, from the well-foundedness of proper inclusion). In this
form it is proved that the sum is a number, that it does not depend on the choice of the
elements, and what one element more or less does to it. PeopleAssumption of `Loyalty` names
the finiteness of the set of customers for it.

**`SubscriptionsProofs`.** `SubInv` adds to the types and `OneEffective` that every request
acts on a row of its own business (`SeenIsOwn`) and that listeners have tries left. Every
step moves each row as `RowMoves` says: it keeps its business and does not return from its
end. `OneInForce` follows since rows come into force through `Created` alone, which ends
what was there; the command's transitions start from `Effective` by the table.
`PoisonStays` is why `PendingPlanApplied` fails: an expired row with a scheduled
cancellation that no request has in hand stays that way, is in every list of
cancellations, and so no run gets past it to the pending plans.

**`NotificationsProofs`.** `NotifyInv` is the types, `SendersRight` (what a sender has made
at each of its steps, and that evaluations of one key exclude each other between alert and
commit), `OneNotificationPerKey`, that alerts have notifications, and `JobsRight`. The
last counts: messages sent plus runs that may still send are at most one more than the
faults so far, and, while a job has had one copy, the message is accounted for by the state
of the delivery or by a run that died in doubt. A notification not yet queued has no
job and no message (`NotQueuedYet`). `NoDeliveryForgotten` adds `Pursued`: as long as a
queued delivery has neither been accepted nor failed for good, some copy of its job is
still held by the queue, which would run it again whoever dies.

Every invariant and every action property of a passing run is stated by a theorem. Only
model-checked are the liveness properties (`EveryRequestAnswered`, `OverduePendingLeaves`,
`EveryDeliveryAnswered`, `ReferralSettles`, `CancellationsHappen`, `DeliverySettles`), since
fairness and ENABLED are out of the provers' reach. What they need of safety is proved where
it is stated above: nobody waits in a circle, sweeps neither stall nor run for nothing, a
finished job has decided its referral, no delivery is forgotten. Of `CancellationsHappen`
only the safety of its steps (`OneInForce`, `NoReturnFromTheEnd`) is proved.

The predicates of those theorems that no run lists (`NoCircularWait`, `SweepsGoOn`,
`PendingRunsOut`, `ReferralDecided`, `LostStaysLost`, `TotalUntilExpiry`,
`PoisonIsForGood`, `NothingForgotten`) hold on the instances of the runs too; where one of them is written with
the guards of actions, TLC agrees that these say what ENABLED says.

## Not modelled

- **Promotions**: the redemption happens inside the create transaction under the lock of
  the promo code; the counters that drift apart after cancellations are documented.
- **Pricing, availability for a calendar view**: pure computations on rows only owners
  write; they have unit tests on their boundaries. The one availability decision that
  matters for a booking is part of `Booking`.
- **Entitlements and usage**: counts compared with plan limits before unrelated writes. The
  subscription in force is found in `Subscriptions`.
- **Verification, staff, invitations, QR tokens**: one check and one transaction per
  operation. Visibility, the result of verification, is an input of `Booking`.
- **Reviews and ratings**: a cached value that a command rebuilds.
- **Authentication, favorites**: rows of one user. **Discovery, calendar, dashboard,
  analytics**: reads. **Administration**: single rows with an audit log. **HTTP layer**:
  its effect is the set of payloads the models are given.
- **`public/js`**: the only JavaScript files of the repository are minified assets of the
  Filament admin package published by its installer; the program itself is PHP (and a
  Flutter client in `mobile`), and none of its logic is in those files.
