---------------------------- MODULE Subscriptions ----------------------------
(***************************************************************************)
(* Subscriptions of businesses to plans: requests of the owners, payments  *)
(* fulfilled by a queued listener, and the hourly command that ends        *)
(* trials, cancels at the end of a period and applies pending plans.       *)
(*                                                                         *)
(* A request finds the effective subscription without a lock and acts on   *)
(* it in a later transaction.  The command lists what is due, one query    *)
(* per phase, and then handles the rows one transaction at a time; a row   *)
(* whose status forbids the transition throws and ends the whole run.      *)
(***************************************************************************)
EXTENDS Integers, FiniteSets

CONSTANTS
    Businesses,
    Ids,             \* bound: rows of business_subscriptions there may be
    FirstRow,        \* FirstRow[b]: the row assignDefaultPlan gave b
    Plans,           \* public plans, by sort_order
    Free,            \* the default plan, the only one with price 0
    TrialPlans,      \* plans with trial_days > 0
    Requests, Asks,  \* Asks[q]: the [biz, what, plan] that request q may be
    NoRow, NoPlan, NoAsk,
    MaxEnds,         \* bound: periods that end
    Tries,           \* queue:work --tries
    MaxDeaths        \* bound: workers that die

Wishes == {"subscribe", "cancel_end", "cancel_now", "resume"}
Ask == [biz : Businesses, what : Wishes, plan : Plans \cup {NoPlan}]

ASSUME RowsAssumption ==
    /\ FirstRow \in [Businesses -> Ids] /\ NoRow \notin Ids
    /\ \A b, c \in Businesses : FirstRow[b] = FirstRow[c] => b = c
ASSUME PlansAssumption ==
    Plans \subseteq Nat /\ Free \in Plans /\ TrialPlans \subseteq Plans \ {Free}
ASSUME AsksAssumption ==
    /\ Asks \in [Requests -> SUBSET Ask]
    /\ \A q \in Requests : \A a \in Asks[q] : a.what = "subscribe" <=> a.plan \in Plans
    /\ NoPlan \notin Plans /\ NoAsk \notin Ask
ASSUME BoundsAssumption == MaxEnds \in Nat /\ Tries \in Nat \ {0} /\ MaxDeaths \in Nat

VARIABLES
    sub,        \* sub[i]: [biz, plan, status, pending, scheduled] of row i
    over,       \* over[i]: when current_period_end of row i passed, 0 before
    trialOver,  \* rows whose trial_ends_at has passed
    clock,      \* periods that ended so far
    req,        \* req[q]: [at, ask, seen]: a request, then its payment and its job
    fulfilled,  \* requests whose payment has subscription_fulfilled
    left,       \* left[q]: tries its listener has left
    deaths,     \* workers that died
    sweep       \* [at, due, row]: the running command

timeVars == <<over, trialOver, clock>>
payVars == <<fulfilled, left, deaths>>
subVars == <<sub, timeVars, req, payVars, sweep>>

(***************************************************************************)
(* Rows.                                                                   *)
(***************************************************************************)
Effective == {"trialing", "active", "past_due", "paused"}
Ended == {"cancelled", "expired"}

\* SubscriptionTransitionService.
Successors == [trialing |-> {"active", "cancelled", "expired", "past_due"},
               active |-> {"past_due", "cancelled", "expired", "paused"},
               past_due |-> {"active", "cancelled", "expired"},
               paused |-> {"active", "cancelled", "expired"},
               cancelled |-> {"expired"},
               expired |-> {}]
CanMove(from, to) == from = to \/ to \in Successors[from]

EffectiveOf(b) == {i \in Ids : sub[i].biz = b /\ sub[i].status \in Effective}

\* BusinessEntitlementService::effectiveSubscription.
Current(b) == IF EffectiveOf(b) = {} THEN NoRow ELSE CHOOSE i \in EffectiveOf(b) : TRUE

Absent == [biz |-> "none", plan |-> NoPlan, status |-> "absent", pending |-> NoPlan,
           scheduled |-> FALSE]
NewRow(b, p, s) == [biz |-> b, plan |-> p, status |-> s, pending |-> NoPlan,
                    scheduled |-> FALSE]

\* Variant: the subscription in force is not ended first.
CreatedBeside(i, b, p, s) == [sub EXCEPT ![i] = NewRow(b, p, s)]

\* createSubscription, under the lock of the business: what is in force
\* expires, whatever was scheduled for it, and row i takes its place.
Created(i, b, p, s) ==
    [j \in Ids |-> IF j = i THEN NewRow(b, p, s)
                   ELSE IF j \in EffectiveOf(b) THEN [sub[j] EXCEPT !.status = "expired"]
                   ELSE sub[j]]

Idle == [at |-> "idle", due |-> {}, row |-> NoRow]

SubInit ==
    /\ sub = [i \in Ids |-> IF \E b \in Businesses : FirstRow[b] = i
                            THEN NewRow(CHOOSE b \in Businesses : FirstRow[b] = i,
                                        Free, "active")
                            ELSE Absent]
    /\ over = [i \in Ids |-> 0] /\ trialOver = {} /\ clock = 0
    /\ req = [q \in Requests |-> [at |-> "new", ask |-> NoAsk, seen |-> NoRow]]
    /\ fulfilled = {} /\ left = [q \in Requests |-> Tries] /\ deaths = 0
    /\ sweep = Idle

(***************************************************************************)
(* Requests.                                                               *)
(***************************************************************************)
\* Variant: the other requests do not ask whether a subscription was found.
BranchUnfound(a, i) ==
    IF a.what # "subscribe" THEN a.what
    ELSE IF i # NoRow /\ sub[i].plan = a.plan THEN "done"
    ELSE IF a.plan = Free THEN "create"
    ELSE IF a.plan \in TrialPlans /\ (i = NoRow \/ sub[i].plan = Free) THEN "trial"
    ELSE IF i # NoRow /\ a.plan < sub[i].plan THEN "downgrade"
    ELSE "pay"

\* SubscribeBusinessAction::execute up to its branch, and the lookup of the
\* other requests: what is to be done with the subscription found.
Branch(a, i) ==
    IF a.what # "subscribe" THEN (IF i = NoRow THEN "done" ELSE a.what)
    ELSE IF i # NoRow /\ sub[i].plan = a.plan THEN "done"
    ELSE IF a.plan = Free THEN "create"
    ELSE IF a.plan \in TrialPlans /\ (i = NoRow \/ sub[i].plan = Free) THEN "trial"
    ELSE IF i # NoRow /\ a.plan < sub[i].plan THEN "downgrade"
    ELSE "pay"

Begin(q, a) ==
    LET i == Current(a.biz) IN
    /\ req[q].at = "new"
    /\ req' = [req EXCEPT ![q] = [at |-> Branch(a, i), ask |-> a, seen |-> i]]
    /\ UNCHANGED <<sub, timeVars, payVars, sweep>>

Answered(q) == req' = [req EXCEPT ![q].at = "done"]

\* A plan that costs nothing, or one that starts with a trial.
Create(q) ==
    /\ req[q].at \in {"create", "trial"}
    /\ Answered(q)
    /\ \E i \in Ids :
          /\ sub[i].status = "absent"
          /\ sub' = Created(i, req[q].ask.biz, req[q].ask.plan,
                            IF req[q].at = "trial" THEN "trialing" ELSE "active")
    /\ UNCHANGED <<timeVars, payVars, sweep>>

\* changePlan at the end of the period; the status is not asked for.
Downgrade(q) ==
    /\ req[q].at = "downgrade"
    /\ Answered(q)
    /\ sub' = [sub EXCEPT ![req[q].seen].pending = req[q].ask.plan]
    /\ UNCHANGED <<timeVars, payVars, sweep>>

\* cancel at the end of the period: no status is asked for here either.
CancelAtEnd(q) ==
    /\ req[q].at = "cancel_end"
    /\ Answered(q)
    /\ sub' = [sub EXCEPT ![req[q].seen].scheduled = TRUE]
    /\ UNCHANGED <<timeVars, payVars, sweep>>

\* cancel at once; an expired subscription answers with an error.
CancelNow(q) ==
    LET i == req[q].seen IN
    /\ req[q].at = "cancel_now"
    /\ Answered(q)
    /\ sub' = IF CanMove(sub[i].status, "cancelled")
              THEN [sub EXCEPT ![i].status = "cancelled"] ELSE sub
    /\ UNCHANGED <<timeVars, payVars, sweep>>

\* resume takes the schedule back unless the cancellation has happened.
Resume(q) ==
    LET i == req[q].seen IN
    /\ req[q].at = "resume"
    /\ Answered(q)
    /\ sub' = IF sub[i].status = "cancelled" THEN sub ELSE [sub EXCEPT ![i].scheduled = FALSE]
    /\ UNCHANGED <<timeVars, payVars, sweep>>

(***************************************************************************)
(* Payments of upgrades.                                                   *)
(***************************************************************************)
\* The provider reports the payment as succeeded: the listener is queued.
PaymentSucceeds(q) ==
    /\ req[q].at = "pay"
    /\ req' = [req EXCEPT ![q].at = "fulfil"]
    /\ UNCHANGED <<sub, timeVars, payVars, sweep>>

Upgraded(i, p) == [sub EXCEPT ![i].plan = p, ![i].pending = NoPlan]

\* Variant: a job that runs again is not recognised.
FulfilAgain(q) ==
    /\ req[q].at = "fulfil"
    /\ req' = [req EXCEPT ![q].at = "ack"]
    /\ fulfilled' = fulfilled \cup {q}
    /\ IF req[q].seen # NoRow
       THEN sub' = Upgraded(req[q].seen, req[q].ask.plan)
       ELSE \E i \in Ids :
               /\ sub[i].status = "absent"
               /\ sub' = Created(i, req[q].ask.biz, req[q].ask.plan, "active")
    /\ UNCHANGED <<timeVars, left, deaths, sweep>>

\* FulfillSubscriptionPaymentAction::execute: the subscription of the time of
\* the request gets the plan, whether it is still in force or not.
Fulfil(q) ==
    /\ req[q].at = "fulfil"
    /\ req' = [req EXCEPT ![q].at = "ack"]
    /\ fulfilled' = fulfilled \cup {q}
    /\ \/ q \in fulfilled /\ UNCHANGED sub
       \/ /\ q \notin fulfilled /\ req[q].seen # NoRow
          /\ sub' = Upgraded(req[q].seen, req[q].ask.plan)
       \/ /\ q \notin fulfilled /\ req[q].seen = NoRow
          /\ \E i \in Ids :
                /\ sub[i].status = "absent"
                /\ sub' = Created(i, req[q].ask.biz, req[q].ask.plan, "active")
    /\ UNCHANGED <<timeVars, left, deaths, sweep>>

\* The worker deletes the job it has finished.
Acknowledge(q) ==
    /\ req[q].at = "ack"
    /\ Answered(q)
    /\ UNCHANGED <<sub, timeVars, payVars, sweep>>

\* The worker dies; the job is run again while it has tries left.
WorkerDies(q) ==
    /\ deaths < MaxDeaths /\ deaths' = deaths + 1
    /\ req[q].at \in {"fulfil", "ack"}
    /\ left' = [left EXCEPT ![q] = @ - 1]
    /\ req' = [req EXCEPT ![q].at = IF left[q] = 1 THEN "failed" ELSE "fulfil"]
    /\ UNCHANGED <<sub, timeVars, fulfilled, sweep>>

(***************************************************************************)
(* Time.                                                                   *)
(***************************************************************************)
\* The period of row i ends, whatever its status.
PeriodEnds(i) ==
    /\ sub[i].status # "absent" /\ over[i] = 0 /\ clock < MaxEnds
    /\ clock' = clock + 1
    /\ over' = [over EXCEPT ![i] = clock + 1]
    /\ UNCHANGED <<sub, trialOver, req, payVars, sweep>>

\* So does the trial of row i, which a trialing row alone has.
TrialEnds(i) ==
    /\ sub[i].status = "trialing" /\ i \notin trialOver
    /\ trialOver' = trialOver \cup {i}
    /\ UNCHANGED <<sub, over, clock, req, payVars, sweep>>

(***************************************************************************)
(* subscriptions:process-lifecycle.                                        *)
(***************************************************************************)
\* Variant: the query for ended trials does not look at the status.
TrialsDueInAnyStatus == {i \in trialOver : sub[i].status # "active"}

TrialsDue == {i \in trialOver : sub[i].status = "trialing"}

\* whereNull cancelled_at, which every cancellation sets; nothing else is asked.
CancelsDue == {i \in Ids : over[i] # 0 /\ sub[i].scheduled /\ sub[i].status # "cancelled"}

PlansDue == {i \in Ids : /\ over[i] # 0 /\ sub[i].pending # NoPlan
                         /\ sub[i].status \in {"active", "trialing"}}

\* The query of the next phase, once the rows of this one are handled.  (The
\* query for cancelled rows without ended_at, which finds none because every
\* cancellation sets ended_at, is left out.)
SweepQuery ==
    /\ sweep.due = {} /\ sweep.row = NoRow
    /\ sweep' = CASE sweep.at = "idle" -> [Idle EXCEPT !.at = "trials", !.due = TrialsDue]
                  [] sweep.at = "trials" -> [Idle EXCEPT !.at = "cancels", !.due = CancelsDue]
                  [] sweep.at = "cancels" -> [Idle EXCEPT !.at = "plans", !.due = PlansDue]
                  [] sweep.at = "plans" -> Idle
    /\ UNCHANGED <<sub, timeVars, req, payVars>>

\* Rows are handled by the end of their period, the trials by the end of their
\* trial, here in any order.
InOrder(i) ==
    /\ i \in sweep.due
    /\ sweep.at = "trials" \/ \A j \in sweep.due : over[i] <= over[j]

\* Variant: the status is the one the query had loaded.
SweepStatusAsListed(i) ==
    LET to == IF sweep.at = "trials" THEN "active" ELSE "cancelled" IN
    /\ sweep.at \in {"trials", "cancels"} /\ InOrder(i)
    /\ sub' = [sub EXCEPT ![i].status = to]
    /\ sweep' = [sweep EXCEPT !.due = @ \ {i}]
    /\ UNCHANGED <<timeVars, req, payVars>>

\* transitionStatus on the locked row; its exception ends the command.
SweepStatus(i) ==
    LET to == IF sweep.at = "trials" THEN "active" ELSE "cancelled" IN
    /\ sweep.at \in {"trials", "cancels"} /\ InOrder(i)
    /\ IF CanMove(sub[i].status, to)
       THEN /\ sub' = [sub EXCEPT ![i].status = to]
            /\ sweep' = [sweep EXCEPT !.due = @ \ {i}]
       ELSE UNCHANGED sub /\ sweep' = Idle
    /\ UNCHANGED <<timeVars, req, payVars>>

\* applyPendingPlanChange.
SweepPlan(i) ==
    /\ sweep.at = "plans" /\ sweep.row = NoRow /\ InOrder(i)
    /\ sub' = IF sub[i].pending = NoPlan THEN sub ELSE Upgraded(i, sub[i].pending)
    /\ sweep' = [sweep EXCEPT !.due = @ \ {i}, !.row = i]
    /\ UNCHANGED <<timeVars, req, payVars>>

\* renewPeriod, in a transaction of its own.
SweepRenew ==
    /\ sweep.row # NoRow
    /\ over' = [over EXCEPT ![sweep.row] = 0]
    /\ sweep' = [sweep EXCEPT !.row = NoRow]
    /\ UNCHANGED <<sub, trialOver, clock, req, payVars>>

(***************************************************************************)
(* Specification: the schedule starts the command again and again.         *)
(***************************************************************************)
Serve(q) ==
    \/ \E a \in Asks[q] : Begin(q, a)
    \/ Create(q) \/ Downgrade(q) \/ CancelAtEnd(q) \/ CancelNow(q) \/ Resume(q)
    \/ PaymentSucceeds(q) \/ Fulfil(q) \/ Acknowledge(q) \/ WorkerDies(q)

SweepStep == SweepQuery \/ SweepRenew \/ \E i \in Ids : SweepStatus(i) \/ SweepPlan(i)

SubNext ==
    \/ \E q \in Requests : Serve(q)
    \/ \E i \in Ids : PeriodEnds(i) \/ TrialEnds(i)
    \/ SweepStep

SubSpec == SubInit /\ [][SubNext]_subVars
SubFairSpec == SubSpec /\ WF_subVars(SweepStep)

(***************************************************************************)
(* Properties.                                                             *)
(***************************************************************************)
Row == [biz : Businesses \cup {"none"}, plan : Plans \cup {NoPlan},
        status : Effective \cup Ended \cup {"absent"}, pending : Plans \cup {NoPlan},
        scheduled : BOOLEAN]
RequestStates == Wishes \cup {"new", "create", "trial", "downgrade", "pay", "fulfil",
                              "ack", "failed", "done"}

\* The type invariant: a row that exists has a business and a plan, and a
\* request that manages a subscription acts on a row that exists.
SubTypeOK ==
    /\ sub \in [Ids -> Row]
    /\ \A i \in Ids : sub[i].status # "absent" => sub[i].biz \in Businesses /\ sub[i].plan \in Plans
    /\ over \in [Ids -> 0..MaxEnds] /\ trialOver \subseteq Ids /\ clock \in 0..MaxEnds
    /\ req \in [Requests -> [at : RequestStates, ask : Ask \cup {NoAsk},
                             seen : Ids \cup {NoRow}]]
    /\ \A q \in Requests :
          /\ req[q].seen # NoRow => sub[req[q].seen].status # "absent"
          /\ req[q].at \in Wishes \cup {"downgrade"} => req[q].seen # NoRow
          /\ req[q].at \in {"create", "trial", "downgrade", "pay", "fulfil", "ack"} =>
                req[q].ask \in Ask /\ req[q].ask.plan \in Plans
    /\ fulfilled \subseteq Requests /\ left \in [Requests -> 0..Tries] /\ deaths \in 0..MaxDeaths
    /\ sweep \in [at : {"idle", "trials", "cancels", "plans"}, due : SUBSET Ids,
                  row : Ids \cup {NoRow}]

\* A business never has two subscriptions in force, whatever the command does
\* with rows it listed before they were replaced: the partial unique index
\* never has to refuse an insert.
OneEffective ==
    \A i, j \in Ids : /\ sub[i].status \in Effective /\ sub[j].status \in Effective
                     /\ sub[i].biz = sub[j].biz
                     => i = j

\* A subscription that ended never comes back into force, through requests and
\* command runs that found it while it was.
EndedForGood ==
    [][\A i \in Ids : sub[i].status \in Ended => sub'[i].status \in Ended]_subVars

\* A payment takes effect once, however often its job runs: at that step the
\* business has the paid plan, unless the subscription it upgrades has ended
\* meanwhile, and then nothing in force changes.
PaymentTakesEffectOnce ==
    [][\A q \in Requests :
          LET b == req[q].ask.biz
              plans == {sub[i].plan : i \in EffectiveOf(b)}
              plansAfter == {sub'[i].plan : i \in EffectiveOf(b)'} IN
          /\ q \in fulfilled /\ req[q].at = "fulfil" /\ req'[q].at # "fulfil" => sub' = sub
          /\ q \notin fulfilled /\ q \in fulfilled' =>
                IF req[q].seen # NoRow /\ sub[req[q].seen].status \in Ended
                THEN plansAfter = plans
                ELSE plansAfter = {req[q].ask.plan}
      ]_subVars

\* Row i expired, when another plan replaced it, while its cancellation was
\* scheduled, and its period is over: the command can never transition it.
Poisoned(i) == sub[i].status = "expired" /\ sub[i].scheduled /\ over[i] # 0

\* Somebody found the row while it was in force and may still change it.
InHand(i) ==
    \/ \E q \in Requests : req[q].at = "resume" /\ req[q].seen = i
    \/ sweep.at = "plans" /\ i \in sweep.due \cup {sweep.row}

\* A plan that waits for the end of the period is due.
PlanWaits(i) ==
    over[i] # 0 /\ sub[i].pending # NoPlan /\ sub[i].status \in {"active", "trialing"}

\* What docs/SUBSCRIPTION_AND_PLANS.md:96 and :117 promise: a plan chosen for
\* the next period is applied once the period has ended, with a command that
\* keeps running.  (A poisoned row of any business refutes it.)
PendingPlanApplied == \A i \in Ids : PlanWaits(i) ~> ~PlanWaits(i)

\* With a command that keeps running, a cancellation at the end of the period
\* happens, although runs are cut short by rows that changed after the query,
\* unless a poisoned row exists.  It may also leave what is due because its
\* owner resumes or replaces the subscription, or because the command renews
\* the period while it applies a pending plan.
CancellationsHappen ==
    \A i \in Ids :
        (i \in CancelsDue /\ sub[i].status \in Effective)
            ~> \/ i \notin CancelsDue \/ sub[i].status \notin Effective
               \/ \E j \in Ids : Poisoned(j)
==============================================================================
